--------------------------- MODULE TopologyProofs ---------------------------
(***************************************************************************)
(* What the topology command prints, for every search: the tiers are a     *)
(* topological order of the modules in them, edges back to the root        *)
(* excepted, and a module is left out only behind another one.             *)
(*                                                                         *)
(* The invariant says what the two maps mean that the loops take apart:    *)
(* edges has the modules that were not visited yet, and counter, for each  *)
(* module that is in no tier, the predecessors that were not visited yet.  *)
(***************************************************************************)
EXTENDS Topology, SequenceTheorems, TLAPS

Answered == DOMAIN search.lists

\* The modules that lead to d.
Before(d) == {m \in Answered : d \in Lists(m)}

\* The modules a tier's loop has visited.
Visited == Answered \ DOMAIN edges

\* While responses come in, both maps describe the ones received.
Receiving ==
  pc \in {"recv", "failed"} =>
    /\ pending \subseteq Answered
    /\ DOMAIN edges = Answered \ pending
    /\ DOMAIN counter = DOMAIN edges \cup UNION {Lists(m) : m \in DOMAIN edges}
    /\ \A d \in DOMAIN counter : counter[d] = Before(d) \ pending
    /\ modules = {} /\ next = {} /\ result = <<>>

\* Every module of a tier but the root comes after all the modules that lead to it.
TiersInOrder ==
  \A j \in 1..Len(result) : \A d \in result[j] \ {search.root} :
    \A m \in Before(d) : \E i \in 1..Len(result) : i < j /\ m \in result[i]

TiersDisjoint ==
  \A i, j \in 1..Len(result) : i # j => result[i] \cap result[j] = {}

\* While tiers are peeled off: a module is visited, waits in its tier, is about to get
\* one, or is counted with the predecessors that hold it back.
Sorting ==
  pc \in {"sort", "done"} =>
    /\ result \in Seq(SUBSET Answered) /\ DOMAIN edges \subseteq Answered
    /\ Listed = Visited \cup modules /\ modules \subseteq DOMAIN edges
    /\ search.root \in Listed
    /\ next \subseteq Answered \ Listed
    /\ DOMAIN counter = Answered \ (Listed \cup next)
    /\ \A d \in DOMAIN counter : counter[d] = Before(d) \ Visited /\ counter[d] # {}
    /\ \A d \in next : Before(d) \subseteq Visited
    /\ TiersInOrder /\ TiersDisjoint
    /\ pc = "done" => modules = {} /\ next = {}

\* The inductive invariant.
IInv ==
  /\ WellFormed(search) /\ pc \in {"recv", "failed", "sort", "done"}
  /\ \A m \in DOMAIN edges : edges[m] = Lists(m)
  /\ Receiving /\ Sorting
-----------------------------------------------------------------------------
(* Facts about well-formed searches.                                       *)

\* A response lists answered modules, never the module itself, and every module but
\* the root is listed by another one: otherwise the rest would be closed without it.
LEMMA SearchFacts ==
  ASSUME WellFormed(search)
  PROVE  /\ search.root \in Answered
         /\ \A m \in Answered : Lists(m) \subseteq Answered \ {m}
         /\ \A d \in Answered \ {search.root} : Before(d) # {}
<1>1. search.root \in Answered /\ \A m \in Answered : Lists(m) \subseteq Answered \ {m}
  BY DEF WellFormed, Answered, Lists
<1>2. ASSUME NEW d \in Answered \ {search.root}, Before(d) = {} PROVE FALSE
  <2> DEFINE S == Answered \ {d}
  <2>1. search.root \in S /\ S \in SUBSET Answered
    BY <1>1
  <2>2. \A m \in S : search.lists[m] \subseteq S
    BY <1>1, <1>2 DEF Before, Lists
  <2>3. S = Answered
    BY <2>1, <2>2 DEF WellFormed, Answered
  <2>4. QED
    BY <2>3
<1>3. QED
  BY <1>1, <1>2

-----------------------------------------------------------------------------
(* The invariant holds at the start and is kept by every step.             *)

\* The command starts with empty maps and every response to come.
LEMMA CommandStarts == Init => IInv
  BY DEF Init, IInv, Receiving, Sorting, Answered, Before

\* A response adds its module to edges and to the counters of what it lists.
LEMMA ReceiveKeeps == ASSUME IInv, NEW m \in Modules, Receive(m) PROVE IInv'
<1> USE DEF IInv
<1>1. /\ pc = "recv" /\ m \in pending /\ pending' = pending \ {m} /\ pc' = pc
      /\ UNCHANGED <<search, modules, next, result>>
  BY DEF Receive
<1>2. /\ Answered' = Answered /\ \A n : Lists(n)' = Lists(n)
      /\ \A d : Before(d)' = Before(d)
  BY <1>1 DEF Answered, Lists, Before
<1>3. m \in Answered /\ pending \subseteq Answered /\ DOMAIN edges = Answered \ pending
  BY <1>1 DEF Receiving
<1>4. DOMAIN edges' = Answered \ pending'
  BY <1>1, <1>3 DEF Receive, Extended
<1>5. \A n \in DOMAIN edges' : edges'[n] = Lists(n)
  BY <1>1 DEF Receive, Extended, Lists
<1>6. DOMAIN counter' = DOMAIN counter \cup {m} \cup Lists(m)
  BY DEF Receive, Known, Lists
<1>7. DOMAIN counter' = DOMAIN edges' \cup UNION {Lists(n) : n \in DOMAIN edges'}
  <2>1. DOMAIN counter = DOMAIN edges \cup UNION {Lists(n) : n \in DOMAIN edges}
    BY <1>1 DEF Receiving
  <2>2. DOMAIN edges' = DOMAIN edges \cup {m}
    BY <1>1, <1>3, <1>4
  <2>3. QED
    BY <1>6, <2>1, <2>2
<1>8. ASSUME NEW d \in DOMAIN counter' PROVE counter'[d] = Before(d) \ pending'
  <2>1. (d \in DOMAIN counter => counter[d] = Before(d) \ pending)
        /\ (d \notin DOMAIN counter => Before(d) \ pending = {})
    BY <1>1, <1>3 DEF Receiving, Before
  <2>2. counter'[d] = (IF d \in DOMAIN counter THEN counter[d] ELSE {})
                      \cup (IF d \in Lists(m) THEN {m} ELSE {})
    BY <1>6, <1>8 DEF Receive, Known, Lists
  <2>3. QED
    BY <1>1, <1>3, <2>1, <2>2 DEF Before
<1>9. Receiving'
  BY <1>1, <1>2, <1>3, <1>4, <1>7, <1>8 DEF Receiving
<1>10. Sorting'
  BY <1>1 DEF Sorting
<1>11. QED
  BY <1>1, <1>2, <1>5, <1>9, <1>10

\* All responses are there: every module has its counter, the root gives up its own
\* and becomes the first tier.
LEMMA StartSortKeeps == ASSUME IInv, StartSort PROVE IInv'
<1> USE DEF IInv
<1>1. /\ pc = "recv" /\ pending = {} /\ pc' = "sort" /\ modules' = {search.root}
      /\ result' = <<{search.root}>> /\ counter' = Removed(counter, {search.root})
      /\ UNCHANGED <<search, pending, edges, next>>
  BY DEF StartSort
<1>2. /\ Answered' = Answered /\ \A n : Lists(n)' = Lists(n)
      /\ \A d : Before(d)' = Before(d)
  BY <1>1 DEF Answered, Lists, Before
<1>3. /\ DOMAIN edges = Answered /\ DOMAIN counter = Answered /\ next = {}
      /\ \A d \in DOMAIN counter : counter[d] = Before(d)
  <2>1. DOMAIN edges = Answered /\ next = {} /\ \A d \in DOMAIN counter : counter[d] = Before(d)
    BY <1>1 DEF Receiving
  <2>2. UNION {Lists(m) : m \in Answered} \subseteq Answered
    BY SearchFacts
  <2>3. QED
    BY <1>1, <2>1, <2>2 DEF Receiving
<1>4. Visited' = {}
  BY <1>1, <1>2, <1>3 DEF Visited
<1>5. Len(result') = 1 /\ result'[1] = {search.root}
  BY <1>1
<1>6. Listed' = {search.root}
  BY <1>5 DEF Listed
<1>7. result' \in Seq(SUBSET Answered)
  BY <1>1, SearchFacts
<1>8. TiersInOrder' /\ TiersDisjoint'
  BY <1>1, <1>5 DEF TiersInOrder, TiersDisjoint
<1>9. /\ DOMAIN counter' = Answered \ {search.root}
      /\ \A d \in DOMAIN counter' : counter'[d] = Before(d) /\ counter'[d] # {}
  BY <1>1, <1>3, SearchFacts DEF Removed
<1>10. Sorting'
  BY <1>1, <1>2, <1>3, <1>4, <1>6, <1>7, <1>8, <1>9, SearchFacts DEF Sorting
<1>11. QED
  BY <1>1, <1>2, <1>10 DEF Receiving

\* A module is visited: it stops holding back what it lists, and what nothing holds
\* back any more moves to the tier being built.
LEMMA VisitKeeps == ASSUME IInv, NEW m \in Modules, Visit(m) PROVE IInv'
<1> USE DEF IInv
<1>1. /\ pc = "sort" /\ m \in modules /\ modules' = modules \ {m}
      /\ next' = next \cup Freed(m) /\ counter' = Removed(Released(m), Freed(m))
      /\ edges' = Removed(edges, {m}) /\ UNCHANGED <<search, pc, pending, result>>
  BY DEF Visit
<1>2. /\ Answered' = Answered /\ \A n : Lists(n)' = Lists(n)
      /\ \A d : Before(d)' = Before(d) /\ Listed' = Listed
  BY <1>1 DEF Answered, Lists, Before, Listed
<1>3. m \in DOMAIN edges /\ m \in Answered /\ edges[m] = Lists(m)
  BY <1>1 DEF Sorting
<1>4. /\ DOMAIN edges' = DOMAIN edges \ {m}
      /\ \A n \in DOMAIN edges' : edges'[n] = Lists(n)
  BY <1>1 DEF Removed
<1>5. Visited' = Visited \cup {m}
  BY <1>2, <1>3, <1>4 DEF Visited
<1>6. \A d \in DOMAIN counter :
        Released(m)[d] = Before(d) \ Visited' /\ DOMAIN Released(m) = DOMAIN counter
  BY <1>1, <1>3, <1>5 DEF Released, Sorting, Before
<1>7. /\ Freed(m) \subseteq DOMAIN counter
      /\ \A d \in Freed(m) : Before(d) \subseteq Visited'
  BY <1>6 DEF Freed
<1>8. ASSUME NEW d \in DOMAIN counter \ Freed(m) PROVE Released(m)[d] # {}
  BY <1>1, <1>3 DEF Freed, Released, Sorting
<1>9. /\ DOMAIN counter' = DOMAIN counter \ Freed(m)
      /\ \A d \in DOMAIN counter' : counter'[d] = Before(d) \ Visited' /\ counter'[d] # {}
  BY <1>1, <1>6, <1>8 DEF Removed, Released
<1>10. TiersInOrder' /\ TiersDisjoint'
  BY <1>1, <1>2 DEF Sorting, TiersInOrder, TiersDisjoint
<1>11. /\ Listed' = Visited' \cup modules' /\ modules' \subseteq DOMAIN edges'
       /\ next' \subseteq Answered \ Listed
       /\ DOMAIN counter' = Answered \ (Listed \cup next')
       /\ \A d \in next' : Before(d) \subseteq Visited'
  BY <1>1, <1>2, <1>3, <1>4, <1>5, <1>7, <1>9 DEF Sorting
<1>12. Sorting'
  BY <1>1, <1>2, <1>4, <1>9, <1>10, <1>11 DEF Sorting
<1>13. QED
  BY <1>1, <1>2, <1>4, <1>12 DEF Receiving

\* The tier that was built is printed after the others, or the sort is over.
LEMMA EndTierKeeps == ASSUME IInv, EndTier PROVE IInv'
<1> USE DEF IInv
<1>1. /\ pc = "sort" /\ modules = {} /\ modules' = next /\ next' = {}
      /\ result' = (IF next = {} THEN result ELSE Append(result, next))
      /\ pc' = (IF next = {} THEN "done" ELSE "sort")
      /\ UNCHANGED <<search, pending, counter, edges>>
  BY DEF EndTier
<1>2. /\ Answered' = Answered /\ \A n : Lists(n)' = Lists(n)
      /\ \A d : Before(d)' = Before(d) /\ Visited' = Visited
  BY <1>1 DEF Answered, Lists, Before, Visited
<1>3. CASE next = {}
  <2>1. result' = result /\ Listed' = Listed /\ TiersInOrder' /\ TiersDisjoint'
    BY <1>1, <1>2, <1>3 DEF Listed, TiersInOrder, TiersDisjoint, Sorting
  <2>2. Sorting'
    BY <1>1, <1>2, <1>3, <2>1 DEF Sorting
  <2>3. QED
    BY <1>1, <1>2, <1>3, <2>2 DEF Receiving
<1>4. CASE next # {}
  <2>1. next \in SUBSET Answered /\ result \in Seq(SUBSET Answered) /\ Listed = Visited
    BY <1>1 DEF Sorting
  <2>2. /\ result' \in Seq(SUBSET Answered) /\ Len(result') = Len(result) + 1 /\ Len(result) \in Nat
        /\ \A i \in 1..Len(result) : result'[i] = result[i]
        /\ result'[Len(result) + 1] = next
    BY <1>1, <1>4, <2>1, AppendProperties, LenProperties
  <2>3. \A i \in 1..Len(result') : i \in 1..Len(result) \/ i = Len(result) + 1
    BY <2>2
  <2>4. Listed' = Listed \cup next
    BY <2>2, <2>3 DEF Listed
  <2>5. TiersDisjoint'
    <3>1. \A i \in 1..Len(result) : result[i] \cap next = {}
      BY <1>1 DEF Sorting, Listed
    <3>2. QED
      BY <1>1, <2>2, <2>3, <3>1 DEF Sorting, TiersDisjoint
  <2>6. TiersInOrder'
    <3>1. ASSUME NEW d \in next, NEW m \in Before(d)
          PROVE  \E i \in 1..Len(result') : i < Len(result) + 1 /\ m \in result'[i]
      <4>1. m \in Listed
        BY <1>1, <2>1 DEF Sorting
      <4>2. PICK i \in 1..Len(result) : m \in result[i]
        BY <4>1 DEF Listed
      <4>3. QED
        BY <2>2, <4>2
    <3>2. ASSUME NEW j \in 1..Len(result), NEW d \in result[j] \ {search.root}, NEW m \in Before(d)
          PROVE  \E i \in 1..Len(result') : i < j /\ m \in result'[i]
      BY <1>1, <2>2 DEF Sorting, TiersInOrder
    <3>3. QED
      BY <1>1, <1>2, <2>2, <2>3, <3>1, <3>2 DEF TiersInOrder
  <2>7. Sorting'
    BY <1>1, <1>2, <1>4, <2>1, <2>2, <2>4, <2>5, <2>6 DEF Sorting, Visited
  <2>8. QED
    BY <1>1, <1>2, <1>4, <2>7 DEF Receiving
<1>5. QED
  BY <1>3, <1>4

\* Every step of the command keeps the invariant.
LEMMA CommandKeeps == IInv /\ [Next]_vars => IInv'
<1> SUFFICES ASSUME IInv, [Next]_vars PROVE IInv'
  OBVIOUS
<1>1. CASE StartSort \/ EndTier \/ \E m \in Modules : Receive(m) \/ Visit(m)
  BY <1>1, StartSortKeeps, EndTierKeeps, ReceiveKeeps, VisitKeeps
<1>2. CASE ReceiveFails \/ UNCHANGED vars
  <2>1. UNCHANGED <<search, pending, counter, edges, modules, next, result>>
    BY <1>2 DEF ReceiveFails, vars
  <2>2. pc' = pc \/ (pc = "recv" /\ pc' = "failed")
    BY <1>2 DEF ReceiveFails, vars
  <2>3. /\ Answered' = Answered /\ \A n : Lists(n)' = Lists(n) /\ \A d : Before(d)' = Before(d)
        /\ Visited' = Visited /\ Listed' = Listed
    BY <2>1 DEF Answered, Lists, Before, Visited, Listed
  <2>4. Receiving' /\ Sorting'
    <3>1. Receiving'
      BY <2>1, <2>2, <2>3 DEF IInv, Receiving
    <3>2. TiersInOrder' = TiersInOrder /\ TiersDisjoint' = TiersDisjoint
      BY <2>1, <2>3 DEF TiersInOrder, TiersDisjoint
    <3>3. Sorting'
      BY <2>1, <2>2, <2>3, <3>2 DEF IInv, Sorting
    <3>4. QED
      BY <3>1, <3>3
  <2>5. QED
    BY <2>1, <2>2, <2>3, <2>4 DEF IInv
<1>3. QED
  BY <1>1, <1>2 DEF Next

-----------------------------------------------------------------------------

\* A module is in one tier, and what leads to it in an earlier one.
LEMMA SortedHolds == IInv => TierSorted
<1> SUFFICES ASSUME IInv, NEW i \in 1..Len(result), NEW j \in 1..Len(result)
             PROVE  /\ i # j => result[i] \cap result[j] = {}
                    /\ \A m \in result[i], d \in result[j] :
                         (d \in Lists(m) /\ d # search.root) => i < j
  BY DEF TierSorted
<1>1. CASE result = <<>>
  BY <1>1
<1>2. CASE result # <<>>
  <2>1. TiersInOrder /\ TiersDisjoint /\ result \in Seq(SUBSET Answered)
    BY <1>2 DEF IInv, Receiving, Sorting
  <2>2. ASSUME NEW m \in result[i], NEW d \in result[j], d \in Lists(m), d # search.root
        PROVE  i < j
    <3>1. m \in Before(d)
      BY <2>1, <2>2, ElementOfSeq DEF Before
    <3>2. PICK k \in 1..Len(result) : k < j /\ m \in result[k]
      BY <2>1, <2>2, <3>1 DEF TiersInOrder
    <3>3. k = i
      BY <2>1, <2>2, <3>2 DEF TiersDisjoint
    <3>4. QED
      BY <3>2, <3>3
  <2>3. QED
    BY <2>1, <2>2 DEF TiersDisjoint
<1>3. QED
  BY <1>1, <1>2

\* At the end a module without a tier still has a predecessor that was not visited.
LEMMA OmittedHolds == IInv => OmittedOnlyBehindCycles
<1> SUFFICES ASSUME IInv, pc = "done", NEW d \in Answered \ Listed
             PROVE  \E m \in Answered \ Listed : d \in Lists(m)
  BY DEF OmittedOnlyBehindCycles, Answered
<1>1. d \in DOMAIN counter /\ Listed = Visited
  BY DEF IInv, Sorting
<1>2. PICK m : m \in Before(d) \ Visited
  BY <1>1 DEF IInv, Sorting
<1>3. QED
  BY <1>1, <1>2 DEF Before

\* For every search, whatever order the responses and the modules of a tier come in,
\* what the command prints is in topological order and omits nothing without cause.
THEOREM TopologyCorrect == Spec => [](TierSorted /\ OmittedOnlyBehindCycles)
<1>1. IInv => TierSorted /\ OmittedOnlyBehindCycles
  BY SortedHolds, OmittedHolds
<1>2. QED
  BY <1>1, CommandStarts, CommandKeeps, PTL DEF Spec
=============================================================================
