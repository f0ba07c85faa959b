------------------------------ MODULE Topology ------------------------------
(***************************************************************************)
(* The topology command of the deps CLI (deps/internal/cmds/get): it       *)
(* collects the responses of a breadth-first search into a graph and then  *)
(* peels tiers off it, starting from the root, counting for each module    *)
(* the predecessors that are not in an earlier tier.                       *)
(***************************************************************************)
EXTENDS Naturals, Sequences

CONSTANTS Modules,       \* the modules of the graph
          Searches       \* the searches: the root and what each response lists

VARIABLES search,        \* the search the command runs
          pc,            \* "recv", "sort", "done" or "failed"
          pending,       \* the responses the search has yet to deliver
          counter,       \* predecessors that still hold back a module
          edges,         \* what the responses received so far list
          modules,       \* modules of the current tier not yet visited
          next,          \* modules of the tier being built
          result         \* the tiers, the root's first

vars == <<search, pc, pending, counter, edges, modules, next, result>>

\* A search answers for a set of modules that holds the root and, with a module,
\* all that its response lists (Search!BreadthFirstComplete); every module is reachable from
\* the root (Search!DiscoveryOrder) and no module lists itself.
WellFormed(s) ==
  LET answered == DOMAIN s.lists
  IN /\ s.root \in answered
     /\ answered \subseteq Modules
     /\ \A m \in answered : s.lists[m] \subseteq answered \ {m}
     /\ \A S \in SUBSET answered :
          (s.root \in S /\ \A m \in S : s.lists[m] \subseteq S) => S = answered

Init ==
  /\ search \in Searches /\ WellFormed(search)
  /\ pc = "recv"
  /\ pending = DOMAIN search.lists
  /\ counter = [m \in {} |-> {}]
  /\ edges = [m \in {} |-> {}]
  /\ modules = {} /\ next = {} /\ result = <<>>

\* The function f with a at the places in S, and at those only if it had none.
Extended(f, S, a) == [m \in DOMAIN f \cup S |-> IF m \in S THEN a ELSE f[m]]
Known(f, S) == [m \in DOMAIN f \cup S |-> IF m \in DOMAIN f THEN f[m] ELSE {}]
Removed(f, S) == [m \in DOMAIN f \ S |-> f[m]]

\* A response: its module and the modules it lists are known from now on, and the
\* module holds back each of those.
Receive(m) ==
  LET listed == search.lists[m]
      known == Known(counter, {m} \cup listed)
  IN /\ pc = "recv" /\ m \in pending
     /\ pending' = pending \ {m}
     /\ counter' = [d \in DOMAIN known |-> IF d \in listed THEN known[d] \cup {m} ELSE known[d]]
     /\ edges' = Extended(edges, {m}, listed)
     /\ UNCHANGED <<search, pc, modules, next, result>>

\* The stream breaks: the command prints nothing.
ReceiveFails ==
  /\ pc = "recv"
  /\ pc' = "failed"
  /\ UNCHANGED <<search, pending, counter, edges, modules, next, result>>

\* The end of the stream: the root is the first tier, whatever holds it back.
StartSort ==
  /\ pc = "recv" /\ pending = {}
  /\ pc' = "sort"
  /\ modules' = {search.root}
  /\ result' = <<{search.root}>>
  /\ counter' = Removed(counter, {search.root})
  /\ UNCHANGED <<search, pending, edges, next>>

\* Mutants: the visit of one predecessor is enough, or never does anything.
ReleasedByOne(m) ==
  [d \in DOMAIN counter |-> IF d \in edges[m] THEN {} ELSE counter[d]]
ReleasedNever(m) == counter

\* The counter after the visit of m: m no longer holds anything back.
Released(m) ==
  [d \in DOMAIN counter |-> IF d \in edges[m] THEN counter[d] \ {m} ELSE counter[d]]

\* The modules m leads to that nothing holds back any more; one that is no longer
\* counted is skipped (the code's "cycle in the graph").
Freed(m) == {d \in edges[m] \cap DOMAIN counter : Released(m)[d] = {}}

\* One iteration of the loop over a tier.
Visit(m) ==
  /\ pc = "sort" /\ m \in modules
  /\ modules' = modules \ {m}
  /\ next' = next \cup Freed(m)
  /\ counter' = Removed(Released(m), Freed(m))
  /\ edges' = Removed(edges, {m})
  /\ UNCHANGED <<search, pc, pending, result>>

\* A mutant: an empty tier does not end the loop.
EndTierAgain ==
  /\ pc = "sort" /\ modules = {}
  /\ modules' = next /\ next' = {} /\ result' = Append(result, next)
  /\ next # {}
  /\ UNCHANGED <<search, pc, pending, counter, edges>>

\* The end of a tier; the loop is over when the tier built is empty.
EndTier ==
  /\ pc = "sort" /\ modules = {}
  /\ modules' = next
  /\ next' = {}
  /\ result' = IF next = {} THEN result ELSE Append(result, next)
  /\ pc' = IF next = {} THEN "done" ELSE "sort"
  /\ UNCHANGED <<search, pending, counter, edges>>

Next == \/ \E m \in Modules : Receive(m) \/ Visit(m)
        \/ ReceiveFails \/ StartSort \/ EndTier

\* The command runs until it is done; whether the stream breaks is not its choice.
Fairness == WF_vars((\E m \in Modules : Receive(m) \/ Visit(m)) \/ StartSort \/ EndTier)

Spec == Init /\ [][Next]_vars

FairSpec == Spec /\ Fairness

-----------------------------------------------------------------------------
(* Properties.                                                             *)

Lists(m) == search.lists[m]

Listed == UNION {result[i] : i \in 1..Len(result)}

\* A module is in one tier only, and in a later tier than everything that leads to
\* it, edges back to the root excepted: what is printed is a topological order.
TierSorted ==
  \A i, j \in 1..Len(result) :
    /\ i # j => result[i] \cap result[j] = {}
    /\ \A m \in result[i], d \in result[j] : (d \in Lists(m) /\ d # search.root) => i < j

\* A module is left out only if a module that leads to it is left out as well: on
\* a graph whose cycles all go through the root, the command prints every module.
OmittedOnlyBehindCycles ==
  pc = "done" =>
    \A d \in DOMAIN search.lists \ Listed :
      \E m \in DOMAIN search.lists \ Listed : d \in Lists(m)

\* The command prints every module of the search.
EveryModuleListed == pc = "done" => Listed = DOMAIN search.lists

\* The sort comes to an end, on cyclic graphs too.
SortEnds == pc = "sort" ~> pc = "done"
=============================================================================
