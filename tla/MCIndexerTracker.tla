-------------------------- MODULE MCIndexerTracker --------------------------
(***************************************************************************)
(* Two workers.  With a tracker, a run on one repository and one on two,   *)
(* both of which declare the same module; without one, lists longer than   *)
(* the channel and the workers can hold, with and without a repository two *)
(* remotes return.                                                         *)
(***************************************************************************)
EXTENDS IndexerTracker, TLC

CONSTANTS u1, u2, u3, u4, m1, m2, r1, r0

MCFetches == {<<>>, <<u1>>, <<u1, u2>>, <<u1, u2, u1, u3>>, <<u1, u2, u3, u4, u1>>}

MCTrackedFetches == <<{<<u1, u2>>}, {<<u1>>}>>

File(m, deps) == [module |-> m, sourceUrl |-> NoKey, dependencies |-> deps]

Request(s, files) == [source |-> s, ref |-> r1, managementFiles |-> files]

MCRequests ==
  {Request(u1, {File(m1, {m2})}), Request(u2, {File(m1, {m2})}), Request(u1, {})}

Item(type, k1, k2, k3) == [type |-> type, k1 |-> k1, k2 |-> k2, k3 |-> k3]

Rows(items, ref) == [k \in items |-> [data |-> ref, deleted |-> FALSE]]

\* An earlier run has tracked the first repository, when it was different.
MCInitialTables ==
  {Rows({Item("source", u1, u1, NoKey), Item("depends", m2, m1, u1)}, r0)
   @@ Rows({Item("module", m1, m1, NoKey), Item("module", m2, m2, NoKey),
            Item("manages", u1, m2, NoKey)}, NoRef)}
=============================================================================
