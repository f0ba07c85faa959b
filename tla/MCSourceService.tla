-------------------------- MODULE MCSourceService --------------------------
(***************************************************************************)
(* Two sources and two modules.  Both sources report dependencies of m1,   *)
(* one request names the other source in a file, one module depends on     *)
(* itself, and sources drop modules, drop dependencies and move on.        *)
(***************************************************************************)
EXTENDS SourceService, TLC

CONSTANTS s1, s2, m1, m2, r1, r2

HandlerSymmetry == Permutations(Handlers)

File(m, url, deps) == [module |-> m, sourceUrl |-> url, dependencies |-> deps]

Request(s, ref, files) == [source |-> s, ref |-> ref, managementFiles |-> files]

MCRequests ==
  {Request(s1, r1, {File(m1, NoKey, {m2})}),
   Request(s1, r2, {File(m1, s1, {m1}), File(m2, NoKey, {m1})}),
   Request(s1, r2, {}),
   Request(s2, r1, {File(m1, s1, {m2})}),
   Request(s2, r1, {File(m2, NoKey, {})})}

Row(data) == [data |-> data, deleted |-> FALSE]

Table(items) == [k \in items |-> Row(NoRef)]

\* A new database, and one an earlier release wrote: depends edges without a k3.
MCInitialTables ==
  {Table({}),
   Table({SourceItem(s1), ModuleItem(m1), ModuleItem(m2),
          ManagesItem(s1, m1), DependsItem(m1, m2, NoKey)})}

\* For the run with overlapping calls and transactions that fail in part: of the two
\* sources, one names the other in a file, which takes back the edge or a dependency of
\* its own.
MCPartialRequests ==
  {Request(s1, r1, {File(m1, NoKey, {m2})}),
   Request(s1, r1, {}),
   Request(s2, r1, {File(m1, s1, {m2})})}
=============================================================================
