------------------------- MODULE MCManifestStorage -------------------------
(***************************************************************************)
(* Two sources.  One drops and changes dependencies and modules while the  *)
(* Stores of the other, which may overlap, report the first one and a      *)
(* dependency of the same module.                                          *)
(***************************************************************************)
EXTENDS ManifestStorage, TLC

CONSTANTS s1, s2, m1, m2, m3, m4, r1, r2

HandlerSymmetry == Permutations(Handlers)

File(m, url, deps) == [module |-> m, sourceUrl |-> url, dependencies |-> deps]

Request(s, ref, files) == [url |-> s, ref |-> ref, manifestFiles |-> files]

\* s2 has three modules, the most that streams without a window hold, or one; a Store
\* that fails between its Put and its Delete leaves it four.
MCRequests ==
  {Request(s2, r1, {File(m1, NoUrl, {m2}), File(m2, NoUrl, {}), File(m3, NoUrl, {m1})}),
   Request(s2, r2, {File(m4, NoUrl, {m3})}),
   Request(s1, r1, {File(m1, s2, {m2})})}
=============================================================================
