------------------------------ MODULE MCSearch ------------------------------
(***************************************************************************)
(* Four modules and graphs in which tiers, diamonds, short cuts and cycles *)
(* meet; the client may start from any module, so that each graph is seen  *)
(* from several roots.                                                     *)
(***************************************************************************)
EXTENDS Search

CONSTANTS a, b, c, d

\* A diamond with a way back, a chain with a short cut, two ways of different
\* length to one module, and a root with three neighbours.
MCGraphs ==
  {{<<a, b>>, <<a, c>>, <<b, d>>, <<c, d>>, <<d, a>>},
   {<<a, b>>, <<b, c>>, <<c, d>>, <<a, d>>},
   {<<a, b>>, <<a, c>>, <<c, d>>, <<d, b>>},
   {<<a, b>>, <<a, c>>, <<a, d>>, <<d, a>>, <<b, c>>}}
=============================================================================
