-------------------------- MODULE MCGatewaySearch --------------------------
(***************************************************************************)
(* Four modules and graphs in which tiers, diamonds, short cuts and cycles *)
(* meet; a direct client may start from any module, so that each graph is  *)
(* seen from several roots.  A user of the gateway starts from one.        *)
(***************************************************************************)
EXTENDS GatewaySearch

CONSTANTS a, b, c, d

\* A diamond with a way back, two ways of different length to one module, and a
\* small one.
MCGraphs ==
  {{<<a, b>>, <<a, c>>, <<b, d>>, <<c, d>>, <<d, a>>},
   {<<a, b>>, <<a, c>>, <<c, d>>, <<d, b>>},
   {<<a, b>>, <<a, c>>, <<c, a>>}}

MCGatewayGraphs == {{<<a, b>>, <<a, c>>, <<c, a>>}}

MCUserMessages == {a, "cancel"}
=============================================================================
