-------------------------- MODULE MCServerRuntime --------------------------
(***************************************************************************)
(* Both programs, a call of each kind and one signal more than the two the *)
(* process distinguishes.                                                  *)
(***************************************************************************)
EXTENDS ServerRuntime
=============================================================================
