------------------------------ MODULE MCEchoMap ------------------------------
(***************************************************************************)
(* EchoMap with three project files: one without sound files, one with one *)
(* and one with two.                                                       *)
(***************************************************************************)
EXTENDS EchoMap, TLC

CONSTANTS p0, p1, p2, a, b

MCSourcesOf == (p0 :> {}) @@ (p1 :> {a}) @@ (p2 :> {a, b})
==============================================================================
