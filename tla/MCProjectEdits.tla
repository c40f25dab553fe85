---------------------------- MODULE MCProjectEdits ----------------------------
(***************************************************************************)
(* Two projects with two signals and two sensors each, of which the files  *)
(* map one pair, and a file that maps a sensor twice.                      *)
(***************************************************************************)
EXTENDS ProjectEdits, TLC

CONSTANTS p, q, broken, s1, s2, s3, s4, s5, s6, v1, v2, v3, v4, v5

MCSignalsOf == (p :> {s1, s2}) @@ (q :> {s3, s4}) @@ (broken :> {s5, s6})
MCSensorsOf == (p :> {v1, v2}) @@ (q :> {v3, v4}) @@ (broken :> {v5})
MCMappingOf == (p :> {<<s1, v1>>}) @@ (q :> {<<s3, v3>>})
               @@ (broken :> {<<s5, v5>>, <<s6, v5>>})
==============================================================================
