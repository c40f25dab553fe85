---------------------------- MODULE MCSignalPanels ----------------------------
(***************************************************************************)
(* Two projects, one with a long signal and one with a short signal.       *)
(***************************************************************************)
EXTENDS SignalPanels, TLC

CONSTANTS Hann, p, q, long, short

MCSignalsOf == (p :> {long}) @@ (q :> {short})
MCSizeLog == (long :> 1) @@ (short :> 0)
==============================================================================
