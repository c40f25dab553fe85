-------------------------- MODULE MCSignalDFTPanel --------------------------
(***************************************************************************)
(* Two projects: one with a long signal; one with a short signal and a     *)
(* long one that is sampled at irregular times, which makes the list of    *)
(* sizes grow beyond the short one.                                        *)
(***************************************************************************)
EXTENDS SignalDFTPanel, TLC

CONSTANTS Hann, p, q, long, short, irregular

MCSignalsOf == (p :> {long}) @@ (q :> {short, irregular})
MCSizeLog == (long :> 1) @@ (short :> 0) @@ (irregular :> 1)
==============================================================================
