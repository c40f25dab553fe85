--------------------------- MODULE MCSignalFactory ---------------------------
(***************************************************************************)
(* SignalFactory with two baselines: one without a sample rate, which is   *)
(* the one of a downsampled signal, too, and one that takes the last of    *)
(* seven samples so far from zero that neighbours have equal times.        *)
(***************************************************************************)
EXTENDS SignalFactory

MCTimes == -1..4

MCBaselines == {[time_offset |-> 0, sample_rate_r |-> 0], [time_offset |-> -1, sample_rate_r |-> 2]}
==============================================================================
