------------------------------- MODULE Signal -------------------------------
(***************************************************************************)
(* src/objects/Signal.cpp: the samples of one audio channel and the times  *)
(* they belong to.                                                         *)
(*                                                                         *)
(* A uniform signal has a baseline only: the time of its first sample and  *)
(* the distance of two samples.  As soon as one sample is given a time     *)
(* other than the baseline's, the signal also keeps the distance of every  *)
(* sample from the baseline.                                               *)
(*                                                                         *)
(* Times are floats of 32 bits in the code.  Here they are integers, exact *)
(* up to a size and rounded to multiples of a step beyond it, as the sums  *)
(* and products of a baseline are: far from zero, samples may have equal   *)
(* times.  The distance of a time from the baseline and the sum of the two *)
(* are taken to be exact, as they are in a signal without a baseline, such *)
(* as a downsampled one; for other signals they are off by a step at most. *)
(*                                                                         *)
(* A sample is identified by whatever its owner chooses, its amplitude is  *)
(* not modelled.  Indices begin at 0, as in the code.                      *)
(***************************************************************************)
EXTENDS Integers, Sequences

CONSTANTS Epsilon,   \* the tolerance of emplace_time, a microsecond
          Exact,     \* times as far from zero as this are exact,
          Spacing    \* and beyond it they are multiples of this

ASSUME FloatAssumption == Exact \in Nat /\ Epsilon \in 0..Exact /\ Spacing \in Nat \ {0}

\* The time nearest to a number.
Round(x) == IF x \in -Exact..Exact THEN x ELSE Spacing * ((x + Spacing \div 2) \div Spacing)

Near(t, u) == t - u \in -Epsilon..Epsilon

\* Later by more than the tolerance.
After(t, u) == t > Round(u + Epsilon)

\* time_offsets is empty as long as the optional vector does not exist.
NewSignal == [samples |-> <<>>, time_offset |-> 0, sample_rate_r |-> 0, time_offsets |-> <<>>]

SignalsOf(Samples) == [samples : Seq(Samples), time_offset : Int, sample_rate_r : Nat,
                       time_offsets : Seq(Int)]

get_sample_count(s) == Len(s.samples)
Indices(s) == 0..(get_sample_count(s) - 1)

is_uniformly_sampled(s) == s.time_offsets = <<>>

BaselineTime(s, index) == Round(s.time_offset + Round(index * s.sample_rate_r))

get_time_at_index(s, index) ==
    IF is_uniformly_sampled(s)
    THEN BaselineTime(s, index)
    ELSE BaselineTime(s, index) + s.time_offsets[index + 1]

------------------------------------------------------------------------------
(* emplace_sample with an amplitude alone *)

\* Mutant: the vector of offsets is left alone.
EmplaceAmplitude_Unpaired(s, sample) == [s EXCEPT !.samples = Append(@, sample)]

EmplaceAmplitude(s, sample) ==
    [s EXCEPT !.samples = Append(@, sample),
              !.time_offsets = IF is_uniformly_sampled(s) THEN @ ELSE Append(@, 0)]

------------------------------------------------------------------------------
(* emplace_sample with a time: emplace_time *)

IsExpected(s, time) == Near(time, BaselineTime(s, get_sample_count(s)))

\* Case 1.  An expected time is not compared with the one before.
RejectsTime(s, time) ==
    /\ ~IsExpected(s, time)
    /\ get_sample_count(s) >= 1
    /\ ~After(time, get_time_at_index(s, get_sample_count(s) - 1))

\* The exception of a rejected time leaves the amplitude behind that came before it.
EmplaceUntimed(s, sample) == [s EXCEPT !.samples = Append(@, sample)]

\* Cases 2 and 3, for a time that is not rejected.
EmplaceTimed(s, time, sample) ==
    LET offset == time - BaselineTime(s, get_sample_count(s))
        known == IF is_uniformly_sampled(s)
                 THEN [i \in 1..get_sample_count(s) |-> 0]
                 ELSE s.time_offsets
    IN  IF IsExpected(s, time)
        THEN EmplaceAmplitude(s, sample)
        ELSE [s EXCEPT !.samples = Append(@, sample),
                       !.time_offsets = Append(known, offset)]

------------------------------------------------------------------------------
\* "Timestamp elements are in bijective correspondence with the amplitude
\* samples" (Signal.hpp:279).
Paired(s) == is_uniformly_sampled(s) \/ Len(s.time_offsets) = get_sample_count(s)

TimesIncrease(s) ==
    \A i, j \in Indices(s) : i < j => After(get_time_at_index(s, j), get_time_at_index(s, i))
==============================================================================
