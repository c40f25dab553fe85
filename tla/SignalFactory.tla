---------------------------- MODULE SignalFactory ----------------------------
(***************************************************************************)
(* src/objects/factories/SignalFactory.cpp: a factory builds one signal    *)
(* sample by sample and gives it away; a signal that was given away is     *)
(* downsampled by the Largest-Triangle Three-Buckets algorithm, one bucket *)
(* in a step, or saved with its samples (JSONSerialiser) and loaded again, *)
(* one sample in a step (JSONDeserialiser).                                *)
(*                                                                         *)
(* Which sample of a bucket spans the largest triangle is a matter of      *)
(* amplitudes: any sample of the bucket may be the one.  A sample is       *)
(* identified by its index in the signal that was built, which its copy in *)
(* the downsampled signal keeps.                                           *)
(***************************************************************************)
EXTENDS Signal, FiniteSets

CONSTANTS MaxSamples,   \* bound: the samples of a signal that is built
          Times,        \* the times that samples are given
          Baselines,    \* the baselines: a time offset and a distance of samples
          Factors       \* the factors by which signals are downsampled

ASSUME SamplesAssumption == MaxSamples \in Nat
ASSUME TimesAssumption == Times \subseteq Int /\ \A time \in Times : Round(time) = time
ASSUME BaselinesAssumption == Baselines \subseteq [time_offset : Int, sample_rate_r : Nat]
ASSUME FactorsAssumption == Factors \subseteq Nat \ {0}

VARIABLES target,       \* SignalFactory::target
          source,       \* the signal that take_signal returned
          downsampled,  \* the downsampled signal that is being built
          threshold,    \* how many samples it is to have
          dst,          \* dst_point_idx, the bucket that is next
          phase         \* what is done with these, or how it ended

vars == <<target, source, downsampled, threshold, dst, phase>>

size == get_sample_count(source)

TypeOK ==
    /\ target \in SignalsOf(Nat)
    /\ source \in SignalsOf(Nat)
    /\ downsampled \in SignalsOf(Nat)
    /\ threshold \in Nat
    /\ dst \in Nat
    /\ phase \in {"build", "abandoned", "taken", "buckets", "done", "rejected", "load",
                 "refused"}

Init ==
    /\ target = NewSignal
    /\ source = NewSignal
    /\ downsampled = NewSignal
    /\ threshold = 0
    /\ dst = 0
    /\ phase = "build"

------------------------------------------------------------------------------
(* Building *)

Building ==
    /\ phase = "build"
    /\ UNCHANGED <<source, downsampled, threshold, dst>>

\* set_time_offset and set_sample_rate: every caller sets the baseline first.
SetBaseline(baseline) ==
    /\ Building
    /\ target = NewSignal
    /\ target' = [NewSignal EXCEPT !.time_offset = baseline.time_offset,
                                   !.sample_rate_r = baseline.sample_rate_r]
    /\ UNCHANGED phase

emplace_sample ==
    /\ Building
    /\ get_sample_count(target) < MaxSamples
    /\ target' = EmplaceAmplitude(target, get_sample_count(target))
    /\ UNCHANGED phase

emplace_sample_at(time) ==
    /\ Building
    /\ get_sample_count(target) < MaxSamples
    /\ ~RejectsTime(target, time)
    /\ target' = EmplaceTimed(target, time, get_sample_count(target))
    /\ UNCHANGED phase

RejectSample(time) ==
    /\ Building
    /\ get_sample_count(target) < MaxSamples
    /\ RejectsTime(target, time)
    /\ target' = EmplaceUntimed(target, get_sample_count(target))
    /\ phase' = "abandoned"

\* Every caller lets the exception pass, which destroys the factory and its signal.
DiscardFactory ==
    /\ phase = "abandoned"
    /\ target' = NewSignal
    /\ phase' = "build"
    /\ UNCHANGED <<source, downsampled, threshold, dst>>

take_signal ==
    /\ phase = "build"
    /\ source' = target
    /\ target' = NewSignal
    /\ phase' = "taken"
    /\ UNCHANGED <<downsampled, threshold, dst>>

------------------------------------------------------------------------------
(* Downsampling *)

\* The number of samples that is asked for.
SampleCount(factor) == IF size \div factor < factor THEN factor ELSE size \div factor

\* Mutant: the quotient is rounded up, so that nothing is left over.
bucket_size_Up == (size - 2 + threshold - 3) \div (threshold - 2)

\* The quotient is rounded down, so samples may be left over.
bucket_size == (size - 2) \div (threshold - 2)

\* Mutant: the bucket begins at its last sample but one.
Bucket_Early(d) == (d * bucket_size)..(IF (d + 1) * bucket_size < size - 2
                                       THEN (d + 1) * bucket_size ELSE size - 2)

\* The samples of bucket d.
Bucket(d) == (d * bucket_size + 1)..(IF (d + 1) * bucket_size < size - 2
                                     THEN (d + 1) * bucket_size ELSE size - 2)

\* The samples that are averaged for bucket d, those of the bucket after it.
AverageRange(d) == ((d + 1) * bucket_size + 1)..(IF (d + 2) * bucket_size < size - 1
                                                 THEN (d + 2) * bucket_size ELSE size - 1)

TimeOf(index) == get_time_at_index(source, index)

\* Mutant: the amplitude is kept without its time.
Keep_WithoutTime(index, next) ==
    phase' = next /\ downsampled' = EmplaceAmplitude(downsampled, index)

\* Keep the sample of the source at an index, or fail.
Keep(index, next) ==
    IF RejectsTime(downsampled, TimeOf(index))
    THEN phase' = "rejected" /\ downsampled' = EmplaceUntimed(downsampled, index)
    ELSE phase' = next /\ downsampled' = EmplaceTimed(downsampled, TimeOf(index), index)

Downsampling(factor) ==
    /\ phase = "taken"
    /\ threshold' = SampleCount(factor)
    /\ UNCHANGED <<target, source, dst>>

\* No samples, or not enough of them: the signal is copied, or an empty one is made.
CopySignal(factor) ==
    /\ Downsampling(factor)
    /\ size <= SampleCount(factor)
    /\ downsampled' = IF size = 0 THEN NewSignal ELSE source
    /\ phase' = "done"

\* The first sample is kept, and the last is the only other one if two are asked for.
FirstPoint(factor) ==
    /\ Downsampling(factor)
    /\ size > SampleCount(factor)
    /\ Keep(0, IF SampleCount(factor) = 1 THEN "done" ELSE "buckets")

\* The loop over the buckets: the sample that spans the largest triangle, or the first one
\* when there is none.
KeepOfBucket ==
    /\ phase = "buckets"
    /\ dst < threshold - 2
    /\ \E index \in IF Bucket(dst) = {} THEN {dst * bucket_size + 1} ELSE Bucket(dst) :
           Keep(index, "buckets")
    /\ dst' = dst + 1
    /\ UNCHANGED <<target, source, threshold>>

LastPoint ==
    /\ phase = "buckets"
    /\ dst = threshold - 2
    /\ Keep(size - 1, "done")
    /\ UNCHANGED <<target, source, threshold, dst>>

\* The result or the exception is handed to the main thread, and another signal is built.
Finish ==
    /\ phase \in {"done", "rejected", "refused"}
    /\ source' = NewSignal
    /\ downsampled' = NewSignal
    /\ threshold' = 0
    /\ dst' = 0
    /\ phase' = "build"
    /\ target' = NewSignal

------------------------------------------------------------------------------
(* Saving and loading a signal whose samples are embedded in the project file *)

\* Mutant: the distance from the baseline in place of the time.
SavedTime_Offset(index) == source.time_offsets[index + 1]

\* timed_samples.
SavedTime(index) == get_time_at_index(source, index)

\* The baseline is saved, whether or not the times are; only a signal without samples and
\* with times would leave it out.  The file is read into a new factory.
SaveSignal ==
    /\ phase = "taken"
    /\ target' = [source EXCEPT !.samples = <<>>, !.time_offsets = <<>>]
    /\ phase' = "load"
    /\ UNCHANGED <<source, downsampled, threshold, dst>>

LoadingSample ==
    /\ phase = "load"
    /\ get_sample_count(target) < size
    /\ UNCHANGED <<source, downsampled, threshold, dst>>

\* "embeddedUniform": amplitudes alone.
LoadUniformSample ==
    /\ LoadingSample
    /\ is_uniformly_sampled(source)
    /\ target' = EmplaceAmplitude(target, get_sample_count(target))
    /\ UNCHANGED phase

\* "embeddedVariable": times and amplitudes.
LoadVariableSample ==
    LET index == get_sample_count(target)
    IN  /\ LoadingSample
        /\ ~is_uniformly_sampled(source)
        /\ IF RejectsTime(target, SavedTime(index))
           THEN phase' = "refused" /\ target' = EmplaceUntimed(target, index)
           ELSE target' = EmplaceTimed(target, SavedTime(index), index) /\ UNCHANGED phase

\* The number of samples is as reported.
FinishLoad ==
    /\ phase = "load"
    /\ get_sample_count(target) = size
    /\ target' = NewSignal
    /\ source' = NewSignal
    /\ phase' = "build"
    /\ UNCHANGED <<downsampled, threshold, dst>>

------------------------------------------------------------------------------

Build ==
    \/ \E baseline \in Baselines : SetBaseline(baseline)
    \/ emplace_sample
    \/ \E time \in Times : emplace_sample_at(time) \/ RejectSample(time)
    \/ DiscardFactory \/ take_signal

Downsample ==
    \/ \E factor \in Factors : CopySignal(factor) \/ FirstPoint(factor)
    \/ KeepOfBucket \/ LastPoint \/ Finish

Embed == SaveSignal \/ LoadUniformSample \/ LoadVariableSample \/ FinishLoad

Next == Build \/ Downsample \/ Embed

Spec == Init /\ [][Next]_vars

------------------------------------------------------------------------------
(* Properties *)

\* The times that a sample of the source may have in the downsampled signal.
TimesKept(index) == {TimeOf(index)} \cup (IF Near(TimeOf(index), 0) THEN {0} ELSE {})

\* Every signal has a time for each sample (Signal.hpp:279), but for the one whose last
\* sample was rejected, on its way to its destruction.
TimesArePaired ==
    /\ phase \notin {"abandoned", "refused"} => Paired(target)
    /\ Paired(source)
    /\ phase # "rejected" => Paired(downsampled)

\* What is kept are samples of the source in their order, each at its own time, although
\* the times are stored as distances from another baseline, which is zero: a time that is
\* as good as zero becomes zero.
PointsAreSamples ==
    phase \in {"buckets", "done"} =>
        /\ \A i \in Indices(downsampled) :
               /\ downsampled.samples[i + 1] \in Indices(source)
               /\ get_time_at_index(downsampled, i) \in TimesKept(downsampled.samples[i + 1])
        /\ \A i, j \in Indices(downsampled) :
               i < j => downsampled.samples[i + 1] < downsampled.samples[j + 1]

\* As many samples as were asked for (SignalFactory.hpp:152), if there are as
\* many, and the first and the last of the source among them.
AsManyAsAsked ==
    phase = "done" =>
        /\ get_sample_count(downsampled) = IF threshold < size THEN threshold ELSE size
        /\ threshold >= 2 /\ size >= 1 =>
               /\ downsampled.samples[1] = 0
               /\ downsampled.samples[get_sample_count(downsampled)] = size - 1

\* Downsampling fails only for a signal two of whose times, as the code computes them, are
\* out of order or within the tolerance of each other.  So are those of a long recording,
\* the samples of which lie closer together than floats do.
FailsOnlyOnDisorder == phase = "rejected" => ~TimesIncrease(source)

\* In every bucket there is a sample to choose and one to average, so nothing
\* is divided by zero and nothing is read beyond the end; each sample between
\* the first and the last is in one bucket, but for fewer than one for every
\* bucket at the end, which are in none.
BucketsAreSound ==
    phase = "buckets" /\ threshold > 2 =>
        /\ \A d \in 0..(threshold - 3) :
               /\ Bucket(d) # {} /\ Bucket(d) \subseteq 1..(size - 2)
               /\ AverageRange(d) # {} /\ AverageRange(d) \subseteq 1..(size - 1)
               /\ Cardinality(Bucket(d)) = bucket_size
               /\ \A e \in 0..(d - 1) : Bucket(d) \cap Bucket(e) = {}
        /\ (size - 2) - (threshold - 2) * bucket_size < threshold - 2

\* A signal that was saved can be loaded, with every sample at its time, also one with
\* times out of order that were accepted because the baseline expected them.
SavedSignalLoads ==
    /\ phase # "refused"
    /\ phase = "load" =>
           \A i \in Indices(target) :
               target.samples[i + 1] = i /\ get_time_at_index(target, i) = TimeOf(i)
==============================================================================
