-------------------------- MODULE SignalFactoryProofs --------------------------
(***************************************************************************)
(* SignalFactory for any number of samples, any times, baselines and       *)
(* factors: signals stay well formed, the buckets cover what they should,  *)
(* downsampling keeps samples of the source at their times and fails only  *)
(* when two of these are out of order or too close, and what was saved can *)
(* be loaded; for any tolerance and any rounding of the times.             *)
(***************************************************************************)
EXTENDS SignalFactory, FiniteSetTheorems, TLAPS

------------------------------------------------------------------------------
(* What the operations of a signal promise about its samples and their     *)
(* times; the promises never mention how the times are stored              *)

\* Nothing that was there before has changed, and one sample came after it.
Extends(t, s, sample, time) ==
    /\ get_sample_count(t) = get_sample_count(s) + 1
    /\ t.time_offset = s.time_offset
    /\ t.sample_rate_r = s.sample_rate_r
    /\ Paired(t)
    /\ \A i \in Indices(s) :
           /\ t.samples[i + 1] = s.samples[i + 1]
           /\ get_time_at_index(t, i) = get_time_at_index(s, i)
    /\ t.samples[get_sample_count(s) + 1] = sample
    /\ get_time_at_index(t, get_sample_count(s)) = time

\* A time that is as good as the expected one is replaced by it.
Recorded(s, time) ==
    IF IsExpected(s, time) THEN BaselineTime(s, get_sample_count(s)) ELSE time

\* A time that emplace_time lets pass, as it is recorded.
Accepted(s, time) ==
    \/ time = BaselineTime(s, get_sample_count(s))
    \/ ~IsExpected(s, time) /\ ~RejectsTime(s, time)

\* The order in which a signal accepts its samples: every time is that of the
\* baseline or one that is later than the time before it.
Steady(s) ==
    \A i \in Indices(s) :
        \/ get_time_at_index(s, i) = BaselineTime(s, i)
        \/ /\ ~Near(get_time_at_index(s, i), BaselineTime(s, i))
           /\ i # 0 => After(get_time_at_index(s, i), get_time_at_index(s, i - 1))

------------------------------------------------------------------------------

LEMMA ZeroIsInt == 0 \in Int
  OBVIOUS

LEMMA AppendFacts ==
    ASSUME NEW S, NEW q \in Seq(S), NEW x \in S
    PROVE  /\ Append(q, x) \in Seq(S)
           /\ Len(q) \in Nat
           /\ Len(Append(q, x)) = Len(q) + 1
           /\ Append(q, x) # <<>>
           /\ Append(q, x)[Len(q) + 1] = x
           /\ \A i \in 0..(Len(q) - 1) : Append(q, x)[i + 1] = q[i + 1]
<1>1. Append(q, x) \in Seq(S) /\ Len(q) \in Nat /\ Len(Append(q, x)) = Len(q) + 1
  OBVIOUS
<1>2. Append(q, x)[Len(q) + 1] = x
  OBVIOUS
<1>3. \A i \in 0..(Len(q) - 1) : Append(q, x)[i + 1] = q[i + 1]
  OBVIOUS
<1>4. Append(q, x) # <<>>
  BY <1>1
<1>5. QED
  BY <1>1, <1>2, <1>3, <1>4

LEMMA SignalParts ==
    ASSUME NEW Samples, NEW s \in SignalsOf(Samples)
    PROVE  /\ s.samples \in Seq(Samples)
           /\ s.time_offset \in Int
           /\ s.sample_rate_r \in Nat
           /\ s.time_offsets \in Seq(Int)
           /\ get_sample_count(s) \in Nat
           /\ s = [samples |-> s.samples, time_offset |-> s.time_offset,
                   sample_rate_r |-> s.sample_rate_r, time_offsets |-> s.time_offsets]
  BY DEF SignalsOf, get_sample_count

\* A rounded time is a time, and zero is exact.
LEMMA RoundType ==
    ASSUME NEW x \in Int
    PROVE  Round(x) \in Int /\ Round(0) = 0
<1>1. Exact \in Nat /\ Spacing \in Nat \ {0}
  BY FloatAssumption
<1>2. (Spacing \div 2) \in Int
  BY <1>1
<1> DEFINE y == x + Spacing \div 2
<1>3. y \in Int
  BY <1>2
<1> HIDE DEF y
<1>4. (y \div Spacing) \in Int
  BY <1>1, <1>3
<1> DEFINE k == y \div Spacing
<1> HIDE DEF k
<1>5. Spacing * k \in Int
  BY <1>1, <1>4 DEF k
<1>6. Round(x) = x \/ Round(x) = Spacing * k
  BY DEF Round, k, y
<1>7. Round(0) = 0
  BY <1>1 DEF Round
<1>8. QED
  BY <1>5, <1>6, <1>7

LEMMA BaselineTimeType ==
    ASSUME NEW Samples, NEW s \in SignalsOf(Samples), NEW i \in Int
    PROVE  BaselineTime(s, i) \in Int
<1>1. s.time_offset \in Int /\ s.sample_rate_r \in Int
  BY SignalParts
<1> DEFINE x == i * s.sample_rate_r
           y == s.time_offset + Round(x)
<1>2. x \in Int
  BY <1>1
<1> HIDE DEF x
<1>3. y \in Int
  BY <1>1, <1>2, RoundType
<1>4. BaselineTime(s, i) = Round(y)
  BY DEF BaselineTime, x
<1> HIDE DEF y
<1>5. QED
  BY <1>3, <1>4, RoundType

\* The baseline of a new signal is zero everywhere.
ZeroBaseline(s) == s.time_offset = 0 /\ s.sample_rate_r = 0

LEMMA ZeroBaselineTime ==
    ASSUME NEW s, ZeroBaseline(s), NEW i \in Int
    PROVE  BaselineTime(s, i) = 0
<1>1. BaselineTime(s, i) = Round(0 + Round(i * 0))
  BY DEF BaselineTime, ZeroBaseline
<1>2. i * 0 = 0 /\ 0 + 0 = 0 /\ 0 \in Int
  OBVIOUS
<1>3. Round(0) = 0
  BY <1>2, RoundType
<1>4. QED
  BY <1>1, <1>2, <1>3

\* What is not negative is not rounded to something negative.
LEMMA RoundOfNat ==
    ASSUME NEW x \in Nat
    PROVE  Round(x) >= 0
<1>1. Exact \in Nat /\ Spacing \in Nat \ {0}
  BY FloatAssumption
<1> DEFINE y == x + Spacing \div 2
           k == y \div Spacing
<1>2. y \in Nat
  BY <1>1
<1> HIDE DEF y
<1>3. k \in Nat
  BY <1>1, <1>2
<1> HIDE DEF k
<1>4. Spacing * k \in Nat
  BY <1>1, <1>3
<1>5. Round(x) = x \/ Round(x) = Spacing * k
  BY DEF Round, k, y
<1>6. QED
  BY <1>4, <1>5

\* What is near, or is not.
LEMMA NearFacts ==
    ASSUME NEW t \in Int, NEW u \in Int
    PROVE  /\ Near(t, u) <=> t <= u + Epsilon /\ u <= t + Epsilon
           /\ Near(t, t)
           /\ Epsilon \in Nat
  BY FloatAssumption DEF Near

LEMMA TimeType ==
    ASSUME NEW Samples, NEW s \in SignalsOf(Samples), Paired(s), NEW i \in Indices(s)
    PROVE  get_time_at_index(s, i) \in Int
<1>1. BaselineTime(s, i) \in Int /\ i \in 0..(get_sample_count(s) - 1)
  BY SignalParts, BaselineTimeType DEF Indices
<1>2. CASE is_uniformly_sampled(s)
  BY <1>1, <1>2 DEF get_time_at_index
<1>3. CASE ~is_uniformly_sampled(s)
  <2>1. i + 1 \in 1..Len(s.time_offsets)
    BY <1>1, <1>3, SignalParts DEF Paired, get_sample_count
  <2>2. s.time_offsets[i + 1] \in Int
    BY <2>1, SignalParts
  <2>3. QED
    BY <1>1, <1>3, <2>2 DEF get_time_at_index
<1>4. QED
  BY <1>2, <1>3

\* The new signal is empty and has nothing to disagree about.
LEMMA NewSignalFacts ==
    ASSUME NEW Samples
    PROVE  /\ NewSignal \in SignalsOf(Samples)
           /\ Paired(NewSignal)
           /\ get_sample_count(NewSignal) = 0
           /\ Indices(NewSignal) = {}
  BY DEF NewSignal, SignalsOf, Paired, is_uniformly_sampled, get_sample_count, Indices

\* The baseline of a signal is all that BaselineTime looks at.
LEMMA SameBaseline ==
    ASSUME NEW s, NEW t, s.time_offset = t.time_offset, s.sample_rate_r = t.sample_rate_r,
           NEW i
    PROVE  BaselineTime(s, i) = BaselineTime(t, i)
  BY DEF BaselineTime

\* emplace_sample with an amplitude: the sample is at the time of the baseline,
\* whether or not the signal keeps times.
LEMMA EmplaceAmplitudeExtends ==
    ASSUME NEW Samples, NEW s \in SignalsOf(Samples), Paired(s), NEW sample \in Samples,
           NEW t, t = EmplaceAmplitude(s, sample)
    PROVE  /\ t \in SignalsOf(Samples)
           /\ Extends(t, s, sample, BaselineTime(s, get_sample_count(s)))
<1> DEFINE n == get_sample_count(s)
           offsets == IF is_uniformly_sampled(s) THEN s.time_offsets
                                                 ELSE Append(s.time_offsets, 0)
<1>0. /\ Append(s.samples, sample) \in Seq(Samples)
      /\ offsets \in Seq(Int)
      /\ t = [s EXCEPT !.samples = Append(s.samples, sample), !.time_offsets = offsets]
  <2>1. 0 \in Int
    OBVIOUS
  <2>2. Append(s.samples, sample) \in Seq(Samples) /\ Append(s.time_offsets, 0) \in Seq(Int)
    BY <2>1, SignalParts, AppendFacts
  <2>3. QED
    BY <2>2, SignalParts DEF EmplaceAmplitude
<1>1. /\ t.samples = Append(s.samples, sample)
      /\ t.time_offset = s.time_offset
      /\ t.sample_rate_r = s.sample_rate_r
      /\ t.time_offsets = offsets
      /\ t \in SignalsOf(Samples)
  <2> DEFINE samples == Append(s.samples, sample)
  <2> HIDE DEF samples, offsets
  <2>1. /\ samples \in Seq(Samples) /\ offsets \in Seq(Int)
        /\ t = [s EXCEPT !.samples = samples, !.time_offsets = offsets]
    BY <1>0 DEF samples
  <2>2. /\ t.samples = samples /\ t.time_offsets = offsets
        /\ t.time_offset = s.time_offset /\ t.sample_rate_r = s.sample_rate_r
        /\ t \in SignalsOf(Samples)
    BY <2>1 DEF SignalsOf
  <2>3. QED
    BY <2>2 DEF samples
<1>2. n \in Nat /\ Len(s.samples) = n /\ get_sample_count(t) = n + 1
  BY <1>1, SignalParts, AppendFacts DEF get_sample_count
<1>3. \A i \in Indices(s) : t.samples[i + 1] = s.samples[i + 1]
  BY <1>1, <1>2, SignalParts, AppendFacts DEF Indices
<1>4. t.samples[n + 1] = sample
  BY <1>1, <1>2, SignalParts, AppendFacts
<1>5. \A i \in Int : BaselineTime(t, i) = BaselineTime(s, i) /\ BaselineTime(s, i) \in Int
  BY <1>1, SameBaseline, BaselineTimeType
<1>6. CASE is_uniformly_sampled(s)
  <2>1. is_uniformly_sampled(t)
    BY <1>1, <1>6 DEF is_uniformly_sampled
  <2>2. \A i \in Int : get_time_at_index(t, i) = BaselineTime(s, i)
    BY <1>5, <2>1 DEF get_time_at_index
  <2>3. \A i \in Indices(s) : get_time_at_index(s, i) = BaselineTime(s, i) /\ i \in Int
    BY <1>2, <1>6 DEF get_time_at_index, Indices
  <2>4. \A i \in Indices(s) : get_time_at_index(t, i) = get_time_at_index(s, i)
    BY <2>2, <2>3
  <2>5. get_time_at_index(t, n) = BaselineTime(s, n)
    BY <1>2, <2>2
  <2>6. QED
    BY <1>1, <1>2, <1>3, <1>4, <2>1, <2>4, <2>5 DEF Extends, Paired
<1>7. CASE ~is_uniformly_sampled(s)
  <2>1. /\ Len(s.time_offsets) = n
        /\ t.time_offsets = Append(s.time_offsets, 0)
        /\ s.time_offsets \in Seq(Int)
    BY <1>1, <1>2, <1>7, SignalParts DEF Paired
  <2>2. Len(t.time_offsets) = n + 1 /\ t.time_offsets # <<>>
    BY <1>2, <2>1, ZeroIsInt, AppendFacts
  <2>3. \A i \in 0..(n - 1) : t.time_offsets[i + 1] = s.time_offsets[i + 1]
    BY <1>2, <2>1, ZeroIsInt, AppendFacts
  <2>4. t.time_offsets[n + 1] = 0
    BY <1>2, <2>1, ZeroIsInt, AppendFacts
  <2>5. \A i \in Indices(s) : get_time_at_index(t, i) = get_time_at_index(s, i)
    <3> SUFFICES ASSUME NEW i \in 0..(n - 1)
                 PROVE  get_time_at_index(t, i) = get_time_at_index(s, i)
      BY DEF Indices
    <3>1. BaselineTime(t, i) = BaselineTime(s, i) /\ t.time_offsets[i + 1] = s.time_offsets[i + 1]
      BY <1>2, <1>5, <2>3
    <3>2. QED
      BY <1>7, <2>2, <3>1 DEF get_time_at_index, is_uniformly_sampled
  <2>6. get_time_at_index(t, n) = BaselineTime(s, n)
    BY <1>2, <1>5, <2>2, <2>4 DEF get_time_at_index, is_uniformly_sampled
  <2>7. QED
    BY <1>1, <1>2, <1>3, <1>4, <2>2, <2>5, <2>6 DEF Extends, Paired
<1>8. QED
  BY <1>6, <1>7

\* emplace_sample with a time: the sample is at that time or at the expected one,
\* and the offsets that are made up for the samples before it leave these at their times.
LEMMA EmplaceTimedExtends ==
    ASSUME NEW Samples, NEW s \in SignalsOf(Samples), Paired(s), NEW sample \in Samples,
           NEW time \in Int, NEW t, t = EmplaceTimed(s, time, sample)
    PROVE  /\ t \in SignalsOf(Samples)
           /\ Extends(t, s, sample, Recorded(s, time))
           /\ Recorded(s, time) \in Int
<1> DEFINE n == get_sample_count(s)
           offset == time - BaselineTime(s, n)
           known == IF is_uniformly_sampled(s) THEN [i \in 1..n |-> 0] ELSE s.time_offsets
<1>1. n \in Nat /\ Len(s.samples) = n /\ BaselineTime(s, n) \in Int
  BY SignalParts, BaselineTimeType DEF get_sample_count
<1>2. CASE IsExpected(s, time)
  <2>1. t = EmplaceAmplitude(s, sample)
    BY <1>2 DEF EmplaceTimed
  <2>2. Recorded(s, time) = BaselineTime(s, n)
    BY <1>2 DEF Recorded
  <2>3. QED
    BY <1>1, <2>1, <2>2, EmplaceAmplitudeExtends
<1>3. CASE ~IsExpected(s, time)
  <2>1. t = [s EXCEPT !.samples = Append(@, sample), !.time_offsets = Append(known, offset)]
    BY <1>3 DEF EmplaceTimed
  <2>2. known \in Seq(Int) /\ Len(known) = n
    <3>1. CASE is_uniformly_sampled(s)
      <4>1. [i \in 1..n |-> 0] \in Seq(Int) /\ Len([i \in 1..n |-> 0]) = n
        BY <1>1
      <4>2. QED
        BY <3>1, <4>1
    <3>2. CASE ~is_uniformly_sampled(s)
      BY <3>2, SignalParts DEF Paired
    <3>3. QED
      BY <3>1, <3>2
  <2>3. offset \in Int
    BY <1>1
  <2> HIDE DEF known, offset
  <2>4. /\ t.samples = Append(s.samples, sample)
        /\ t.time_offset = s.time_offset
        /\ t.sample_rate_r = s.sample_rate_r
        /\ t.time_offsets = Append(known, offset)
        /\ t \in SignalsOf(Samples)
    <3>1. /\ Append(s.samples, sample) \in Seq(Samples)
          /\ Append(known, offset) \in Seq(Int)
      BY <2>2, <2>3, SignalParts, AppendFacts
    <3>2. t = [s EXCEPT !.samples = Append(s.samples, sample),
                        !.time_offsets = Append(known, offset)]
      BY <2>1
    <3> DEFINE samples == Append(s.samples, sample)
               offsets == Append(known, offset)
    <3> HIDE DEF samples, offsets
    <3>3. /\ samples \in Seq(Samples) /\ offsets \in Seq(Int)
          /\ t = [s EXCEPT !.samples = samples, !.time_offsets = offsets]
      BY <3>1, <3>2 DEF samples, offsets
    <3>4. /\ t.samples = samples /\ t.time_offsets = offsets
          /\ t.time_offset = s.time_offset /\ t.sample_rate_r = s.sample_rate_r
          /\ t \in SignalsOf(Samples)
      BY <3>3 DEF SignalsOf
    <3>5. QED
      BY <3>4 DEF samples, offsets
  <2>5. get_sample_count(t) = n + 1
    BY <1>1, <2>4, SignalParts, AppendFacts DEF get_sample_count
  <2>6. \A i \in Indices(s) : t.samples[i + 1] = s.samples[i + 1]
    <3> SUFFICES ASSUME NEW i \in 0..(n - 1) PROVE t.samples[i + 1] = s.samples[i + 1]
      BY DEF Indices
    <3>1. s.samples \in Seq(Samples)
      BY SignalParts
    <3>2. \A j \in 0..(n - 1) : Append(s.samples, sample)[j + 1] = s.samples[j + 1]
      BY ONLY <1>1, <3>1, sample \in Samples, AppendFacts
    <3>3. QED
      BY <2>4, <3>2
  <2>7. t.samples[n + 1] = sample
    BY <1>1, <2>4, SignalParts, AppendFacts
  <2>8. /\ Len(t.time_offsets) = n + 1 /\ t.time_offsets # <<>>
        /\ t.time_offsets[n + 1] = offset
        /\ \A i \in 0..(n - 1) : t.time_offsets[i + 1] = known[i + 1]
    <3>1. /\ Len(Append(known, offset)) = n + 1 /\ Append(known, offset) # <<>>
          /\ Append(known, offset)[n + 1] = offset
          /\ \A i \in 0..(n - 1) : Append(known, offset)[i + 1] = known[i + 1]
      BY ONLY <2>2, <2>3, AppendFacts
    <3>2. QED
      BY <2>4, <3>1
  <2>9. \A i \in Int : BaselineTime(t, i) = BaselineTime(s, i) /\ BaselineTime(s, i) \in Int
    BY <2>4, SameBaseline, BaselineTimeType
  <2>10. \A i \in Indices(s) : get_time_at_index(t, i) = get_time_at_index(s, i)
    <3> SUFFICES ASSUME NEW i \in 0..(n - 1)
                 PROVE  get_time_at_index(t, i) = get_time_at_index(s, i)
      BY DEF Indices
    <3>1. BaselineTime(t, i) = BaselineTime(s, i)
      BY <1>1, <2>9
    <3>2. t.time_offsets[i + 1] = known[i + 1]
      BY <2>8
    <3>3. get_time_at_index(t, i) = BaselineTime(s, i) + known[i + 1]
      BY <2>8, <3>1, <3>2 DEF get_time_at_index, is_uniformly_sampled
    <3>4. CASE is_uniformly_sampled(s)
      <4>1. known[i + 1] = 0
        BY <1>1, <3>4 DEF known
      <4>2. get_time_at_index(s, i) = BaselineTime(s, i)
        BY <3>4 DEF get_time_at_index
      <4>3. QED
        BY <1>1, <2>9, <3>3, <4>1, <4>2
    <3>5. CASE ~is_uniformly_sampled(s)
      BY <3>3, <3>5 DEF get_time_at_index, known
    <3>6. QED
      BY <3>4, <3>5
  <2>11. get_time_at_index(t, n) = time
    <3>1. get_time_at_index(t, n) = BaselineTime(s, n) + offset
      BY <1>1, <2>8, <2>9 DEF get_time_at_index, is_uniformly_sampled
    <3>2. QED
      BY <1>1, <3>1 DEF offset
  <2>12. Extends(t, s, sample, time)
    BY <2>4, <2>5, <2>6, <2>7, <2>8, <2>10, <2>11 DEF Extends, Paired
  <2>13. QED
    BY <1>3, <2>4, <2>12 DEF Recorded
<1>4. QED
  BY <1>2, <1>3

\* What passes emplace_time is recorded at a time that it would let pass again.
LEMMA RecordedIsAccepted ==
    ASSUME NEW s, NEW time, ~RejectsTime(s, time)
    PROVE  Accepted(s, Recorded(s, time))
  BY DEF Recorded, Accepted

\* A time that was accepted stays as it is.
LEMMA AcceptedIsRecorded ==
    ASSUME NEW Samples, NEW s \in SignalsOf(Samples), NEW time, Accepted(s, time)
    PROVE  Recorded(s, time) = time /\ ~RejectsTime(s, time)
<1>1. BaselineTime(s, get_sample_count(s)) \in Int
  BY SignalParts, BaselineTimeType
<1>2. IsExpected(s, BaselineTime(s, get_sample_count(s)))
  BY <1>1, NearFacts DEF IsExpected
<1>3. QED
  BY <1>2 DEF Recorded, Accepted, RejectsTime

\* A new signal, or copy of a part of it, that holds an amplitude without a time.
LEMMA EmplaceUntimedType ==
    ASSUME NEW s \in SignalsOf(Nat), NEW sample \in Nat
    PROVE  EmplaceUntimed(s, sample) \in SignalsOf(Nat)
<1> DEFINE samples == Append(s.samples, sample)
<1>1. samples \in Seq(Nat)
  BY SignalParts, AppendFacts
<1>2. EmplaceUntimed(s, sample) = [s EXCEPT !.samples = samples]
  BY DEF EmplaceUntimed
<1> HIDE DEF samples
<1>3. QED
  BY <1>1, <1>2 DEF SignalsOf

\* A signal stays steady as long as nothing is emplaced that emplace_time rejects.
LEMMA ExtendsSteady ==
    ASSUME NEW Samples, NEW s \in SignalsOf(Samples), Paired(s), Steady(s),
           NEW sample, NEW time \in Int, Accepted(s, time),
           NEW t, Extends(t, s, sample, time)
    PROVE  Steady(t)
<1> DEFINE n == get_sample_count(s)
<1>1. n \in Nat
  BY SignalParts
<1>2. Indices(t) = 0..n /\ Indices(s) = 0..(n - 1)
  BY <1>1 DEF Extends, Indices
<1>3. \A i \in 0..n : BaselineTime(t, i) = BaselineTime(s, i)
  BY SameBaseline DEF Extends
<1>4. ASSUME NEW i \in 0..(n - 1)
      PROVE  \/ get_time_at_index(t, i) = BaselineTime(t, i)
             \/ /\ ~Near(get_time_at_index(t, i), BaselineTime(t, i))
                /\ i # 0 => After(get_time_at_index(t, i), get_time_at_index(t, i - 1))
  <2>1. get_time_at_index(t, i) = get_time_at_index(s, i)
    BY <1>2 DEF Extends
  <2>2. i # 0 => get_time_at_index(t, i - 1) = get_time_at_index(s, i - 1)
    BY <1>1, <1>2 DEF Extends
  <2>3. BaselineTime(t, i) = BaselineTime(s, i)
    BY <1>1, <1>3
  <2>4. QED
    BY <1>2, <2>1, <2>2, <2>3 DEF Steady
<1>5. \/ get_time_at_index(t, n) = BaselineTime(t, n)
      \/ /\ ~Near(get_time_at_index(t, n), BaselineTime(t, n))
         /\ n # 0 => After(get_time_at_index(t, n), get_time_at_index(t, n - 1))
  <2>1. get_time_at_index(t, n) = time /\ BaselineTime(t, n) = BaselineTime(s, n)
    BY <1>1, <1>3 DEF Extends
  <2>2. CASE time = BaselineTime(s, n)
    BY <2>1, <2>2
  <2>3. CASE time # BaselineTime(s, n)
    <3>1. ~IsExpected(s, time) /\ ~RejectsTime(s, time)
      BY <2>3 DEF Accepted
    <3>2. ASSUME n # 0
          PROVE  After(get_time_at_index(t, n), get_time_at_index(t, n - 1))
      <4>1. n - 1 \in Indices(s) /\ n >= 1
        BY <1>1, <1>2, <3>2
      <4>2. After(time, get_time_at_index(s, n - 1))
        BY <3>1, <4>1 DEF RejectsTime
      <4>3. get_time_at_index(t, n - 1) = get_time_at_index(s, n - 1)
        BY <4>1 DEF Extends
      <4>4. QED
        BY <2>1, <4>2, <4>3
    <3>3. QED
      BY <2>1, <3>1, <3>2 DEF IsExpected
  <2>4. QED
    BY <2>2, <2>3
<1>6. \A i \in 0..n : i \in 0..(n - 1) \/ i = n
  BY <1>1
<1>7. QED
  BY <1>2, <1>4, <1>5, <1>6 DEF Steady

------------------------------------------------------------------------------
(* The inductive invariant *)

\* Every signal but a downsampled one holds its samples in the order of their names.
NumberedSignal(s) == \A i \in Indices(s) : s.samples[i + 1] = i
Numbered ==
    /\ phase \notin {"abandoned", "refused"} => NumberedSignal(target)
    /\ NumberedSignal(source)

SteadyOK ==
    /\ phase \notin {"abandoned", "refused"} => Steady(target)
    /\ Steady(source)

Fresh ==
    phase \in {"build", "abandoned", "taken", "load"} => downsampled = NewSignal /\ dst = 0

\* Before bucket dst, one sample of each bucket and the first one are kept, the
\* last of them from the end of the bucket before at most.
Kept ==
    phase = "buckets" =>
        /\ threshold \in 2..(size - 1)
        /\ dst \in 0..(threshold - 2)
        /\ get_sample_count(downsampled) = dst + 1
        /\ downsampled.samples[1] = 0
        /\ ZeroBaseline(downsampled)
        /\ threshold > 2 => downsampled.samples[dst + 1] <= dst * bucket_size

\* The file has the baseline of the signal that was saved.
Loaded ==
    phase = "load" =>
        /\ target.time_offset = source.time_offset
        /\ target.sample_rate_r = source.sample_rate_r
        /\ get_sample_count(target) <= size

\* TimesKept of any signal.
KeptTimes(s, index) ==
    {get_time_at_index(s, index)} \cup (IF Near(get_time_at_index(s, index), 0) THEN {0} ELSE {})

\* The samples of t are samples of s, in order and at their times.
PointsOf(t, s) ==
    /\ \A i \in Indices(t) :
           /\ t.samples[i + 1] \in Indices(s)
           /\ get_time_at_index(t, i) \in KeptTimes(s, t.samples[i + 1])
    /\ \A i, j \in Indices(t) : i < j => t.samples[i + 1] < t.samples[j + 1]

IInv ==
    /\ TypeOK
    /\ TimesArePaired
    /\ Numbered
    /\ SteadyOK
    /\ Fresh
    /\ Kept
    /\ Loaded
    /\ PointsAreSamples
    /\ AsManyAsAsked
    /\ FailsOnlyOnDisorder
    /\ SavedSignalLoads

------------------------------------------------------------------------------
(* Arithmetic of the buckets *)

LEMMA Quotient ==
    ASSUME NEW a \in Nat, NEW b \in Nat \ {0}, a >= b
    PROVE  /\ (a \div b) \in Nat \ {0}
           /\ b * (a \div b) <= a
           /\ a - b * (a \div b) < b
<1>1. (a \div b) \in Nat /\ b * (a \div b) <= a /\ a - b * (a \div b) < b
  OBVIOUS
<1>2. (a \div b) = 0 => b * (a \div b) = 0
  OBVIOUS
<1>3. QED
  BY <1>1, <1>2

LEMMA Multiples ==
    ASSUME NEW b \in Nat, NEW d \in Nat, NEW q \in Nat, d < b
    PROVE  /\ (d + 1) * q <= b * q
           /\ (d + 1) * q = d * q + q
           /\ d * q \in Nat
  OBVIOUS

\* The rounded-down size of a bucket, for a signal that is longer than what is asked for.
LEMMA BucketSize ==
    ASSUME size \in Nat, threshold \in 3..(size - 1)
    PROVE  /\ bucket_size \in Nat \ {0}
           /\ (threshold - 2) * bucket_size <= size - 2
           /\ (size - 2) - (threshold - 2) * bucket_size < threshold - 2
<1>1. size - 2 \in Nat /\ threshold - 2 \in Nat \ {0} /\ size - 2 >= threshold - 2
  OBVIOUS
<1>2. QED
  BY <1>1, Quotient DEF bucket_size

\* Every bucket of the loop is complete.
LEMMA BucketRange ==
    ASSUME size \in Nat, threshold \in 3..(size - 1), NEW d \in 0..(threshold - 3)
    PROVE  /\ Bucket(d) = (d * bucket_size + 1)..(d * bucket_size + bucket_size)
           /\ d * bucket_size \in Nat
           /\ d * bucket_size + bucket_size <= size - 2
           /\ (d + 1) * bucket_size = d * bucket_size + bucket_size
<1>1. bucket_size \in Nat /\ (threshold - 2) * bucket_size <= size - 2
  BY BucketSize
<1>2. threshold - 2 \in Nat /\ d \in Nat /\ d < threshold - 2
  OBVIOUS
<1>3. /\ (d + 1) * bucket_size <= (threshold - 2) * bucket_size
      /\ (d + 1) * bucket_size = d * bucket_size + bucket_size
      /\ d * bucket_size \in Nat
  BY <1>1, <1>2, Multiples
<1> HIDE DEF bucket_size
<1> DEFINE p == d * bucket_size
           q == (d + 1) * bucket_size
           r == (threshold - 2) * bucket_size
<1>4. /\ p \in Nat /\ q \in Int /\ r \in Int
      /\ q <= r /\ q = p + bucket_size /\ r <= size - 2
  BY <1>1, <1>2, <1>3
<1>5. Bucket(d) = (p + 1)..(IF q < size - 2 THEN q ELSE size - 2)
  BY DEF Bucket
<1> HIDE DEF p, q, r
<1>6. p + bucket_size <= size - 2 /\ (IF q < size - 2 THEN q ELSE size - 2) = p + bucket_size
  BY <1>1, <1>4
<1>7. QED
  BY <1>4, <1>5, <1>6 DEF p, q

------------------------------------------------------------------------------
(* Keeping a sample *)

\* One more sample, from beyond those that are kept.
LEMMA KeepPoint ==
    ASSUME NEW s \in SignalsOf(Nat), Paired(s), NEW t \in SignalsOf(Nat), Paired(t),
           PointsOf(t, s), ZeroBaseline(t), NEW index \in Indices(s),
           \A i \in Indices(t) : t.samples[i + 1] < index,
           NEW u, u = EmplaceTimed(t, get_time_at_index(s, index), index)
    PROVE  /\ u \in SignalsOf(Nat)
           /\ Paired(u)
           /\ PointsOf(u, s)
           /\ ZeroBaseline(u)
           /\ get_sample_count(u) = get_sample_count(t) + 1
           /\ \A i \in Indices(t) : u.samples[i + 1] = t.samples[i + 1]
           /\ u.samples[get_sample_count(t) + 1] = index
<1> DEFINE n == get_sample_count(t)
           time == get_time_at_index(s, index)
<1>1. time \in Int /\ index \in Nat /\ n \in Nat
  BY TimeType, SignalParts DEF Indices
<1> DEFINE recorded == Recorded(t, time)
<1>2. u \in SignalsOf(Nat) /\ Extends(u, t, index, recorded)
  BY <1>1, EmplaceTimedExtends
<1> HIDE DEF time
<1>8. recorded \in {time} \cup (IF Near(time, 0) THEN {0} ELSE {})
  BY <1>1, ZeroBaselineTime DEF Recorded, IsExpected
<1> HIDE DEF recorded
<1>9. recorded \in KeptTimes(s, index)
  BY <1>8, Zenon DEF KeptTimes, time
<1>3. Indices(u) = 0..n /\ Indices(t) = 0..(n - 1)
  BY <1>1, <1>2 DEF Extends, Indices
<1>4. \A i \in 0..n : i \in 0..(n - 1) \/ i = n
  BY <1>1
<1>5. ASSUME NEW i \in 0..n
      PROVE  /\ u.samples[i + 1] \in Indices(s)
             /\ get_time_at_index(u, i) \in KeptTimes(s, u.samples[i + 1])
  <2>1. CASE i \in 0..(n - 1)
    BY <1>2, <1>3, <2>1 DEF Extends, PointsOf
  <2>2. CASE i = n
    BY <1>2, <1>9, <2>2 DEF Extends
  <2>3. QED
    BY <1>4, <2>1, <2>2
<1>6. ASSUME NEW i \in 0..n, NEW j \in 0..n, i < j
      PROVE  u.samples[i + 1] < u.samples[j + 1]
  <2>1. i \in 0..(n - 1) /\ u.samples[i + 1] = t.samples[i + 1]
    BY <1>1, <1>2, <1>3, <1>6 DEF Extends
  <2>2. CASE j \in 0..(n - 1)
    BY <1>2, <1>3, <1>6, <2>1, <2>2 DEF Extends, PointsOf
  <2>3. CASE j = n
    BY <1>2, <1>3, <2>1, <2>3 DEF Extends
  <2>4. QED
    BY <1>4, <2>2, <2>3
<1>7. QED
  BY <1>2, <1>3, <1>5, <1>6 DEF Extends, PointsOf, ZeroBaseline

\* A sample from beyond those that are kept is rejected only when it is not later
\* than the last of these by more than the tolerance.
LEMMA RejectPoint ==
    ASSUME NEW s \in SignalsOf(Nat), Paired(s), NEW t \in SignalsOf(Nat), Paired(t),
           PointsOf(t, s), ZeroBaseline(t), NEW index \in Indices(s),
           \A i \in Indices(t) : t.samples[i + 1] < index,
           RejectsTime(t, get_time_at_index(s, index))
    PROVE  ~TimesIncrease(s)
<1> DEFINE n == get_sample_count(t)
           last == t.samples[n - 1 + 1]
<1>1. n \in Nat /\ n >= 1
  BY SignalParts DEF RejectsTime
<1>2. n - 1 \in Indices(t)
  BY <1>1 DEF Indices
<1> DEFINE given == get_time_at_index(s, index)
           before == get_time_at_index(s, last)
           recorded == get_time_at_index(t, n - 1)
<1>3. last \in Indices(s) /\ last < index /\ recorded \in KeptTimes(s, last)
  BY <1>2 DEF PointsOf
<1>4. given \in Int /\ before \in Int /\ 0 \in Int
  BY <1>3, TimeType
<1>5. recorded = before \/ (recorded = 0 /\ Near(before, 0))
  <2>1. recorded \in {before} \cup (IF Near(before, 0) THEN {0} ELSE {})
    BY <1>3, Zenon DEF KeptTimes
  <2> HIDE DEF recorded, before
  <2>2. QED
    BY <2>1
<1>6. ~After(given, recorded) /\ ~Near(given, 0)
  BY <1>1, ZeroBaselineTime DEF RejectsTime, IsExpected
<1>7. ASSUME TimesIncrease(s) PROVE After(given, before)
  BY <1>3, <1>7 DEF TimesIncrease
<1> HIDE DEF given, before, recorded, last
<1>8. ~After(given, before)
  <2>1. Epsilon \in Nat /\ Round(0 + Epsilon) = Epsilon
    BY FloatAssumption DEF Round
  <2>2. CASE recorded = before
    BY <1>6, <2>2
  <2>3. CASE recorded = 0 /\ Near(before, 0)
    <3>1. before + Epsilon \in Nat
      BY <1>4, <2>1, <2>3, NearFacts
    <3>2. given <= Epsilon
      BY <1>4, <1>6, <2>1, <2>3 DEF After
    <3>3. ~(given <= 0 + Epsilon /\ 0 <= given + Epsilon)
      BY <1>4, <1>6, NearFacts
    <3>4. given < 0
      BY <1>4, <2>1, <3>2, <3>3
    <3>5. Round(before + Epsilon) >= 0 /\ Round(before + Epsilon) \in Int
      BY <3>1, RoundOfNat, RoundType
    <3>6. QED
      BY <1>4, <3>4, <3>5 DEF After
  <2>4. QED
    BY <1>5, <2>2, <2>3
<1>9. QED
  BY <1>7, <1>8

------------------------------------------------------------------------------
(* The steps of the factory *)

LEMMA InitIInv == Init => IInv
<1> SUFFICES ASSUME Init PROVE IInv
  OBVIOUS
<1>1. NewSignal \in SignalsOf(Nat) /\ Paired(NewSignal) /\ Indices(NewSignal) = {}
  BY NewSignalFacts
<1>2. TypeOK /\ TimesArePaired
  BY <1>1 DEF Init, TypeOK, TimesArePaired
<1>3. Numbered /\ SteadyOK
  BY <1>1 DEF Init, Numbered, NumberedSignal, SteadyOK, Steady
<1>4. QED
  BY <1>2, <1>3 DEF Init, IInv, Fresh, Kept, Loaded, PointsAreSamples, AsManyAsAsked,
                    FailsOnlyOnDisorder, SavedSignalLoads

\* What every step of the factory has to show when the phase has no points and
\* no file, and it leaves the source alone.
LEMMA TargetStep ==
    ASSUME IInv, phase \in {"build", "abandoned"}, phase' = "build",
           UNCHANGED <<source, downsampled, threshold, dst>>,
           target' \in SignalsOf(Nat), Paired(target'), NumberedSignal(target'),
           Steady(target')
    PROVE  IInv'
<1>1. (TypeOK /\ TimesArePaired)'
  BY DEF IInv, TypeOK, TimesArePaired
<1>2. (Numbered /\ SteadyOK)'
  BY DEF IInv, Numbered, SteadyOK
<1>3. (Fresh /\ Kept /\ Loaded /\ PointsAreSamples /\ AsManyAsAsked)'
  BY DEF IInv, Fresh, Kept, Loaded, PointsAreSamples, AsManyAsAsked
<1>4. (FailsOnlyOnDisorder /\ SavedSignalLoads)'
  BY DEF IInv, FailsOnlyOnDisorder, SavedSignalLoads
<1>5. QED
  BY <1>1, <1>2, <1>3, <1>4 DEF IInv

LEMMA EmptySignal ==
    ASSUME NEW s, Indices(s) = {}
    PROVE  NumberedSignal(s) /\ Steady(s)
  BY DEF NumberedSignal, Steady

\* A numbered signal that is extended with the next number.
LEMMA NumberedExtends ==
    ASSUME NEW s \in SignalsOf(Nat), NumberedSignal(s), NEW t, NEW time,
           Extends(t, s, get_sample_count(s), time)
    PROVE  NumberedSignal(t)
<1>1. get_sample_count(s) \in Nat
  BY SignalParts
<1>2. QED
  BY <1>1 DEF NumberedSignal, Extends, Indices

LEMMA BuildStep == IInv /\ Build => IInv'
<1> SUFFICES ASSUME IInv, Build PROVE IInv'
  OBVIOUS
<1> DEFINE n == get_sample_count(target)
<1>0. target \in SignalsOf(Nat) /\ n \in Nat
  BY SignalParts DEF IInv, TypeOK
<1>1. ASSUME phase = "build"
      PROVE  Paired(target) /\ NumberedSignal(target) /\ Steady(target)
  BY <1>1 DEF IInv, TimesArePaired, Numbered, SteadyOK
<1>2. ASSUME NEW baseline \in Baselines, SetBaseline(baseline) PROVE IInv'
  <2>1. baseline.time_offset \in Int /\ baseline.sample_rate_r \in Nat
    BY BaselinesAssumption
  <2>2. target' \in SignalsOf(Nat) /\ target'.samples = <<>> /\ target'.time_offsets = <<>>
    <3>1. target' = [samples |-> <<>>, time_offset |-> baseline.time_offset,
                     sample_rate_r |-> baseline.sample_rate_r, time_offsets |-> <<>>]
      BY <1>2 DEF SetBaseline, NewSignal
    <3>2. <<>> \in Seq(Nat) /\ <<>> \in Seq(Int)
      OBVIOUS
    <3>3. QED
      BY <2>1, <3>1, <3>2 DEF SignalsOf
  <2>3. Paired(target') /\ Indices(target') = {}
    BY <2>2 DEF Paired, is_uniformly_sampled, Indices, get_sample_count
  <2>4. QED
    BY <1>2, <2>2, <2>3, EmptySignal, TargetStep DEF SetBaseline, Building
<1>3. CASE emplace_sample
  <2>0. phase = "build" /\ Paired(target) /\ NumberedSignal(target) /\ Steady(target)
    BY <1>1, <1>3 DEF emplace_sample, Building
  <2>1. target' \in SignalsOf(Nat) /\ Extends(target', target, n, BaselineTime(target, n))
    BY <1>0, <1>3, <2>0, EmplaceAmplitudeExtends DEF emplace_sample
  <2>2. Accepted(target, BaselineTime(target, n)) /\ BaselineTime(target, n) \in Int
    BY <1>0, BaselineTimeType DEF Accepted
  <2>3. NumberedSignal(target') /\ Steady(target') /\ Paired(target')
    BY <1>0, <2>0, <2>1, <2>2, NumberedExtends, ExtendsSteady DEF Extends
  <2>4. QED
    BY <1>3, <2>1, <2>3, TargetStep DEF emplace_sample, Building
<1>4. ASSUME NEW time \in Times, emplace_sample_at(time) PROVE IInv'
  <2>1. time \in Int
    BY TimesAssumption
  <2>0. phase = "build" /\ Paired(target) /\ NumberedSignal(target) /\ Steady(target)
    BY <1>1, <1>4 DEF emplace_sample_at, Building
  <2>2. /\ target' \in SignalsOf(Nat)
        /\ Extends(target', target, n, Recorded(target, time))
        /\ Recorded(target, time) \in Int
    BY <1>0, <1>4, <2>0, <2>1, EmplaceTimedExtends DEF emplace_sample_at
  <2>3. Accepted(target, Recorded(target, time))
    BY <1>4, RecordedIsAccepted DEF emplace_sample_at
  <2>4. NumberedSignal(target') /\ Steady(target') /\ Paired(target')
    BY <1>0, <2>0, <2>2, <2>3, NumberedExtends, ExtendsSteady DEF Extends
  <2>5. QED
    BY <1>4, <2>2, <2>4, TargetStep DEF emplace_sample_at, Building
<1>5. ASSUME NEW time \in Times, RejectSample(time) PROVE IInv'
  <2>1. /\ phase = "build" /\ phase' = "abandoned" /\ target' \in SignalsOf(Nat)
        /\ UNCHANGED <<source, downsampled, threshold, dst>>
    BY <1>0, <1>5, EmplaceUntimedType DEF RejectSample, Building
  <2>2. (TypeOK /\ TimesArePaired /\ Numbered /\ SteadyOK)'
    BY <2>1 DEF IInv, TypeOK, TimesArePaired, Numbered, SteadyOK
  <2>3. QED
    BY <2>1, <2>2 DEF IInv, Fresh, Kept, Loaded, PointsAreSamples, AsManyAsAsked,
                      FailsOnlyOnDisorder, SavedSignalLoads
<1>6. CASE DiscardFactory
  BY <1>6, NewSignalFacts, EmptySignal, TargetStep DEF DiscardFactory
<1>7. CASE take_signal
  <2>0. phase = "build" /\ Paired(target) /\ NumberedSignal(target) /\ Steady(target)
    BY <1>1, <1>7 DEF take_signal
  <2>1. (TypeOK /\ TimesArePaired)'
    BY <1>7, <2>0, NewSignalFacts DEF IInv, take_signal, TypeOK, TimesArePaired
  <2>2. (Numbered /\ SteadyOK)'
    BY <1>7, <2>0, NewSignalFacts, EmptySignal DEF take_signal, Numbered, SteadyOK
  <2>3. QED
    BY <1>7, <2>1, <2>2
       DEF take_signal, IInv, Fresh, Kept, Loaded, PointsAreSamples, AsManyAsAsked,
           FailsOnlyOnDisorder, SavedSignalLoads
<1>8. QED
  BY <1>2, <1>3, <1>4, <1>5, <1>6, <1>7 DEF Build

------------------------------------------------------------------------------
(* The steps of downsampling *)

LEMMA KeepResult ==
    ASSUME IInv, phase # "rejected", PointsOf(downsampled, source),
           ZeroBaseline(downsampled), NEW index \in Indices(source),
           \A i \in Indices(downsampled) : downsampled.samples[i + 1] < index,
           NEW next, Keep(index, next), source' = source
    PROVE  \/ /\ phase' = "rejected" /\ downsampled' \in SignalsOf(Nat)
              /\ ~TimesIncrease(source)
           \/ /\ phase' = next
              /\ downsampled' \in SignalsOf(Nat) /\ Paired(downsampled')
              /\ PointsOf(downsampled', source) /\ ZeroBaseline(downsampled')
              /\ get_sample_count(downsampled') = get_sample_count(downsampled) + 1
              /\ \A i \in Indices(downsampled) :
                     downsampled'.samples[i + 1] = downsampled.samples[i + 1]
              /\ downsampled'.samples[get_sample_count(downsampled) + 1] = index
<1>1. /\ source \in SignalsOf(Nat) /\ Paired(source)
      /\ downsampled \in SignalsOf(Nat) /\ Paired(downsampled) /\ index \in Nat
  BY SignalParts DEF IInv, TypeOK, TimesArePaired, Indices
<1>2. CASE RejectsTime(downsampled, TimeOf(index))
  <2>1. ~TimesIncrease(source)
    BY <1>1, <1>2, RejectPoint DEF TimeOf
  <2>2. phase' = "rejected" /\ downsampled' = EmplaceUntimed(downsampled, index)
    BY <1>2 DEF Keep
  <2>3. QED
    BY <1>1, <2>1, <2>2, EmplaceUntimedType
<1>3. CASE ~RejectsTime(downsampled, TimeOf(index))
  <2>1. phase' = next
        /\ downsampled' = EmplaceTimed(downsampled, get_time_at_index(source, index), index)
    BY <1>3 DEF Keep, TimeOf
  <2>2. QED
    BY <1>1, <2>1, KeepPoint
<1>4. QED
  BY <1>2, <1>3

\* A downsampling that fails has shown that two times are out of order or too close.
LEMMA RejectedStep ==
    ASSUME IInv, phase \in {"taken", "buckets"}, UNCHANGED <<target, source>>,
           threshold' \in Nat, dst' \in Nat, downsampled' \in SignalsOf(Nat),
           phase' = "rejected", ~TimesIncrease(source)
    PROVE  IInv'
<1>1. (TypeOK /\ TimesArePaired /\ Numbered /\ SteadyOK)'
  BY DEF IInv, TypeOK, TimesArePaired, Numbered, NumberedSignal, SteadyOK
<1>2. QED
  BY <1>1 DEF IInv, Fresh, Kept, Loaded, PointsAreSamples, AsManyAsAsked,
              FailsOnlyOnDisorder, SavedSignalLoads

\* A step that leaves downsampling with points has to show only what they are.
LEMMA PointsStep ==
    ASSUME IInv, phase \in {"taken", "buckets"}, UNCHANGED <<target, source>>,
           threshold' \in Nat, dst' \in Nat, downsampled' \in SignalsOf(Nat), Paired(downsampled'),
           PointsOf(downsampled', source),
           phase' \in {"buckets", "done"}, Kept', AsManyAsAsked'
    PROVE  IInv'
<1>1. (TypeOK /\ TimesArePaired /\ Numbered /\ SteadyOK)'
  BY DEF IInv, TypeOK, TimesArePaired, Numbered, NumberedSignal, SteadyOK
<1>2. PointsAreSamples'
  BY DEF PointsAreSamples, PointsOf, TimesKept, KeptTimes, TimeOf
<1>3. QED
  BY <1>1, <1>2 DEF IInv, Fresh, Loaded, FailsOnlyOnDisorder, SavedSignalLoads

\* The number of samples that is asked for is at least the factor.
LEMMA SampleCountType ==
    ASSUME IInv, NEW factor \in Factors
    PROVE  SampleCount(factor) \in Nat \ {0} /\ size \in Nat
<1>1. size \in Nat /\ factor \in Nat \ {0}
  BY SignalParts, FactorsAssumption DEF IInv, TypeOK, size
<1> HIDE DEF size
<1>2. size \div factor \in Nat
  BY <1>1
<1> DEFINE q == size \div factor
<1> HIDE DEF q
<1>3. (IF q < factor THEN factor ELSE q) \in Nat \ {0}
  BY <1>1, <1>2 DEF q
<1>4. QED
  BY <1>1, <1>3 DEF SampleCount, q

LEMMA SignalItself ==
    ASSUME NEW s \in SignalsOf(Nat), NumberedSignal(s)
    PROVE  PointsOf(s, s)
<1>1. Indices(s) \subseteq Int
  BY SignalParts DEF Indices
<1>2. QED
  BY <1>1 DEF PointsOf, NumberedSignal, KeptTimes

LEMMA NoPoints ==
    ASSUME NEW s
    PROVE  /\ PointsOf(NewSignal, s) /\ ZeroBaseline(NewSignal)
           /\ get_sample_count(NewSignal) = 0 /\ Indices(NewSignal) = {}
<1>1. ZeroBaseline(NewSignal)
  BY DEF ZeroBaseline, NewSignal
<1>2. QED
  BY <1>1, NewSignalFacts DEF PointsOf

LEMMA CopySignalStep ==
    ASSUME IInv, NEW factor \in Factors, CopySignal(factor)
    PROVE  IInv'
<1>1. /\ source \in SignalsOf(Nat) /\ Paired(source) /\ NumberedSignal(source)
      /\ SampleCount(factor) \in Nat \ {0} /\ size \in Nat /\ dst \in Nat
  BY SampleCountType DEF IInv, TypeOK, TimesArePaired, Numbered
<1>2. /\ UNCHANGED <<target, source, dst>> /\ phase = "taken" /\ phase' = "done"
      /\ threshold' = SampleCount(factor) /\ size <= threshold'
      /\ downsampled' = IF size = 0 THEN NewSignal ELSE source
  BY DEF CopySignal, Downsampling
<1>3. /\ downsampled' \in SignalsOf(Nat) /\ Paired(downsampled')
      /\ PointsOf(downsampled', source)
      /\ get_sample_count(downsampled') = size
  BY <1>1, <1>2, NewSignalFacts, SignalItself, NoPoints DEF size
<1>4. size >= 1 => downsampled'.samples[1] = 0 /\ downsampled'.samples[size] = size - 1
  <2> SUFFICES ASSUME size >= 1
               PROVE  downsampled'.samples[1] = 0 /\ downsampled'.samples[size] = size - 1
    OBVIOUS
  <2>1. 0 \in Indices(source) /\ size - 1 \in Indices(source) /\ size - 1 + 1 = size
    BY <1>1 DEF Indices, size
  <2>2. source.samples[0 + 1] = 0 /\ source.samples[size - 1 + 1] = size - 1
    BY <1>1, <2>1 DEF NumberedSignal
  <2>3. QED
    BY <1>1, <1>2, <2>1, <2>2
<1>5. size' = size
  BY <1>2 DEF size
<1>6. Kept' /\ AsManyAsAsked'
  BY <1>1, <1>2, <1>3, <1>4, <1>5 DEF Kept, AsManyAsAsked
<1>7. QED
  BY <1>1, <1>2, <1>3, <1>6, PointsStep

LEMMA FirstPointStep ==
    ASSUME IInv, NEW factor \in Factors, FirstPoint(factor)
    PROVE  IInv'
<1> DEFINE next == IF SampleCount(factor) = 1 THEN "done" ELSE "buckets"
<1>1. /\ phase = "taken" /\ UNCHANGED <<target, source, dst>>
      /\ threshold' = SampleCount(factor) /\ size > SampleCount(factor)
      /\ Keep(0, next)
  BY DEF FirstPoint, Downsampling
<1>2. /\ SampleCount(factor) \in Nat \ {0} /\ size \in Nat /\ size' = size
      /\ downsampled = NewSignal /\ dst = 0
  BY <1>1, SampleCountType DEF IInv, Fresh, size
<1>3. 0 \in Indices(source)
  BY <1>1, <1>2 DEF Indices, size
<1>4. PointsOf(downsampled, source) /\ get_sample_count(downsampled) = 0
      /\ ZeroBaseline(downsampled) /\ Indices(downsampled) = {}
  BY <1>2, NoPoints
<1>5. CASE phase' = "rejected"
  BY <1>1, <1>2, <1>3, <1>4, <1>5, KeepResult, RejectedStep
<1>6. CASE phase' # "rejected"
  <2>1. /\ phase' = next
        /\ downsampled' \in SignalsOf(Nat) /\ Paired(downsampled')
        /\ PointsOf(downsampled', source) /\ ZeroBaseline(downsampled')
        /\ get_sample_count(downsampled') = 1
        /\ downsampled'.samples[1] = 0
    BY <1>1, <1>3, <1>4, <1>6, KeepResult
  <2>2. CASE SampleCount(factor) = 1
    <3>1. phase' = "done" /\ threshold' = 1 /\ 1 < size
      BY <1>1, <2>1, <2>2
    <3>2. Kept' /\ AsManyAsAsked'
      BY <1>2, <2>1, <3>1 DEF Kept, AsManyAsAsked
    <3>3. QED
      BY <1>1, <1>2, <2>1, <3>1, <3>2, PointsStep
  <2>3. CASE SampleCount(factor) # 1
    <3>1. phase' = "buckets" /\ threshold' \in 2..(size - 1) /\ dst' = 0
      BY <1>1, <1>2, <2>1, <2>3
    <3>2. ASSUME SampleCount(factor) > 2 PROVE 0 * bucket_size' = 0
      <4> DEFINE b == (size - 2) \div (SampleCount(factor) - 2)
      <4>1. size - 2 \in Nat /\ SampleCount(factor) - 2 \in Nat \ {0}
            /\ size - 2 >= SampleCount(factor) - 2
        BY ONLY <1>1, <1>2, <3>2
      <4>2. b \in Nat
        BY ONLY <4>1, Quotient
      <4>3. 0 * b = 0
        BY ONLY <4>2
      <4>4. bucket_size' = b
        BY ONLY <1>1, <1>2, Zenon DEF bucket_size
      <4>5. QED
        BY ONLY <4>3, <4>4, Zenon
    <3>3. Kept' /\ AsManyAsAsked'
      BY <1>1, <1>2, <2>1, <3>1, <3>2 DEF Kept, AsManyAsAsked
    <3>4. QED
      BY <1>1, <1>2, <2>1, <3>1, <3>3, PointsStep
  <2>4. QED
    BY <2>2, <2>3
<1>7. QED
  BY <1>5, <1>6

\* What the loop of the buckets knows about the points that are kept.
LEMMA KeptFacts ==
    ASSUME IInv, phase = "buckets"
    PROVE  /\ size \in Nat /\ threshold \in 2..(size - 1) /\ dst \in 0..(threshold - 2)
           /\ PointsOf(downsampled, source) /\ ZeroBaseline(downsampled)
           /\ Indices(downsampled) = 0..dst
           /\ get_sample_count(downsampled) = dst + 1
           /\ downsampled.samples[1] = 0
           /\ \A i \in 0..dst : /\ downsampled.samples[i + 1] \in 0..(size - 1)
                                /\ downsampled.samples[i + 1] <= downsampled.samples[dst + 1]
<1>1. /\ size \in Nat /\ threshold \in 2..(size - 1) /\ dst \in 0..(threshold - 2)
      /\ get_sample_count(downsampled) = dst + 1 /\ downsampled.samples[1] = 0
      /\ ZeroBaseline(downsampled)
  BY SignalParts DEF IInv, TypeOK, Kept, size
<1>2. PointsOf(downsampled, source)
  BY DEF IInv, PointsAreSamples, PointsOf, TimesKept, KeptTimes, TimeOf
<1>3. Indices(downsampled) = 0..dst
  BY <1>1 DEF Indices
<1>4. \A i \in 0..dst : downsampled.samples[i + 1] \in 0..(size - 1)
  BY <1>2, <1>3 DEF PointsOf, Indices, size
<1>5. \A i \in 0..dst : downsampled.samples[i + 1] <= downsampled.samples[dst + 1]
  <2> SUFFICES ASSUME NEW i \in 0..dst
               PROVE  downsampled.samples[i + 1] <= downsampled.samples[dst + 1]
    OBVIOUS
  <2>1. dst \in 0..dst
    BY <1>1
  <2>2. CASE i = dst
    BY <1>1, <1>4, <2>1, <2>2
  <2>3. CASE i # dst
    <3>1. i < dst
      BY <1>1, <2>3
    <3>2. downsampled.samples[i + 1] < downsampled.samples[dst + 1]
      BY <1>2, <1>3, <2>1, <3>1 DEF PointsOf
    <3>3. QED
      BY <1>1, <1>4, <2>1, <3>2
  <2>4. QED
    BY <2>2, <2>3
<1>6. QED
  BY <1>1, <1>2, <1>3, <1>4, <1>5

LEMMA KeepOfBucketStep ==
    ASSUME IInv, KeepOfBucket
    PROVE  IInv'
<1>1. /\ phase = "buckets" /\ dst < threshold - 2 /\ dst' = dst + 1
      /\ UNCHANGED <<target, source, threshold>>
  BY DEF KeepOfBucket
<1>2. /\ size \in Nat /\ threshold \in 2..(size - 1) /\ dst \in 0..(threshold - 2)
      /\ PointsOf(downsampled, source) /\ ZeroBaseline(downsampled)
      /\ Indices(downsampled) = 0..dst
      /\ get_sample_count(downsampled) = dst + 1 /\ downsampled.samples[1] = 0
      /\ \A i \in 0..dst : /\ downsampled.samples[i + 1] \in 0..(size - 1)
                           /\ downsampled.samples[i + 1] <= downsampled.samples[dst + 1]
  BY <1>1, KeptFacts
<1>3. threshold \in 3..(size - 1) /\ dst \in 0..(threshold - 3) /\ threshold > 2
  BY <1>1, <1>2
<1> DEFINE p == dst * bucket_size
           q == p + bucket_size
<1>4. /\ Bucket(dst) = (p + 1)..q /\ p \in Nat /\ q <= size - 2
      /\ (dst + 1) * bucket_size = q /\ bucket_size \in Nat \ {0}
  BY <1>2, <1>3, BucketRange, BucketSize
<1>5. downsampled.samples[dst + 1] <= p
  BY <1>1, <1>3 DEF IInv, Kept
<1>6. p \in Nat /\ q \in Nat /\ p + 1 <= q
  BY <1>4
<1> HIDE DEF p, q
<1>7. PICK index \in (p + 1)..q : Keep(index, "buckets")
  <2>1. p + 1 \in (p + 1)..q
    BY ONLY <1>6
  <2>2. QED
    BY <1>4, <2>1 DEF KeepOfBucket
<1>8. index \in Indices(source)
  BY <1>2, <1>4, <1>6 DEF Indices, size
<1>9. \A i \in Indices(downsampled) : downsampled.samples[i + 1] < index
  <2> SUFFICES ASSUME NEW i \in 0..dst PROVE downsampled.samples[i + 1] < index
    BY <1>2
  <2>1. dst \in 0..dst
    BY <1>2
  <2>2. /\ downsampled.samples[i + 1] \in Int /\ downsampled.samples[dst + 1] \in Int
        /\ downsampled.samples[i + 1] <= downsampled.samples[dst + 1]
    BY <1>2, <2>1
  <2>3. QED
    BY <1>4, <1>5, <1>7, <2>2
<1>10. CASE phase' = "rejected"
  <2>1. downsampled' \in SignalsOf(Nat) /\ ~TimesIncrease(source)
    BY <1>1, <1>2, <1>7, <1>8, <1>9, <1>10, KeepResult
  <2>2. QED
    BY <1>1, <1>2, <1>10, <2>1, RejectedStep
<1>11. CASE phase' # "rejected"
  <2>1. /\ phase' = "buckets"
        /\ downsampled' \in SignalsOf(Nat) /\ Paired(downsampled')
        /\ PointsOf(downsampled', source) /\ ZeroBaseline(downsampled')
        /\ get_sample_count(downsampled') = get_sample_count(downsampled) + 1
        /\ \A i \in Indices(downsampled) :
               downsampled'.samples[i + 1] = downsampled.samples[i + 1]
        /\ downsampled'.samples[get_sample_count(downsampled) + 1] = index
    BY <1>1, <1>2, <1>7, <1>8, <1>9, <1>11, KeepResult
  <2>2. get_sample_count(downsampled') = dst' + 1 /\ downsampled'.samples[dst' + 1] = index
    BY <1>1, <1>2, <2>1
  <2>3. downsampled'.samples[1] = 0
    <3>1. 0 \in 0..dst /\ 0 + 1 = 1
      BY <1>2
    <3>2. QED
      BY <1>2, <2>1, <3>1
  <2>4. size' = size /\ bucket_size' = bucket_size
    BY <1>1 DEF size, bucket_size
  <2>5. dst' * bucket_size' = q
    BY <1>1, <1>4, <2>4, Zenon
  <2>6. downsampled'.samples[dst' + 1] <= q
    BY <1>7, <1>4, <1>6, <2>2
  <2>7. threshold' \in 2..(size' - 1) /\ dst' \in 0..(threshold' - 2) /\ dst' \in Nat
        /\ threshold' \in Nat
    BY <1>1, <1>2, <1>3, <2>4
  <2>8. downsampled'.samples[dst' + 1] <= dst' * bucket_size'
    BY <2>5, <2>6, Zenon
  <2>9. Kept'
    BY <2>1, <2>2, <2>3, <2>7, <2>8, Zenon DEF Kept
  <2>10. AsManyAsAsked'
    BY <2>1 DEF AsManyAsAsked
  <2>11. QED
    BY <1>1, <2>1, <2>7, <2>9, <2>10, PointsStep
<1>12. QED
  BY <1>10, <1>11

LEMMA LastPointStep ==
    ASSUME IInv, LastPoint
    PROVE  IInv'
<1>1. /\ phase = "buckets" /\ dst = threshold - 2
      /\ UNCHANGED <<target, source, threshold, dst>> /\ Keep(size - 1, "done")
  BY DEF LastPoint
<1>2. /\ size \in Nat /\ threshold \in 2..(size - 1) /\ dst \in 0..(threshold - 2)
      /\ PointsOf(downsampled, source) /\ ZeroBaseline(downsampled)
      /\ Indices(downsampled) = 0..dst
      /\ get_sample_count(downsampled) = dst + 1 /\ downsampled.samples[1] = 0
      /\ \A i \in 0..dst : /\ downsampled.samples[i + 1] \in 0..(size - 1)
                           /\ downsampled.samples[i + 1] <= downsampled.samples[dst + 1]
  BY <1>1, KeptFacts
<1>3. size - 1 \in Indices(source) /\ dst \in 0..dst
  BY <1>2 DEF Indices, size
<1>4. downsampled.samples[dst + 1] < size - 1
  <2>1. CASE threshold = 2
    BY <1>1, <1>2, <2>1
  <2>2. CASE threshold # 2
    <3> DEFINE r == (threshold - 2) * bucket_size
    <3>1. threshold \in 3..(size - 1) /\ threshold > 2
      BY <1>2, <2>2
    <3>2. r <= size - 2 /\ bucket_size \in Nat \ {0} /\ threshold - 2 \in Nat
      BY <1>2, <3>1, BucketSize
    <3>3. downsampled.samples[dst + 1] <= r
      BY <1>1, <3>1 DEF IInv, Kept
    <3>4. r \in Int
      BY <3>2
    <3> HIDE DEF r
    <3>5. downsampled.samples[dst + 1] \in Int
      BY <1>2, <1>3
    <3>6. QED
      BY <1>2, <3>2, <3>3, <3>4, <3>5
  <2>3. QED
    BY <2>1, <2>2
<1>5. \A i \in Indices(downsampled) : downsampled.samples[i + 1] < size - 1
  <2> SUFFICES ASSUME NEW i \in 0..dst PROVE downsampled.samples[i + 1] < size - 1
    BY <1>2
  <2>1. /\ downsampled.samples[i + 1] \in Int /\ downsampled.samples[dst + 1] \in Int
        /\ downsampled.samples[i + 1] <= downsampled.samples[dst + 1]
    BY <1>2, <1>3
  <2>2. QED
    BY <1>2, <1>4, <2>1
<1>6. CASE phase' = "rejected"
  <2>1. downsampled' \in SignalsOf(Nat) /\ ~TimesIncrease(source)
    BY <1>1, <1>2, <1>3, <1>5, <1>6, KeepResult
  <2>2. QED
    BY <1>1, <1>2, <1>6, <2>1, RejectedStep
<1>7. CASE phase' # "rejected"
  <2>1. /\ phase' = "done"
        /\ downsampled' \in SignalsOf(Nat) /\ Paired(downsampled')
        /\ PointsOf(downsampled', source) /\ ZeroBaseline(downsampled')
        /\ get_sample_count(downsampled') = get_sample_count(downsampled) + 1
        /\ \A i \in Indices(downsampled) :
               downsampled'.samples[i + 1] = downsampled.samples[i + 1]
        /\ downsampled'.samples[get_sample_count(downsampled) + 1] = size - 1
    BY <1>1, <1>2, <1>3, <1>5, <1>7, KeepResult
  <2>2. get_sample_count(downsampled') = threshold /\ threshold < size
        /\ downsampled'.samples[threshold] = size - 1
    BY <1>1, <1>2, <2>1
  <2>3. downsampled'.samples[1] = 0
    <3>1. 0 \in 0..dst /\ 0 + 1 = 1
      BY <1>2
    <3>2. QED
      BY <1>2, <2>1, <3>1
  <2>4. size' = size
    BY <1>1 DEF size
  <2>5. Kept' /\ AsManyAsAsked'
    BY <1>1, <2>1, <2>2, <2>3, <2>4 DEF Kept, AsManyAsAsked
  <2>6. threshold' \in Nat /\ dst' \in Nat
    BY <1>1, <1>2
  <2>7. QED
    BY <1>1, <2>1, <2>5, <2>6, PointsStep
<1>8. QED
  BY <1>6, <1>7

LEMMA FinishStep ==
    ASSUME IInv, Finish
    PROVE  IInv'
<1>1. (TypeOK /\ TimesArePaired)'
  BY NewSignalFacts DEF IInv, Finish, TypeOK, TimesArePaired
<1>2. (Numbered /\ SteadyOK)'
  BY NewSignalFacts, EmptySignal DEF IInv, Finish, Numbered, SteadyOK
<1>3. QED
  BY <1>1, <1>2 DEF Finish, IInv, Fresh, Kept, Loaded, PointsAreSamples, AsManyAsAsked,
                    FailsOnlyOnDisorder, SavedSignalLoads

LEMMA DownsampleStep == IInv /\ Downsample => IInv'
  BY CopySignalStep, FirstPointStep, KeepOfBucketStep, LastPointStep, FinishStep DEF Downsample

------------------------------------------------------------------------------
(* The steps of saving and loading *)

\* One more sample of the file, at the time it was saved with.
LEMMA LoadSample ==
    ASSUME IInv, LoadingSample, phase' = "load",
           NEW time, time = TimeOf(get_sample_count(target)),
           Accepted(target, time),
           target' \in SignalsOf(Nat),
           Extends(target', target, get_sample_count(target), time)
    PROVE  IInv'
<1> DEFINE n == get_sample_count(target)
<1>1. /\ phase = "load" /\ n < size /\ UNCHANGED <<source, downsampled, threshold, dst>>
      /\ source \in SignalsOf(Nat) /\ target \in SignalsOf(Nat) /\ Paired(target)
      /\ Paired(source) /\ NumberedSignal(target) /\ Steady(target)
      /\ n \in Nat /\ size \in Nat
  BY SignalParts DEF LoadingSample, IInv, TypeOK, TimesArePaired, Numbered, SteadyOK, size
<1>2. n \in Indices(source)
  BY <1>1 DEF Indices, size
<1>3. time \in Int
  BY <1>1, <1>2, TimeType DEF TimeOf
<1>4. Paired(target') /\ NumberedSignal(target') /\ Steady(target')
  BY <1>1, <1>3, NumberedExtends, ExtendsSteady DEF Extends
<1>5. (TypeOK /\ TimesArePaired /\ Numbered /\ SteadyOK)'
  BY <1>1, <1>4 DEF IInv, TypeOK, TimesArePaired, Numbered, NumberedSignal, SteadyOK
<1>6. get_sample_count(target') = n + 1 /\ n + 1 <= size /\ size' = size
  BY <1>1 DEF Extends, size
<1>7. Loaded'
  BY <1>1, <1>6 DEF IInv, Loaded, Extends
<1>8. SavedSignalLoads'
  <2> SUFFICES ASSUME NEW i \in Indices(target')
               PROVE  target'.samples[i + 1] = i
                      /\ get_time_at_index(target', i) = get_time_at_index(source, i)
    BY <1>1 DEF SavedSignalLoads, TimeOf
  <2>1. i \in Indices(target) \/ i = n
    BY <1>1, <1>6 DEF Indices
  <2>2. CASE i \in Indices(target)
    BY <1>1, <2>2 DEF IInv, SavedSignalLoads, Extends, TimeOf
  <2>3. CASE i = n
    BY <2>3 DEF Extends, TimeOf
  <2>4. QED
    BY <2>1, <2>2, <2>3
<1>9. QED
  BY <1>1, <1>5, <1>7, <1>8
     DEF IInv, Fresh, Kept, PointsAreSamples, AsManyAsAsked, FailsOnlyOnDisorder

LEMMA LoadUniformSampleStep ==
    ASSUME IInv, LoadUniformSample
    PROVE  IInv'
<1> DEFINE n == get_sample_count(target)
<1>1. /\ phase = "load" /\ phase' = "load" /\ LoadingSample /\ is_uniformly_sampled(source)
      /\ target' = EmplaceAmplitude(target, n)
      /\ target \in SignalsOf(Nat) /\ Paired(target) /\ n \in Nat
  BY SignalParts DEF LoadUniformSample, LoadingSample, IInv, TypeOK, TimesArePaired
<1>2. target' \in SignalsOf(Nat) /\ Extends(target', target, n, BaselineTime(target, n))
  BY <1>1, EmplaceAmplitudeExtends
<1>3. BaselineTime(target, n) = TimeOf(n)
  BY <1>1, SameBaseline DEF IInv, Loaded, TimeOf, get_time_at_index
<1>4. Accepted(target, TimeOf(n))
  BY <1>3 DEF Accepted
<1>5. QED
  BY <1>1, <1>2, <1>3, <1>4, LoadSample

\* The time of a sample that was accepted once is accepted again, because the
\* baseline and the time of the sample before are the same.
LEMMA LoadVariableSampleStep ==
    ASSUME IInv, LoadVariableSample
    PROVE  IInv'
<1> DEFINE n == get_sample_count(target)
<1>1. /\ phase = "load" /\ LoadingSample /\ n < size
      /\ target \in SignalsOf(Nat) /\ Paired(target) /\ Steady(source)
      /\ source \in SignalsOf(Nat) /\ Paired(source) /\ n \in Nat /\ size \in Nat
  BY SignalParts
     DEF LoadVariableSample, LoadingSample, IInv, TypeOK, TimesArePaired, SteadyOK, size
<1>2. n \in Indices(source) /\ (n # 0 => n - 1 \in Indices(target) /\ n - 1 \in Indices(source))
  BY <1>1 DEF Indices, size
<1>3. BaselineTime(target, n) = BaselineTime(source, n)
  BY <1>1, SameBaseline DEF IInv, Loaded
<1>4. n # 0 => get_time_at_index(target, n - 1) = TimeOf(n - 1)
  BY <1>1, <1>2 DEF IInv, SavedSignalLoads
<1>5. TimeOf(n) \in Int
  BY <1>1, <1>2, TimeType DEF TimeOf
<1>6. Accepted(target, TimeOf(n))
  <2>1. CASE TimeOf(n) = BaselineTime(source, n)
    BY <1>3, <2>1 DEF Accepted
  <2>2. CASE TimeOf(n) # BaselineTime(source, n)
    <3>1. ~IsExpected(target, TimeOf(n))
      BY <1>2, <1>1, <1>3, <2>2 DEF Steady, TimeOf, IsExpected
    <3>2. ~RejectsTime(target, TimeOf(n))
      <4> SUFFICES ASSUME n # 0
                   PROVE  After(TimeOf(n), get_time_at_index(target, n - 1))
        BY <1>1 DEF RejectsTime
      <4>1. After(TimeOf(n), TimeOf(n - 1))
        BY <1>1, <1>2, <2>2 DEF Steady, TimeOf
      <4>2. QED
        BY <1>4, <4>1
    <3>3. QED
      BY <3>1, <3>2 DEF Accepted
  <2>3. QED
    BY <2>1, <2>2
<1>7. ~RejectsTime(target, TimeOf(n)) /\ Recorded(target, TimeOf(n)) = TimeOf(n)
  BY <1>1, <1>6, AcceptedIsRecorded
<1>8. phase' = "load" /\ target' = EmplaceTimed(target, TimeOf(n), n)
  BY <1>1, <1>7 DEF LoadVariableSample, SavedTime, TimeOf
<1>9. target' \in SignalsOf(Nat) /\ Extends(target', target, n, TimeOf(n))
  <2>1. /\ target' \in SignalsOf(Nat)
        /\ Extends(target', target, n, Recorded(target, TimeOf(n)))
    <3> DEFINE time == TimeOf(n)
    <3>1. target' = EmplaceTimed(target, time, n) /\ time \in Int
      BY <1>5, <1>8
    <3> HIDE DEF time
    <3>2. target' \in SignalsOf(Nat) /\ Extends(target', target, n, Recorded(target, time))
      BY <1>1, <3>1, EmplaceTimedExtends
    <3>3. QED
      BY <3>2 DEF time
  <2>2. QED
    BY <1>7, <2>1, Zenon
<1>10. QED
  BY <1>1, <1>6, <1>8, <1>9, LoadSample

LEMMA SaveSignalStep ==
    ASSUME IInv, SaveSignal
    PROVE  IInv'
<1>1. /\ phase = "taken" /\ phase' = "load" /\ UNCHANGED <<source, downsampled, threshold, dst>>
      /\ source \in SignalsOf(Nat) /\ size \in Nat /\ size' = size
  BY SignalParts DEF SaveSignal, IInv, TypeOK, size
<1>2. target' = [source EXCEPT !.samples = <<>>, !.time_offsets = <<>>]
  BY DEF SaveSignal
<1>3. <<>> \in Seq(Nat) /\ <<>> \in Seq(Int)
  OBVIOUS
<1>4. /\ target' \in SignalsOf(Nat) /\ target'.samples = <<>> /\ target'.time_offsets = <<>>
      /\ target'.time_offset = source.time_offset
      /\ target'.sample_rate_r = source.sample_rate_r
  BY <1>1, <1>2, <1>3 DEF SignalsOf
<1>5. Paired(target') /\ get_sample_count(target') = 0 /\ Indices(target') = {}
  BY <1>4 DEF Paired, is_uniformly_sampled, get_sample_count, Indices
<1>6. (TypeOK /\ TimesArePaired)'
  BY <1>1, <1>4, <1>5 DEF IInv, TypeOK, TimesArePaired
<1>7. (Numbered /\ SteadyOK)'
  BY <1>1, <1>5, EmptySignal DEF IInv, Numbered, NumberedSignal, SteadyOK
<1>8. Loaded' /\ SavedSignalLoads'
  BY <1>1, <1>4, <1>5 DEF Loaded, SavedSignalLoads
<1>9. QED
  BY <1>1, <1>6, <1>7, <1>8
     DEF IInv, Fresh, Kept, PointsAreSamples, AsManyAsAsked, FailsOnlyOnDisorder

LEMMA FinishLoadStep ==
    ASSUME IInv, FinishLoad
    PROVE  IInv'
<1>1. (TypeOK /\ TimesArePaired)'
  BY NewSignalFacts DEF IInv, FinishLoad, TypeOK, TimesArePaired
<1>2. (Numbered /\ SteadyOK)'
  BY NewSignalFacts, EmptySignal DEF IInv, FinishLoad, Numbered, SteadyOK
<1>3. QED
  BY <1>1, <1>2 DEF FinishLoad, IInv, Fresh, Kept, Loaded, PointsAreSamples, AsManyAsAsked,
                    FailsOnlyOnDisorder, SavedSignalLoads

LEMMA EmbedStep == IInv /\ Embed => IInv'
  BY SaveSignalStep, LoadUniformSampleStep, LoadVariableSampleStep, FinishLoadStep DEF Embed

LEMMA NextIInv == IInv /\ [Next]_vars => IInv'
<1> SUFFICES ASSUME IInv, [Next]_vars PROVE IInv'
  OBVIOUS
<1>1. CASE UNCHANGED vars
  <2>1. (TypeOK /\ TimesArePaired /\ Numbered /\ SteadyOK)'
    BY <1>1 DEF vars, IInv, TypeOK, TimesArePaired, Numbered, NumberedSignal, SteadyOK
  <2>2. (Fresh /\ Kept /\ Loaded)'
    BY <1>1 DEF vars, IInv, Fresh, Kept, Loaded, size, bucket_size
  <2>3. (PointsAreSamples /\ AsManyAsAsked /\ FailsOnlyOnDisorder /\ SavedSignalLoads)'
    BY <1>1 DEF vars, IInv, PointsAreSamples, AsManyAsAsked, FailsOnlyOnDisorder,
                SavedSignalLoads, TimesKept, TimeOf, size
  <2>4. QED
    BY <2>1, <2>2, <2>3 DEF IInv
<1>2. CASE Next
  BY <1>2, BuildStep, DownsampleStep, EmbedStep DEF Next
<1>3. QED
  BY <1>1, <1>2

\* The types, and everything else that a step relies on.
THEOREM Invariance == Spec => []IInv
  BY InitIInv, NextIInv, PTL DEF Spec

\* The types of the factory and of the signals that it builds, downsamples and loads
\* (TypeOK), for any samples and times.
THEOREM TypeCorrect == Spec => []TypeOK
<1>1. IInv => TypeOK
  BY DEF IInv
<1>2. QED
  BY <1>1, Invariance, PTL

------------------------------------------------------------------------------

\* Every signal that Signal::emplace_time and its callers build has a time for
\* each sample, for any number of samples and any times, but for one that is to be
\* destroyed because its last sample was rejected.
THEOREM TimesArePairedHolds == Spec => []TimesArePaired
<1>1. IInv => TimesArePaired
  BY DEF IInv
<1>2. QED
  BY <1>1, Invariance, PTL

\* lttb_downsample keeps samples of the source, in order and at their times, up to the
\* tolerance of emplace_time at zero.
THEOREM PointsAreSamplesHolds == Spec => []PointsAreSamples
<1>1. IInv => PointsAreSamples
  BY DEF IInv
<1>2. QED
  BY <1>1, Invariance, PTL

\* lttb_downsample keeps the first and the last sample and as many as asked for.
THEOREM AsManyAsAskedHolds == Spec => []AsManyAsAsked
<1>1. IInv => AsManyAsAsked
  BY DEF IInv
<1>2. QED
  BY <1>1, Invariance, PTL

\* lttb_downsample fails only for a source two of whose times, as they are computed and
\* rounded, are out of order or not farther apart than the tolerance of emplace_time; so
\* are those of any recording that is long enough for its sampling rate.
THEOREM FailsOnlyOnDisorderHolds == Spec => []FailsOnlyOnDisorder
<1>1. IInv => FailsOnlyOnDisorder
  BY DEF IInv
<1>2. QED
  BY <1>1, Invariance, PTL

\* A signal whose samples JSONSerialiser wrote is read back by JSONDeserialiser.
THEOREM SavedSignalLoadsHolds == Spec => []SavedSignalLoads
<1>1. IInv => SavedSignalLoads
  BY DEF IInv
<1>2. QED
  BY <1>1, Invariance, PTL

\* The loop of lttb_downsample divides by no zero and reads within the source,
\* and its buckets are disjoint and as large as intended.
THEOREM BucketsAreSoundHolds == Spec => []BucketsAreSound
<1>1. ASSUME IInv, phase = "buckets", threshold > 2 PROVE BucketsAreSound
  <2>1. size \in Nat /\ threshold \in 3..(size - 1)
    BY <1>1, SignalParts DEF IInv, TypeOK, Kept, size
  <2>2. bucket_size \in Nat \ {0}
        /\ (size - 2) - (threshold - 2) * bucket_size < threshold - 2
    BY <2>1, BucketSize
  <2>3. ASSUME NEW d \in 0..(threshold - 3)
        PROVE  /\ Bucket(d) # {} /\ Bucket(d) \subseteq 1..(size - 2)
               /\ AverageRange(d) # {} /\ AverageRange(d) \subseteq 1..(size - 1)
               /\ Cardinality(Bucket(d)) = bucket_size
               /\ \A e \in 0..(d - 1) : Bucket(d) \cap Bucket(e) = {}
    <3> DEFINE p == d * bucket_size
               q == (d + 1) * bucket_size
               r == (d + 2) * bucket_size
    <3>1. /\ Bucket(d) = (p + 1)..(p + bucket_size) /\ p \in Nat
          /\ p + bucket_size <= size - 2 /\ q = p + bucket_size
      BY <2>1, <2>3, BucketRange
    <3>2. AverageRange(d) = (q + 1)..(IF r < size - 1 THEN r ELSE size - 1)
      BY DEF AverageRange
    <3>3. r = p + bucket_size + bucket_size
      <4>1. d \in Nat /\ bucket_size \in Nat
        BY <2>2
      <4> HIDE DEF bucket_size
      <4>2. (d + 2) * bucket_size = d * bucket_size + bucket_size + bucket_size
        BY ONLY <4>1
      <4>3. QED
        BY <4>2
    <3>4. \A e \in 0..(d - 1) : Bucket(d) \cap Bucket(e) = {}
      <4> SUFFICES ASSUME NEW e \in 0..(d - 1) PROVE Bucket(d) \cap Bucket(e) = {}
        OBVIOUS
      <4> DEFINE o == e * bucket_size
      <4>1. e \in 0..(threshold - 3) /\ e \in Nat /\ d \in Nat /\ e < d
        BY <2>1, <2>3
      <4>2. Bucket(e) = (o + 1)..(o + bucket_size) /\ o \in Nat
            /\ (e + 1) * bucket_size = o + bucket_size
        BY <2>1, <4>1, BucketRange
      <4>3. (e + 1) * bucket_size <= p
        BY <2>2, <4>1, Multiples
      <4>4. o + bucket_size <= p
        BY <4>2, <4>3, Zenon
      <4> HIDE DEF o, p
      <4>5. QED
        BY <2>2, <3>1, <4>2, <4>4
    <3> HIDE DEF p, q, r
    <3>5. p + 1 \in (p + 1)..(p + bucket_size)
      BY <2>2, <3>1
    <3>6. (p + 1)..(p + bucket_size) \subseteq 1..(size - 2)
      BY <2>1, <2>2, <3>1
    <3>7. q + 1 \in (q + 1)..(IF r < size - 1 THEN r ELSE size - 1)
      BY <2>1, <2>2, <3>1, <3>3
    <3>8. (q + 1)..(IF r < size - 1 THEN r ELSE size - 1) \subseteq 1..(size - 1)
      BY <2>1, <2>2, <3>1, <3>3
    <3>9. Cardinality((p + 1)..(p + bucket_size)) = bucket_size
      <4>1. p + 1 \in Int /\ p + bucket_size \in Int /\ p + 1 <= p + bucket_size
        BY <2>2, <3>1
      <4>2. Cardinality((p + 1)..(p + bucket_size)) = (p + bucket_size) - (p + 1) + 1
        BY <2>2, <3>1, <4>1, FS_Interval
      <4>3. QED
        BY <2>2, <3>1, <4>2
    <3>10. QED
      BY <3>1, <3>2, <3>4, <3>5, <3>6, <3>7, <3>8, <3>9
  <2>4. QED
    BY <2>2, <2>3 DEF BucketsAreSound
<1>2. IInv => BucketsAreSound
  BY <1>1 DEF BucketsAreSound
<1>3. QED
  BY <1>2, Invariance, PTL
==============================================================================
