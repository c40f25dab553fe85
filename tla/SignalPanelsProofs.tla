------------------------- MODULE SignalPanelsProofs -------------------------
(***************************************************************************)
(* The caches of the two panels of signals: that of the spectra, for any   *)
(* projects, signals, lengths and windows and any number of spectra under  *)
(* way, and that of the downsampled signals; and both of them in one       *)
(* program.                                                                *)
(***************************************************************************)
EXTENDS SignalPanels, FiniteSetTheorems, TLAPS

------------------------------------------------------------------------------
(* SignalDFTPanel *)

\* The types the argument needs.  Nothing is said of tasks and results: a result
\* that belongs to no slot changes nothing, whatever it is.
CacheOK ==
    /\ signals \subseteq Signals
    /\ spectra_cache \in [Keys -> {"absent", "pending", "success"}]
    /\ selected_size \in Int
    /\ available_sizes \in Nat \ {0}

IInv == CacheOK /\ CacheIsOfActiveProject /\ SelectionIsAvailable /\ BoundsAreOfVisible

LEMMA EmptyCacheFacts ==
    /\ EmptyCache \in [Keys -> {"absent", "pending", "success"}]
    /\ \A k \in Keys : EmptyCache[k] = "absent"
  BY DEF EmptyCache

LEMMA InitIInv == Init => IInv
<1> SUFFICES ASSUME Init PROVE IInv
  OBVIOUS
<1>1. CacheOK /\ CacheIsOfActiveProject /\ SelectionIsAvailable
  BY EmptyCacheFacts DEF Init, InitProject, CacheOK, CacheIsOfActiveProject, SelectionIsAvailable
<1>2. Visible(spectra_cache, selected_window, selected_size) = {}
  BY EmptyCacheFacts DEF Init, InitProject, Visible
<1>3. BoundsAreOfVisible
  BY <1>2 DEF Init, InitProject, BoundsAreOfVisible, Now
<1>4. QED
  BY <1>1, <1>3 DEF IInv

\* Whoever recomputes the bounds need not care what they were before.
LEMMA RecomputeFits == Recompute => BoundsAreOfVisible'
  BY DEF Recompute, BoundsAreOfVisible, Now, Visible

\* The visible spectra depend on the filled slots and on the selection alone.
LEMMA SameBounds ==
    ASSUME BoundsAreOfVisible, UNCHANGED <<selected_window, selected_size, use_log_scale>>,
           spectrum_bounds' = spectrum_bounds, viewport_bounds' \in {viewport_bounds, spectrum_bounds},
           \A k \in Keys : spectra_cache'[k] = "success" <=> spectra_cache[k] = "success"
    PROVE  BoundsAreOfVisible'
<1>1. Now' = Now
  BY DEF Now, Visible
<1>2. QED
  BY <1>1 DEF BoundsAreOfVisible

LEMMA ChangeProjectStep ==
    ASSUME IInv, NEW p \in Projects, change_active_project(p)
    PROVE  IInv'
<1>1. CacheOK' /\ CacheIsOfActiveProject' /\ SelectionIsAvailable'
  BY EmptyCacheFacts
     DEF change_active_project, SetActiveProject, reset_available_transform_sizes, CacheOK,
         CacheIsOfActiveProject, SelectionIsAvailable, Signals
<1>2. QED
  BY <1>1, RecomputeFits DEF change_active_project, SetActiveProject, IInv

LEMMA AddSignalStep ==
    ASSUME IInv, NEW s \in Signals, AddSignal(s)
    PROVE  IInv'
<1>1. CacheOK' /\ CacheIsOfActiveProject' /\ SelectionIsAvailable'
  BY DEF IInv, AddSignal, ReceiveSignal, CacheOK, CacheIsOfActiveProject, SelectionIsAvailable, selection
<1>2. BoundsAreOfVisible'
  BY SameBounds DEF IInv, AddSignal, ReceiveSignal, selection, bounds
<1>3. QED
  BY <1>1, <1>2 DEF IInv

LEMMA CompletedStep ==
    ASSUME IInv, handle_completed_dft
    PROVE  IInv'
<1> DEFINE k == Head(results)
<1>1. /\ UNCHANGED <<signals, selected_window, selected_size, use_log_scale, available_sizes>>
      /\ spectra_cache' = IF spectra_cache[k] # "absent"
                          THEN [spectra_cache EXCEPT ![k] = "success"] ELSE spectra_cache
      /\ spectra_cache \in [Keys -> {"absent", "pending", "success"}]
  BY DEF handle_completed_dft, project, selection, IInv, CacheOK
<1>2. /\ spectra_cache' \in [Keys -> {"absent", "pending", "success"}]
      /\ \A l \in Keys : l # k => spectra_cache'[l] = spectra_cache[l]
      /\ \A l \in Keys : spectra_cache[l] = "absent" => spectra_cache'[l] = "absent"
      /\ \A l \in Keys : spectra_cache[l] = "success" => spectra_cache'[l] = "success"
  BY <1>1
<1>3. CacheOK' /\ CacheIsOfActiveProject' /\ SelectionIsAvailable'
  BY <1>1, <1>2 DEF IInv, CacheOK, CacheIsOfActiveProject, SelectionIsAvailable
<1>4. BoundsAreOfVisible'
  <2> DEFINE now == Visible(spectra_cache', selected_window, selected_size)
  <2>1. Now' = now
    BY <1>1 DEF Now, Visible
  <2>2. CASE k \in now
    <3>1. /\ spectrum_bounds' = spectrum_bounds \cup {<<k, use_log_scale>>}
          /\ viewport_bounds' = IF spectrum_bounds = {} THEN spectrum_bounds'
                                                        ELSE viewport_bounds
      BY <2>2 DEF handle_completed_dft
    <3>2. now = Now \cup {k}
      BY <1>2, <2>2 DEF Now, Visible
    <3> HIDE DEF now, k
    <3>3. spectrum_bounds = Now \X {use_log_scale} /\ viewport_bounds \subseteq spectrum_bounds
          /\ (viewport_bounds = {} => spectrum_bounds = {})
      BY DEF IInv, BoundsAreOfVisible
    <3>4. spectrum_bounds' = now \X {use_log_scale}
      BY <3>1, <3>2, <3>3
    <3>5. viewport_bounds' \subseteq spectrum_bounds' /\ viewport_bounds' # {}
      BY <3>1, <3>3
    <3>6. QED
      BY <1>1, <2>1, <3>4, <3>5 DEF BoundsAreOfVisible
  <2>3. CASE k \notin now
    <3>1. UNCHANGED bounds
      BY <2>3 DEF handle_completed_dft
    <3>2. now = Now
      BY <1>2, <2>3 DEF Now, Visible
    <3>3. QED
      BY <1>1, <2>1, <3>1, <3>2 DEF IInv, BoundsAreOfVisible, bounds
  <2>4. QED
    BY <2>2, <2>3
<1>5. QED
  BY <1>3, <1>4 DEF IInv

LEMMA ComputeStep ==
    ASSUME IInv, Compute \/ ComputeFails
    PROVE  IInv'
<1>1. UNCHANGED <<signals, spectra_cache, selection, bounds>>
  BY DEF project, Compute, ComputeFails
<1>2. CacheOK' /\ CacheIsOfActiveProject' /\ SelectionIsAvailable'
  BY <1>1 DEF IInv, CacheOK, CacheIsOfActiveProject, SelectionIsAvailable, selection
<1>3. BoundsAreOfVisible'
  BY <1>1, SameBounds DEF IInv, selection, bounds
<1>4. QED
  BY <1>2, <1>3 DEF IInv

------------------------------------------------------------------------------
(* Drawing *)

\* A draw leaves the selection where it is, because the list never shrinks.
LEMMA SizesGrow ==
    ASSUME IInv, Drawing
    PROVE  /\ available_sizes' \in Nat \ {0}
           /\ available_sizes' >= available_sizes
           /\ Bounded = selected_size
<1>1. \A s \in signals : SizeLog[s] + 1 \in Int
  BY SizeAssumption DEF IInv, CacheOK
<1>2. available_sizes' \in Int /\ available_sizes <= available_sizes'
  BY <1>1 DEF Drawing, update_available_sizes, IInv, CacheOK
<1>3. available_sizes' \in Nat \ {0} /\ available_sizes' >= available_sizes
  BY <1>2 DEF IInv, CacheOK
<1>4. ~(selected_size >= available_sizes')
  BY <1>3 DEF IInv, CacheOK, SelectionIsAvailable
<1>5. QED
  BY <1>3, <1>4 DEF Bounded

\* What a preview adds to a cache is pending, and asked for by the signals there are.
LEMMA PreviewFacts ==
    ASSUME NEW cache \in [Keys -> {"absent", "pending", "success"}], Preview(cache)
    PROVE  /\ spectra_cache' \in [Keys -> {"absent", "pending", "success"}]
           /\ \A k \in Keys :
                  \/ spectra_cache'[k] = cache[k]
                  \/ /\ cache[k] = "absent" /\ spectra_cache'[k] = "pending"
                     /\ k.signal \in signals
<1> DEFINE requested == Requests(cache, {KeyOf(s) : s \in signals \cap Uniform})
<1>1. spectra_cache' = [k \in Keys |-> IF k \in requested THEN "pending" ELSE cache[k]]
  BY DEF Preview
<1>2. \A k \in requested : cache[k] = "absent" /\ k.signal \in signals
  BY DEF Requests, KeyOf
<1> HIDE DEF requested
<1>3. QED
  BY <1>1, <1>2

\* The part of the invariant that no draw has to care about.
LEMMA DrawCache ==
    ASSUME IInv, Drawing, selected_size' \in Int, selected_size' < available_sizes',
           NEW cache \in [Keys -> {"absent", "pending", "success"}], Preview(cache),
           \A k \in Keys : cache[k] \in {"absent", spectra_cache[k]}
    PROVE  CacheOK' /\ CacheIsOfActiveProject' /\ SelectionIsAvailable'
<1>1. signals' = signals /\ available_sizes' \in Nat \ {0}
  BY SizesGrow DEF Drawing, project
<1>2. CacheOK'
  BY <1>1, PreviewFacts DEF IInv, CacheOK
<1>3. CacheIsOfActiveProject'
  BY <1>1, PreviewFacts DEF IInv, CacheIsOfActiveProject
<1>4. QED
  BY <1>2, <1>3 DEF SelectionIsAvailable

LEMMA DrawStep ==
    ASSUME IInv, Draw
    PROVE  IInv'
<1>1. Drawing
  BY DEF Draw, DrawFrame, SelectWindow, SelectSize, ToggleLogScale, ResetViewports, ResetCache
<1>2. /\ Bounded = selected_size /\ selected_size \in Int /\ selected_size < available_sizes
      /\ available_sizes' \in Nat /\ available_sizes \in Nat /\ available_sizes' >= available_sizes
      /\ selected_size < available_sizes'
      /\ spectra_cache \in [Keys -> {"absent", "pending", "success"}]
  BY <1>1, SizesGrow DEF IInv, CacheOK, SelectionIsAvailable
<1>3. CASE DrawFrame \/ ResetViewports
  <2>1. /\ Preview(spectra_cache) /\ selected_size' = selected_size
        /\ UNCHANGED <<selected_window, use_log_scale, spectrum_bounds>>
        /\ viewport_bounds' \in {viewport_bounds, spectrum_bounds}
    BY <1>2, <1>3 DEF DrawFrame, ResetViewports, bounds
  <2>2. \A k \in Keys : spectra_cache'[k] = "success" <=> spectra_cache[k] = "success"
    BY <1>2, <2>1, PreviewFacts
  <2>3. BoundsAreOfVisible'
    BY <2>1, <2>2, SameBounds DEF IInv
  <2>4. CacheOK' /\ CacheIsOfActiveProject' /\ SelectionIsAvailable'
    BY <1>1, <1>2, <2>1, DrawCache
  <2>5. QED
    BY <2>3, <2>4 DEF IInv
<1>4. CASE (\E w \in Windows : SelectWindow(w)) \/ ToggleLogScale
  <2>1. Preview(spectra_cache) /\ selected_size' = selected_size /\ Recompute
    BY <1>2, <1>4 DEF SelectWindow, ToggleLogScale
  <2>2. CacheOK' /\ CacheIsOfActiveProject' /\ SelectionIsAvailable'
    BY <1>1, <1>2, <2>1, DrawCache
  <2>3. QED
    BY <2>1, <2>2, RecomputeFits DEF IInv
<1>5. ASSUME NEW n \in Sizes, SelectSize(n) PROVE IInv'
  <2>1. Preview(spectra_cache) /\ selected_size' = n /\ n < available_sizes' /\ Recompute
    BY <1>5 DEF SelectSize
  <2>2. n \in Int
    BY SizeAssumption DEF Sizes
  <2>3. CacheOK' /\ CacheIsOfActiveProject' /\ SelectionIsAvailable'
    BY <1>1, <1>2, <2>1, <2>2, DrawCache
  <2>4. QED
    BY <2>1, <2>3, RecomputeFits DEF IInv
<1>6. CASE ResetCache
  <2>1. Preview(EmptyCache) /\ selected_size' = selected_size /\ Recompute
    BY <1>2, <1>6 DEF ResetCache
  <2>2. CacheOK' /\ CacheIsOfActiveProject' /\ SelectionIsAvailable'
    BY <1>1, <1>2, <2>1, DrawCache, EmptyCacheFacts
  <2>3. QED
    BY <2>1, <2>2, RecomputeFits DEF IInv
<1>7. QED
  BY <1>3, <1>4, <1>5, <1>6 DEF Draw

LEMMA NextIInv == IInv /\ [Next]_vars => IInv'
<1> SUFFICES ASSUME IInv, [Next]_vars PROVE IInv'
  OBVIOUS
<1>1. CASE UNCHANGED vars
  <2>1. CacheOK' /\ CacheIsOfActiveProject' /\ SelectionIsAvailable'
    BY <1>1 DEF vars, project, selection, IInv, CacheOK, CacheIsOfActiveProject, SelectionIsAvailable
  <2>2. BoundsAreOfVisible'
    BY <1>1, SameBounds DEF vars, project, selection, bounds, IInv
  <2>3. QED
    BY <2>1, <2>2 DEF IInv
<1>2. CASE Next
  BY <1>2, ChangeProjectStep, AddSignalStep, CompletedStep, DrawStep, ComputeStep DEF Next
<1>3. QED
  BY <1>1, <1>2

THEOREM Invariance == Spec => []IInv
  BY InitIInv, NextIInv, PTL DEF Spec

------------------------------------------------------------------------------

\* The bounding box that handle_completed_dft extends spectrum by spectrum is
\* the one that update_spectrum_bounds would compute.
THEOREM BoundsAreOfVisibleHolds == Spec => []BoundsAreOfVisible
<1>1. IInv => BoundsAreOfVisible
  BY DEF IInv
<1>2. QED
  BY <1>1, Invariance, PTL

\* However late the results of a former project are, they find no slot.
THEOREM CacheIsOfActiveProjectHolds == Spec => []CacheIsOfActiveProject
<1>1. IInv => CacheIsOfActiveProject
  BY DEF IInv
<1>2. QED
  BY <1>1, Invariance, PTL

\* The selected size is in the list, because the list shrinks only when the
\* selection is reset (SignalDFTPanel::change_active_project).
THEOREM SelectionIsAvailableHolds == Spec => []SelectionIsAvailable
<1>1. IInv => SelectionIsAvailable
  BY DEF IInv
<1>2. QED
  BY <1>1, Invariance, PTL

------------------------------------------------------------------------------
(* Tasks and results *)

LEMMA AppendFacts ==
    ASSUME NEW S, NEW s \in Seq(S), NEW x \in S
    PROVE  /\ Append(s, x) \in Seq(S)
           /\ ToSet(Append(s, x)) = ToSet(s) \cup {x}
<1>1. /\ Len(s) \in Nat /\ DOMAIN s = 1..Len(s)
      /\ DOMAIN Append(s, x) = 1..(Len(s) + 1)
      /\ \A i \in 1..Len(s) : Append(s, x)[i] = s[i]
      /\ Append(s, x)[Len(s) + 1] = x
  OBVIOUS
<1>2. 1..(Len(s) + 1) = 1..Len(s) \cup {Len(s) + 1}
  BY <1>1
<1>3. QED
  BY <1>1, <1>2 DEF ToSet

LEMMA TailFacts ==
    ASSUME NEW S, NEW s \in Seq(S), s # <<>>
    PROVE  /\ Tail(s) \in Seq(S) /\ Head(s) \in S
           /\ ToSet(s) = {Head(s)} \cup ToSet(Tail(s))
<1>1. /\ Tail(s) \in Seq(S) /\ Head(s) = s[1] /\ s[1] \in S
      /\ Len(s) \in Nat \ {0} /\ DOMAIN s = 1..Len(s)
      /\ DOMAIN Tail(s) = 1..(Len(s) - 1)
      /\ \A i \in 1..(Len(s) - 1) : Tail(s)[i] = s[i + 1]
  OBVIOUS
<1>2. ASSUME NEW i \in 1..Len(s), i # 1
      PROVE  s[i] \in ToSet(Tail(s))
  <2>1. i - 1 \in 1..(Len(s) - 1) /\ (i - 1) + 1 = i
    BY <1>1, <1>2
  <2>2. s[i] = Tail(s)[i - 1]
    BY <1>1, <2>1
  <2>3. QED
    BY <1>1, <2>1, <2>2 DEF ToSet
<1>3. ASSUME NEW i \in 1..(Len(s) - 1)
      PROVE  Tail(s)[i] \in ToSet(s)
  BY <1>1, <1>3 DEF ToSet
<1>4. QED
  BY <1>1, <1>2, <1>3 DEF ToSet

LEMMA ConcatFacts ==
    ASSUME NEW S, NEW s \in Seq(S), NEW t \in Seq(S)
    PROVE  s \o t \in Seq(S) /\ ToSet(s) \cup ToSet(t) \subseteq ToSet(s \o t)
<1>1. /\ s \o t \in Seq(S)
      /\ Len(s) \in Nat /\ DOMAIN s = 1..Len(s) /\ Len(t) \in Nat /\ DOMAIN t = 1..Len(t)
      /\ DOMAIN (s \o t) = 1..(Len(s) + Len(t))
      /\ \A i \in 1..Len(s) : (s \o t)[i] = s[i]
      /\ \A i \in 1..Len(t) : (s \o t)[Len(s) + i] = t[i]
  OBVIOUS
<1>2. ASSUME NEW i \in 1..Len(s)
      PROVE  s[i] \in ToSet(s \o t)
  <2>1. i \in 1..(Len(s) + Len(t))
    BY <1>1
  <2>2. QED
    BY <1>1, <2>1 DEF ToSet
<1>3. ASSUME NEW i \in 1..Len(t)
      PROVE  t[i] \in ToSet(s \o t)
  <2>1. Len(s) + i \in 1..(Len(s) + Len(t))
    BY <1>1
  <2>2. QED
    BY <1>1, <2>1 DEF ToSet
<1>4. QED
  BY <1>1, <1>2, <1>3 DEF ToSet

\* A finite set is asked for in some order, and none of it is left out.
LEMMA OrderFacts ==
    ASSUME NEW S, IsFiniteSet(S), NEW order \in SetToSeqs(S)
    PROVE  order \in Seq(S) /\ S \subseteq ToSet(order)
<1> DEFINE n == Cardinality(S)
<1>1. n \in Nat
  BY FS_CardinalityType
<1>2. order \in [1..n -> S] /\ \A i, j \in 1..n : i # j => order[i] # order[j]
  BY DEF SetToSeqs
<1> HIDE DEF n
<1>3. order \in Injection(1..n, S)
  BY <1>2 DEF Injection, IsInjective
<1>4. IsFiniteSet(1..n) /\ Cardinality(1..n) = n
  BY <1>1, FS_Interval
<1>5. order \in Surjection(1..n, S)
  BY <1>3, <1>4, FS_Injection DEF n
<1>6. order \in Seq(S)
  BY <1>1, <1>2
<1>7. S \subseteq ToSet(order)
  BY <1>2, <1>5 DEF Surjection, ToSet
<1>8. QED
  BY <1>6, <1>7

------------------------------------------------------------------------------
(* What a slot waits for *)

\* A slot that is pending is never forgotten: its task or its result is under
\* way, or it had a task fail, which leaves it pending for good.
PendingIsUnderWay ==
    \A k \in Keys : spectra_cache[k] = "pending" => k \in ToSet(tasks) \cup ToSet(results) \cup failed

TasksOK ==
    /\ active_project \in Projects \cup {NoProject}
    /\ IsFiniteSet(signals)
    /\ selected_window \in Windows
    /\ selected_size \in Sizes
    /\ tasks \in Seq(Keys)
    /\ results \in Seq(Keys)

PendingInv == TasksOK /\ PendingIsUnderWay

LEMMA InitPending == Init => PendingInv
<1> SUFFICES ASSUME Init PROVE PendingInv
  OBVIOUS
<1>1. IsFiniteSet(signals)
  BY FS_EmptySet DEF Init, InitProject
<1>2. TasksOK
  BY <1>1, SelectionAssumption DEF Init, InitProject, TasksOK, SelectionAssumption, Sizes
<1>3. PendingIsUnderWay
  BY EmptyCacheFacts DEF Init, InitProject, PendingIsUnderWay
<1>4. QED
  BY <1>2, <1>3 DEF PendingInv

LEMMA CompletedPending ==
    ASSUME IInv, PendingInv, handle_completed_dft
    PROVE  PendingInv'
<1> DEFINE k == Head(results)
<1>1. /\ UNCHANGED <<active_project, signals, selected_window, selected_size, tasks, failed>>
      /\ results # <<>> /\ results' = Tail(results)
      /\ spectra_cache' = IF spectra_cache[k] # "absent"
                          THEN [spectra_cache EXCEPT ![k] = "success"] ELSE spectra_cache
      /\ spectra_cache \in [Keys -> {"absent", "pending", "success"}]
  BY DEF handle_completed_dft, project, selection, history, IInv, CacheOK
<1>2. /\ Tail(results) \in Seq(Keys) /\ k \in Keys
      /\ ToSet(results) = {k} \cup ToSet(Tail(results))
  BY <1>1, TailFacts DEF PendingInv, TasksOK
<1> HIDE DEF k
<1>3. TasksOK'
  BY <1>1, <1>2 DEF PendingInv, TasksOK
<1>4. ASSUME NEW l \in Keys, spectra_cache'[l] = "pending"
      PROVE  l \in ToSet(tasks) \cup ToSet(Tail(results)) \cup failed
  <2>1. l # k /\ spectra_cache[l] = "pending"
    BY <1>1, <1>2, <1>4
  <2>2. QED
    BY <1>2, <2>1 DEF PendingInv, PendingIsUnderWay
<1>5. PendingIsUnderWay'
  BY <1>1, <1>4 DEF PendingIsUnderWay
<1>6. QED
  BY <1>3, <1>5 DEF PendingInv

LEMMA ComputePending ==
    ASSUME PendingInv, Compute \/ ComputeFails
    PROVE  PendingInv'
<1> DEFINE k == Head(tasks)
<1>1. /\ UNCHANGED <<active_project, signals, spectra_cache, selected_window, selected_size>>
      /\ tasks # <<>> /\ tasks' = Tail(tasks)
  BY DEF project, Compute, ComputeFails, selection
<1>2. /\ Tail(tasks) \in Seq(Keys) /\ k \in Keys
      /\ ToSet(tasks) = {k} \cup ToSet(Tail(tasks))
  BY <1>1, TailFacts DEF PendingInv, TasksOK
<1>3. CASE Compute
  <2>1. results' = Append(results, k) /\ failed' = failed
    BY <1>3 DEF Compute, history
  <2> HIDE DEF k
  <2>2. results' \in Seq(Keys) /\ ToSet(results') = ToSet(results) \cup {k}
    BY <1>2, <2>1, AppendFacts DEF PendingInv, TasksOK
  <2>3. QED
    BY <1>1, <1>2, <2>1, <2>2 DEF PendingInv, TasksOK, PendingIsUnderWay
<1>4. CASE ComputeFails
  <2>1. results' = results /\ failed' = failed \cup {l \in {k} : spectra_cache[l] = "pending"}
    BY <1>4 DEF ComputeFails
  <2> HIDE DEF k
  <2>2. QED
    BY <1>1, <1>2, <2>1 DEF PendingInv, TasksOK, PendingIsUnderWay
<1>5. QED
  BY <1>3, <1>4

\* Every slot that a draw reserves gets a task.
LEMMA PreviewPending ==
    ASSUME PendingInv, NEW cache \in [Keys -> {"absent", "pending", "success"}], Preview(cache),
           selected_window' \in Windows, selected_size' \in Sizes, signals \subseteq Signals,
           UNCHANGED <<active_project, signals, results>>,
           \A k \in Keys : cache[k] = "pending" => spectra_cache[k] = "pending" /\ failed' = failed
    PROVE  PendingInv'
<1> DEFINE asking == signals \cap Uniform
           requested == Requests(cache, {KeyOf(s) : s \in asking})
<1>1. /\ spectra_cache' = [k \in Keys |-> IF k \in requested THEN "pending" ELSE cache[k]]
      /\ \E order \in SetToSeqs(requested) : tasks' = tasks \o order
  BY DEF Preview
<1>2. \A s \in asking : KeyOf(s) \in Keys
  BY DEF KeyOf, Keys
<1>3. requested \subseteq Keys
  BY <1>2 DEF Requests
<1>4. IsFiniteSet(requested)
  <2> DEFINE T == {KeyOf(s) : s \in asking}
             f == [s \in asking |-> KeyOf(s)]
  <2>1. IsFiniteSet(asking)
    BY FS_Subset DEF PendingInv, TasksOK
  <2>2. f \in Surjection(asking, T)
    BY DEF Surjection
  <2>3. IsFiniteSet(T)
    <3> HIDE DEF asking, T, f
    <3>1. QED
      BY <2>1, <2>2, FS_Surjection
  <2>4. requested \subseteq T
    BY DEF Requests
  <2>5. QED
    BY <2>3, <2>4, FS_Subset
<1> HIDE DEF asking, requested
<1>5. PICK order \in SetToSeqs(requested) : tasks' = tasks \o order
  BY <1>1
<1>6. order \in Seq(requested) /\ requested \subseteq ToSet(order)
  BY <1>4, OrderFacts
<1>7. order \in Seq(Keys)
  BY <1>3, <1>6
<1>8. tasks' \in Seq(Keys) /\ ToSet(tasks) \cup requested \subseteq ToSet(tasks')
  BY <1>5, <1>6, <1>7, ConcatFacts DEF PendingInv, TasksOK
<1>9. TasksOK'
  BY <1>8 DEF PendingInv, TasksOK
<1>10. PendingIsUnderWay'
  BY <1>1, <1>8 DEF PendingInv, PendingIsUnderWay
<1>11. QED
  BY <1>9, <1>10 DEF PendingInv

LEMMA DrawPending ==
    ASSUME IInv, PendingInv, Draw
    PROVE  PendingInv'
<1>1. Drawing
  BY DEF Draw, DrawFrame, SelectWindow, SelectSize, ToggleLogScale, ResetViewports, ResetCache
<1>2. /\ Bounded = selected_size /\ selected_size \in Sizes /\ selected_window \in Windows
      /\ signals \subseteq Signals /\ UNCHANGED <<active_project, signals, results>>
      /\ spectra_cache \in [Keys -> {"absent", "pending", "success"}]
  BY <1>1, SizesGrow DEF project, IInv, CacheOK, Drawing, PendingInv, TasksOK
<1>3. selected_window' \in Windows /\ selected_size' \in Sizes
  BY <1>2 DEF Draw, DrawFrame, SelectWindow, SelectSize, ToggleLogScale, ResetViewports, ResetCache
<1>4. CASE ResetCache
  <2>1. Preview(EmptyCache)
    BY <1>4 DEF ResetCache
  <2>2. QED
    BY <1>2, <1>3, <2>1, EmptyCacheFacts, PreviewPending
<1>5. CASE ~ResetCache
  <2>1. Preview(spectra_cache) /\ failed' = failed
    BY <1>5 DEF Draw, DrawFrame, SelectWindow, SelectSize, ToggleLogScale, ResetViewports
  <2>2. QED
    BY <1>2, <1>3, <2>1, PreviewPending
<1>6. QED
  BY <1>4, <1>5

LEMMA NextPending == IInv /\ PendingInv /\ [Next]_vars => PendingInv'
<1> SUFFICES ASSUME IInv, PendingInv, [Next]_vars PROVE PendingInv'
  OBVIOUS
<1>1. ASSUME NEW p \in Projects, change_active_project(p)
      PROVE  PendingInv'
  <2>1. IsFiniteSet(signals')
    BY <1>1, SignalsAssumption, FS_Subset DEF change_active_project, SetActiveProject, SignalsAssumption
  <2>2. TasksOK'
    BY <1>1, <2>1 DEF change_active_project, SetActiveProject, reset_available_transform_sizes,
           PendingInv, TasksOK, Sizes
  <2>3. PendingIsUnderWay'
    BY <1>1, EmptyCacheFacts DEF change_active_project, SetActiveProject, PendingIsUnderWay
  <2>4. QED
    BY <2>2, <2>3 DEF PendingInv
<1>2. ASSUME NEW s \in Signals, AddSignal(s)
      PROVE  PendingInv'
  <2>1. IsFiniteSet(signals')
    BY <1>2, FS_AddElement DEF AddSignal, ReceiveSignal, PendingInv, TasksOK
  <2>2. QED
    BY <1>2, <2>1 DEF AddSignal, ReceiveSignal, selection, history, PendingInv, TasksOK,
           PendingIsUnderWay
<1>3. CASE UNCHANGED vars
  BY <1>3 DEF vars, project, selection, history, PendingInv, TasksOK, PendingIsUnderWay
<1>4. QED
  BY <1>1, <1>2, <1>3, CompletedPending, ComputePending, DrawPending DEF Next

\* What SpectrumAppears rests on, for any projects and any number of tasks under
\* way: get_spectra (SignalDFTPanel.cpp) reserves a slot only for a task that it
\* submits, and no slot loses its task or its result to another selection,
\* another project or an emptied cache.
THEOREM PendingIsUnderWayHolds == Spec => []PendingIsUnderWay
<1>1. PendingInv => PendingIsUnderWay
  BY DEF PendingInv
<1>2. QED
  BY <1>1, InitPending, NextPending, Invariance, PTL DEF Spec

------------------------------------------------------------------------------
(* SignalWaveformPanel *)

\* Whatever is stored is in bounds, also what belongs to no project that is
\* active any more.
WaveformIInv ==
    /\ signals \subseteq Signals
    /\ downsample_cache \in [Signals -> {"absent", "pending", "ready"}]
    /\ \A s \in Signals : downsample_cache[s] = "ready" => s \in bounding_box

LEMMA WaveformInitIInv == WaveformInit => WaveformIInv
  BY DEF WaveformInit, InitProject, NoWaveforms, WaveformIInv

LEMMA WaveformNextIInv == WaveformIInv /\ [WaveformNext]_waveform_vars => WaveformIInv'
<1> SUFFICES ASSUME WaveformIInv, [WaveformNext]_waveform_vars PROVE WaveformIInv'
  OBVIOUS
<1>1. ASSUME NEW p \in Projects, waveform_change_active_project(p)
      PROVE  WaveformIInv'
  <2>1. SignalsOf[p] \subseteq Signals
    BY DEF Signals
  <2>2. QED
    BY <1>1, <2>1 DEF waveform_change_active_project, SetActiveProject, NoWaveforms, WaveformIInv
<1>2. ASSUME NEW s \in Signals, waveform_add_signal(s)
      PROVE  WaveformIInv'
  BY <1>2 DEF waveform_add_signal, ReceiveSignal, WaveformIInv
<1>3. CASE handle_downsampled_result
  <2> DEFINE s == Head(downsample_results)
  <2>1. /\ downsample_cache' = [downsample_cache EXCEPT ![s] = "ready"]
        /\ bounding_box' = bounding_box \cup {s}
        /\ signals' = signals
    BY <1>3 DEF project, handle_downsampled_result
  <2> HIDE DEF s
  <2>2. QED
    BY <2>1 DEF WaveformIInv
<1>4. CASE DrawWaveforms
  <2>1. /\ downsample_cache' = [s \in Signals |-> IF s \in Requested THEN "pending"
                                                   ELSE downsample_cache[s]]
        /\ UNCHANGED <<signals, bounding_box>>
    BY <1>4 DEF project, DrawWaveforms, Reserved
  <2>2. QED
    BY <2>1 DEF WaveformIInv
<1>5. CASE Downsample \/ DownsampleFails \/ UNCHANGED waveform_vars
  BY <1>5 DEF project, Downsample, DownsampleFails, waveform_vars, WaveformIInv
<1>6. QED
  BY <1>1, <1>2, <1>3, <1>4, <1>5 DEF WaveformNext

\* A waveform that can be plotted has extended the bounding box, whether it was
\* asked for by this project or is a late result of another one.
THEOREM PlottableIsInBoundsHolds == WaveformSpec => []PlottableIsInBounds
<1>1. WaveformInit => WaveformIInv
  BY WaveformInitIInv
<1>2. WaveformIInv /\ [WaveformNext]_waveform_vars => WaveformIInv'
  BY WaveformNextIInv
<1>3. WaveformIInv => PlottableIsInBounds
  BY DEF WaveformIInv, PlottableIsInBounds
<1>4. QED
  BY <1>1, <1>2, <1>3, PTL DEF WaveformSpec

\* A slot that is pending has a task or a result under way, or its task failed.
WaveformIsUnderWay ==
    \A s \in Signals :
        downsample_cache[s] = "pending" =>
            s \in ToSet(downsample_tasks) \cup ToSet(downsample_results) \cup downsample_failed

WaveformPending ==
    /\ IsFiniteSet(signals)
    /\ downsample_tasks \in Seq(Signals)
    /\ downsample_results \in Seq(Signals)
    /\ WaveformIsUnderWay

LEMMA WaveformPendingInit == WaveformInit => WaveformPending
  BY FS_EmptySet DEF WaveformInit, InitProject, NoWaveforms, Signals,
         WaveformPending, WaveformIsUnderWay

LEMMA WaveformPendingNext ==
    WaveformIInv /\ WaveformPending /\ [WaveformNext]_waveform_vars => WaveformPending'
<1> SUFFICES ASSUME WaveformIInv, WaveformPending, [WaveformNext]_waveform_vars
             PROVE  WaveformPending'
  OBVIOUS
<1> USE DEF WaveformPending, WaveformIsUnderWay
<1>1. ASSUME NEW p \in Projects, waveform_change_active_project(p)
      PROVE  WaveformPending'
  <2>1. IsFiniteSet(signals')
    BY <1>1, SignalsAssumption, FS_Subset
       DEF waveform_change_active_project, SetActiveProject, SignalsAssumption
  <2>2. QED
    BY <1>1, <2>1 DEF waveform_change_active_project, SetActiveProject, NoWaveforms
<1>2. ASSUME NEW s \in Signals, waveform_add_signal(s)
      PROVE  WaveformPending'
  BY <1>2, FS_AddElement DEF waveform_add_signal, ReceiveSignal
<1>3. CASE handle_downsampled_result
  <2> DEFINE s == Head(downsample_results)
  <2>1. /\ downsample_cache' = [downsample_cache EXCEPT ![s] = "ready"]
        /\ downsample_results # <<>> /\ downsample_results' = Tail(downsample_results)
        /\ UNCHANGED <<signals, downsample_tasks, downsample_failed>>
    BY <1>3 DEF project, handle_downsampled_result
  <2>2. /\ Tail(downsample_results) \in Seq(Signals)
        /\ ToSet(downsample_results) = {s} \cup ToSet(Tail(downsample_results))
    BY <2>1, TailFacts
  <2> HIDE DEF s
  <2>3. ASSUME NEW t \in Signals, downsample_cache'[t] = "pending"
        PROVE  t # s /\ downsample_cache[t] = "pending"
    BY <2>1, <2>3 DEF WaveformIInv
  <2>4. QED
    BY <2>1, <2>2, <2>3
<1>4. CASE DrawWaveforms
  <2> DEFINE requested == Requested
  <2>1. /\ downsample_cache' = [s \in Signals |-> IF s \in requested THEN "pending"
                                                   ELSE downsample_cache[s]]
        /\ \E order \in SetToSeqs(requested) : downsample_tasks' = downsample_tasks \o order
        /\ UNCHANGED <<signals, downsample_results, downsample_failed>>
    BY <1>4 DEF project, DrawWaveforms, Reserved
  <2>2. requested \subseteq Signals /\ IsFiniteSet(requested)
    BY FS_Subset DEF Requested, WaveformIInv
  <2> HIDE DEF requested
  <2>3. PICK order \in SetToSeqs(requested) : downsample_tasks' = downsample_tasks \o order
    BY <2>1
  <2>4. order \in Seq(requested) /\ requested \subseteq ToSet(order)
    BY <2>2, OrderFacts
  <2>5. order \in Seq(Signals)
    BY <2>2, <2>4
  <2>6. /\ downsample_tasks' \in Seq(Signals)
        /\ ToSet(downsample_tasks) \cup requested \subseteq ToSet(downsample_tasks')
    BY <2>3, <2>4, <2>5, ConcatFacts
  <2>7. QED
    BY <2>1, <2>6
<1>5. CASE Downsample
  <2> DEFINE s == Head(downsample_tasks)
  <2>1. /\ downsample_tasks # <<>> /\ downsample_tasks' = Tail(downsample_tasks)
        /\ downsample_results' = Append(downsample_results, s)
        /\ UNCHANGED <<signals, downsample_cache, downsample_failed>>
    BY <1>5 DEF project, Downsample
  <2>2. /\ Tail(downsample_tasks) \in Seq(Signals) /\ s \in Signals
        /\ ToSet(downsample_tasks) = {s} \cup ToSet(Tail(downsample_tasks))
    BY <2>1, TailFacts
  <2> HIDE DEF s
  <2>3. /\ downsample_results' \in Seq(Signals)
        /\ ToSet(downsample_results') = ToSet(downsample_results) \cup {s}
    BY <2>1, <2>2, AppendFacts
  <2>4. QED
    BY <2>1, <2>2, <2>3
<1>6. CASE DownsampleFails
  <2> DEFINE s == Head(downsample_tasks)
  <2>1. /\ downsample_tasks # <<>> /\ downsample_tasks' = Tail(downsample_tasks)
        /\ downsample_failed' = downsample_failed \cup {s}
        /\ UNCHANGED <<signals, downsample_cache, downsample_results>>
    BY <1>6 DEF project, DownsampleFails
  <2>2. /\ Tail(downsample_tasks) \in Seq(Signals) /\ s \in Signals
        /\ ToSet(downsample_tasks) = {s} \cup ToSet(Tail(downsample_tasks))
    BY <2>1, TailFacts
  <2> HIDE DEF s
  <2>3. QED
    BY <2>1, <2>2
<1>7. CASE UNCHANGED waveform_vars
  BY <1>7 DEF waveform_vars, project
<1>8. QED
  BY <1>1, <1>2, <1>3, <1>4, <1>5, <1>6, <1>7 DEF WaveformNext

\* What WaveformAppears rests on: get_downsampled_signal submits a task for every
\* slot that it reserves, and nothing takes the task or its result away.
THEOREM WaveformIsUnderWayHolds == WaveformSpec => []WaveformIsUnderWay
<1>1. WaveformPending => WaveformIsUnderWay
  BY DEF WaveformPending
<1>2. QED
  BY <1>1, WaveformInitIInv, WaveformNextIInv, WaveformPendingInit, WaveformPendingNext, PTL
     DEF WaveformSpec

------------------------------------------------------------------------------
(* Types *)

LEMMA ProjectTypes ==
    ASSUME ProjectTypeOK,
           \/ \E p \in Projects : SetActiveProject(p)
           \/ \E s \in Signals : ReceiveSignal(s)
           \/ UNCHANGED project
    PROVE  ProjectTypeOK'
<1>1. \A p \in Projects : SignalsOf[p] \subseteq Signals
  BY DEF Signals
<1>2. QED
  BY <1>1 DEF ProjectTypeOK, SetActiveProject, ReceiveSignal, project

LEMMA NextProject == [Next]_vars =>
    \/ \E p \in Projects : SetActiveProject(p)
    \/ \E s \in Signals : ReceiveSignal(s)
    \/ UNCHANGED project
  BY DEF vars, Next, change_active_project, AddSignal, handle_completed_dft, Draw, Drawing, DrawFrame,
         SelectWindow, SelectSize, ToggleLogScale, ResetViewports, ResetCache, Compute, ComputeFails

\* The list of sizes has the smallest one and ends with one that fits a signal.
SizesOK ==
    /\ ProjectTypeOK
    /\ use_log_scale \in BOOLEAN
    /\ available_sizes \in {n + 1 : n \in Sizes}
    /\ failed \subseteq Keys
    /\ resets \in 0..MaxResets

LEMMA GrownSizes ==
    ASSUME IInv, SizesOK, Drawing
    PROVE  available_sizes' \in {n + 1 : n \in Sizes}
<1>1. CASE available_sizes' = available_sizes
  BY <1>1 DEF SizesOK
<1>2. CASE available_sizes' # available_sizes
  <2>1. PICK s \in signals : available_sizes' = SizeLog[s] + 1
    BY <1>2 DEF Drawing, update_available_sizes
  <2>2. s \in Signals /\ SizeLog[s] \in Int
    BY SizeAssumption DEF IInv, CacheOK
  <2>3. SizeLog[s] \in 0..SizeLog[s]
    BY <2>1, <2>2, SizesGrow
  <2>4. SizeLog[s] \in Sizes
    BY <2>2, <2>3 DEF Sizes
  <2>5. QED
    BY <2>1, <2>4
<1>3. QED
  BY <1>1, <1>2

LEMMA InitSizes == Init => SizesOK
<1> SUFFICES ASSUME Init PROVE SizesOK
  OBVIOUS
<1>1. 0 \in Sizes /\ 1 = 0 + 1 /\ 0 \in 0..MaxResets
  BY ResetsAssumption DEF Sizes
<1>2. QED
  BY <1>1 DEF Init, InitProject, SizesOK, ProjectTypeOK

LEMMA NextSizes == IInv /\ PendingInv /\ SizesOK /\ [Next]_vars => SizesOK'
<1> SUFFICES ASSUME IInv, PendingInv, SizesOK, [Next]_vars PROVE SizesOK'
  OBVIOUS
<1>1. ProjectTypeOK'
  BY NextProject, ProjectTypes DEF SizesOK
<1>2. CASE \E p \in Projects : change_active_project(p)
  <2>1. 0 \in Sizes /\ 1 = 0 + 1
    BY DEF Sizes
  <2>2. QED
    BY <1>1, <1>2, <2>1 DEF change_active_project, reset_available_transform_sizes, SizesOK
<1>3. CASE Draw
  <2>1. available_sizes' \in {n + 1 : n \in Sizes}
    BY <1>3, GrownSizes DEF Draw, DrawFrame, SelectWindow, SelectSize, ToggleLogScale,
           ResetViewports, ResetCache
  <2>2. use_log_scale' \in BOOLEAN /\ failed' \subseteq Keys
    BY <1>3 DEF Draw, DrawFrame, SelectWindow, SelectSize, ToggleLogScale, ResetViewports,
           ResetCache, SizesOK
  <2>3. \/ resets' = resets
        \/ resets < MaxResets /\ resets' = resets + 1
    BY <1>3 DEF Draw, DrawFrame, SelectWindow, SelectSize, ToggleLogScale, ResetViewports,
           ResetCache
  <2>4. resets' \in 0..MaxResets
    BY <2>3, ResetsAssumption DEF SizesOK
  <2>5. QED
    BY <1>1, <2>1, <2>2, <2>4 DEF SizesOK
<1>4. CASE ComputeFails
  <2>1. Head(tasks) \in Keys
    BY <1>4, TailFacts DEF ComputeFails, PendingInv, TasksOK
  <2>2. QED
    BY <1>1, <1>4, <2>1 DEF ComputeFails, selection, SizesOK
<1>5. CASE (\E s \in Signals : AddSignal(s)) \/ handle_completed_dft \/ Compute \/ UNCHANGED vars
  BY <1>1, <1>5 DEF AddSignal, handle_completed_dft, Compute, vars, selection, history, SizesOK
<1>6. QED
  BY <1>2, <1>3, <1>4, <1>5 DEF Next

\* The sizes on offer are sizes that fit a signal, and the spectra that the bounds
\* and the queues refer to are of a signal, a window and a size that exist.
THEOREM TypeCorrect == Spec => []TypeOK
<1>1. IInv /\ PendingInv /\ SizesOK => TypeOK
  <2> SUFFICES ASSUME IInv, PendingInv, SizesOK PROVE TypeOK
    OBVIOUS
  <2>1. spectrum_bounds \subseteq Keys \X BOOLEAN /\ viewport_bounds \subseteq Keys \X BOOLEAN
    BY DEF IInv, SizesOK, BoundsAreOfVisible, Now, Visible
  <2>2. QED
    BY <2>1 DEF IInv, CacheOK, PendingInv, TasksOK, SizesOK, TypeOK
<1>2. QED
  BY <1>1, Invariance, InitPending, NextPending, InitSizes, NextSizes, PTL DEF Spec

WaveformTypes ==
    /\ ProjectTypeOK
    /\ bounding_box \subseteq Signals
    /\ downsample_failed \subseteq Signals

LEMMA WaveformTypesInit == WaveformInit => WaveformTypes
  BY DEF WaveformInit, InitProject, ProjectTypeOK, WaveformTypes

LEMMA WaveformTypesNext ==
    WaveformPending /\ WaveformTypes /\ [WaveformNext]_waveform_vars => WaveformTypes'
<1> SUFFICES ASSUME WaveformPending, WaveformTypes, [WaveformNext]_waveform_vars
             PROVE  WaveformTypes'
  OBVIOUS
<1>1. ProjectTypeOK'
  BY ProjectTypes
     DEF WaveformTypes, waveform_vars, WaveformNext, waveform_change_active_project,
         waveform_add_signal, handle_downsampled_result, DrawWaveforms, Downsample, DownsampleFails
<1>2. CASE handle_downsampled_result
  <2>1. Head(downsample_results) \in Signals
    BY <1>2, TailFacts DEF handle_downsampled_result, WaveformPending
  <2>2. QED
    BY <1>1, <1>2, <2>1 DEF handle_downsampled_result, WaveformTypes
<1>3. CASE DownsampleFails
  <2>1. Head(downsample_tasks) \in Signals
    BY <1>3, TailFacts DEF DownsampleFails, WaveformPending
  <2>2. QED
    BY <1>1, <1>3, <2>1 DEF DownsampleFails, WaveformTypes
<1>4. CASE ~handle_downsampled_result /\ ~DownsampleFails
  BY <1>1, <1>4
     DEF WaveformTypes, waveform_vars, WaveformNext, waveform_change_active_project,
         waveform_add_signal, DrawWaveforms, Downsample
<1>5. QED
  BY <1>2, <1>3, <1>4

\* The same of the waveforms: what is asked for, stored or in bounds is a signal of
\* a project.
THEOREM WaveformTypeCorrect == WaveformSpec => []WaveformTypeOK
<1>1. WaveformIInv /\ WaveformPending /\ WaveformTypes => WaveformTypeOK
  BY DEF WaveformIInv, WaveformPending, WaveformTypes, WaveformTypeOK
<1>2. QED
  BY <1>1, WaveformInitIInv, WaveformNextIInv, WaveformPendingInit, WaveformPendingNext,
     WaveformTypesInit, WaveformTypesNext, PTL DEF WaveformSpec

------------------------------------------------------------------------------
(* Both panels in one program *)

LEMMA PanelsNextSplits == [PanelsNext]_panels => [Next]_vars /\ [WaveformNext]_waveform_vars
<1> SUFFICES ASSUME [PanelsNext]_panels PROVE [Next]_vars /\ [WaveformNext]_waveform_vars
  OBVIOUS
<1>1. CASE \E p \in Projects : ChangeProject(p)
  BY <1>1 DEF ChangeProject, Next, WaveformNext
<1>2. CASE \E s \in Signals : LoadSignal(s)
  BY <1>2 DEF LoadSignal, Next, WaveformNext
<1>3. CASE Receive
  <2>1. CASE handle_completed_dft /\ UNCHANGED waveforms
    BY <2>1 DEF handle_completed_dft, Next, waveforms, waveform_vars
  <2>2. CASE handle_downsampled_result /\ UNCHANGED spectra
    BY <2>2 DEF handle_downsampled_result, WaveformNext, spectra, vars
  <2>3. QED
    BY <1>3, <2>1, <2>2 DEF Receive
<1>4. CASE Frame
  BY <1>4 DEF Frame, Next, WaveformNext
<1>5. CASE Working
  <2>1. CASE (Compute \/ ComputeFails) /\ UNCHANGED waveforms
    BY <2>1 DEF Compute, ComputeFails, Next, waveforms, waveform_vars
  <2>2. CASE (Downsample \/ DownsampleFails) /\ UNCHANGED spectra
    BY <2>2 DEF Downsample, DownsampleFails, WaveformNext, spectra, vars
  <2>3. QED
    BY <1>5, <2>1, <2>2 DEF Working
<1>6. CASE UNCHANGED panels
  BY <1>6 DEF panels
<1>7. QED
  BY <1>1, <1>2, <1>3, <1>4, <1>5, <1>6 DEF PanelsNext

\* What EchoMap::render and the Worker do with the two panels is, for each of them, what
\* its own module says, so that the theorems above hold in the program.
THEOREM PanelsCompose == PanelsSpec => Spec /\ WaveformSpec
<1>1. PanelsInit => Init /\ WaveformInit
  BY DEF PanelsInit
<1>2. QED
  BY <1>1, PanelsNextSplits, PTL DEF PanelsSpec, Spec, WaveformSpec
==============================================================================
