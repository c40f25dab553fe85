--------------------------- MODULE SignalDFTPanel ---------------------------
(***************************************************************************)
(* src/panels/SignalDFTPanel.cpp: a cache of spectra that is filled by the *)
(* computation thread and looked into by every frame.                      *)
(*                                                                         *)
(* The panel is drawn, receives spectra and is told of a new project on    *)
(* the main thread; what interleaves with it is the computation.  In the   *)
(* meantime the user selects another window or size, resets the cache, and *)
(* projects come and go.                                                   *)
(*                                                                         *)
(* A spectrum is known by its key.  A bounding box is a union over         *)
(* spectra, so it is represented by the set of those it was extended by;   *)
(* the logarithmic scale leaves out the first bin, so that a spectrum      *)
(* counts differently on the two scales.                                   *)
(***************************************************************************)
EXTENDS PlottedSignals

CONSTANTS SizeLog,       \* log2 of the samples of a signal, rounded down, less 7;
                         \* negative when it is shorter than the smallest transform
          Uniform,       \* the signals that are uniformly sampled
          Windows,       \* window functions
          Constant,      \* the one selected at first
          MaxResets,     \* bound: how often the user resets the cache
          MaxUnderWay    \* bound: tasks and results under way before the next request

Sizes == {0} \cup UNION {0..SizeLog[s] : s \in Signals}

ASSUME SizeAssumption == SizeLog \in [Signals -> Int]
ASSUME ResetsAssumption == MaxResets \in Nat
ASSUME SelectionAssumption == Constant \in Windows /\ Uniform \subseteq Signals

VARIABLES spectra_cache,      \* for every key: "absent", "pending" or "success"
          selected_window,
          selected_size,      \* selected_size_log less default_size_log
          use_log_scale,
          available_sizes,    \* the length of that vector
          spectrum_bounds,    \* the spectra it contains
          viewport_bounds,    \* the spectra it was last fitted to
          tasks, results,     \* DFTTasks and DFTResults under way, oldest first
          failed,             \* history: the pending keys that had a task fail
          resets              \* how often the cache was reset

selection == <<selected_window, selected_size, use_log_scale, available_sizes>>
bounds == <<spectrum_bounds, viewport_bounds>>
history == <<failed, resets>>
vars == <<project, spectra_cache, selection, bounds, tasks, results, history>>

Keys == [signal : Signals, window : Windows, size : Sizes]

TypeOK ==
    /\ ProjectTypeOK
    /\ spectra_cache \in [Keys -> {"absent", "pending", "success"}]
    /\ selected_window \in Windows
    /\ selected_size \in Sizes
    /\ use_log_scale \in BOOLEAN
    /\ available_sizes \in {n + 1 : n \in Sizes}
    /\ spectrum_bounds \subseteq Keys \X BOOLEAN
    /\ viewport_bounds \subseteq Keys \X BOOLEAN
    /\ tasks \in Seq(Keys)
    /\ results \in Seq(Keys)
    /\ failed \subseteq Keys
    /\ resets \in 0..MaxResets

EmptyCache == [k \in Keys |-> "absent"]

Init ==
    /\ InitProject
    /\ spectra_cache = EmptyCache
    /\ selected_window = Constant
    /\ selected_size = 0
    /\ use_log_scale = FALSE
    /\ available_sizes = 1
    /\ spectrum_bounds = {} /\ viewport_bounds = {}
    /\ tasks = <<>> /\ results = <<>>
    /\ failed = {} /\ resets = 0

------------------------------------------------------------------------------
(* Bounds *)

Visible(cache, window, size) ==
    {k \in Keys : cache[k] = "success" /\ k.window = window /\ k.size = size}

\* update_spectrum_bounds() and reset_viewport_bounds(), which every change of
\* what is visible calls one after the other.
Recompute ==
    /\ spectrum_bounds' =
           Visible(spectra_cache', selected_window', selected_size') \X {use_log_scale'}
    /\ viewport_bounds' = spectrum_bounds'

------------------------------------------------------------------------------
(* The main thread, between two draws *)

reset_available_transform_sizes ==
    /\ available_sizes' = 1
    /\ selected_size' = 0

change_active_project(p) ==
    /\ SetActiveProject(p)
    /\ spectra_cache' = EmptyCache
    /\ reset_available_transform_sizes
    /\ failed' = {}
    /\ UNCHANGED <<selected_window, use_log_scale, tasks, results, resets>>
    /\ Recompute

AddSignal(s) ==
    /\ ReceiveSignal(s)
    /\ UNCHANGED <<spectra_cache, selection, bounds, tasks, results, history>>

\* Mutant: a late result is stored although nobody waits for it.
handle_completed_dft_StoresLate ==
    /\ results # <<>>
    /\ results' = Tail(results)
    /\ spectra_cache' = [spectra_cache EXCEPT ![Head(results)] = "success"]
    /\ IF Head(results) \in Visible(spectra_cache', selected_window, selected_size)
       THEN /\ spectrum_bounds' = spectrum_bounds \cup {<<Head(results), use_log_scale>>}
            /\ viewport_bounds' = IF spectrum_bounds = {} THEN spectrum_bounds' ELSE viewport_bounds
       ELSE UNCHANGED bounds
    /\ UNCHANGED <<project, selection, tasks, history>>

\* Mutant: a spectrum that is not visible any more is dropped.
handle_completed_dft_DropsInvisible ==
    LET k == Head(results)
        kept == /\ spectra_cache[k] # "absent"
                /\ k.window = selected_window /\ k.size = selected_size
    IN  /\ results # <<>>
        /\ results' = Tail(results)
        /\ spectra_cache' = [spectra_cache EXCEPT ![k] = IF kept THEN "success" ELSE @]
        /\ IF kept
           THEN /\ spectrum_bounds' = spectrum_bounds \cup {<<k, use_log_scale>>}
                /\ viewport_bounds' =
                       IF spectrum_bounds = {} THEN spectrum_bounds' ELSE viewport_bounds
           ELSE UNCHANGED bounds
        /\ UNCHANGED <<project, selection, tasks, history>>

\* A result that no slot of the cache waits for is dropped.  The first spectrum
\* to become visible also sets the viewport.
handle_completed_dft ==
    /\ results # <<>>
    /\ results' = Tail(results)
    /\ IF spectra_cache[Head(results)] # "absent"
       THEN spectra_cache' = [spectra_cache EXCEPT ![Head(results)] = "success"]
       ELSE UNCHANGED spectra_cache
    /\ IF Head(results) \in Visible(spectra_cache', selected_window, selected_size)
       THEN /\ spectrum_bounds' = spectrum_bounds \cup {<<Head(results), use_log_scale>>}
            /\ viewport_bounds' = IF spectrum_bounds = {} THEN spectrum_bounds' ELSE viewport_bounds
       ELSE UNCHANGED bounds
    /\ UNCHANGED <<project, selection, tasks, history>>

------------------------------------------------------------------------------
(* Drawing.  A draw lists the sizes, offers one interaction at most, and    *)
(* previews every signal.                                                   *)

\* The list of sizes grows to the longest signal and never shrinks.
update_available_sizes ==
    LET lengths == {available_sizes} \cup {SizeLog[s] + 1 : s \in signals}
    IN  /\ available_sizes' \in lengths
        /\ \A n \in lengths : n <= available_sizes'

\* The selection stays within the list.
Bounded == IF selected_size >= available_sizes' THEN available_sizes' - 1 ELSE selected_size

KeyOf(s) == [signal |-> s, window |-> selected_window', size |-> selected_size']

\* get_spectra asks for a spectrum when its slot is neither filled nor pending.
Requests(cache, keys) == {k \in keys : cache[k] = "absent"}

\* Every signal that is uniformly sampled is previewed.
Preview(cache) ==
    LET requested == Requests(cache, {KeyOf(s) : s \in signals \cap Uniform})
    IN  /\ spectra_cache' = [k \in Keys |-> IF k \in requested THEN "pending" ELSE cache[k]]
        /\ requested = {} \/ Len(tasks) + Len(results) < MaxUnderWay
        /\ \E order \in SetToSeqs(requested) : tasks' = tasks \o order

Drawing ==
    /\ signals # {}
    /\ update_available_sizes
    /\ UNCHANGED <<project, results>>

DrawFrame ==
    /\ Drawing
    /\ selected_size' = Bounded
    /\ UNCHANGED <<selected_window, use_log_scale, bounds, failed, resets>>
    /\ Preview(spectra_cache)

\* Mutant: the bounds are not recomputed for the new selection.
SelectWindow_StaleBounds(w) ==
    /\ Drawing
    /\ w # selected_window
    /\ selected_window' = w
    /\ selected_size' = Bounded
    /\ UNCHANGED <<use_log_scale, bounds, failed, resets>>
    /\ Preview(spectra_cache)

SelectWindow(w) ==
    /\ Drawing
    /\ w # selected_window
    /\ selected_window' = w
    /\ selected_size' = Bounded
    /\ UNCHANGED <<use_log_scale, failed, resets>>
    /\ Preview(spectra_cache)
    /\ Recompute

\* Mutant: the combo box lists one size too many.
SelectSize_OneTooMany(n) ==
    /\ Drawing
    /\ n <= available_sizes'
    /\ n # Bounded
    /\ selected_size' = n
    /\ UNCHANGED <<selected_window, use_log_scale, failed, resets>>
    /\ Preview(spectra_cache)
    /\ Recompute

SelectSize(n) ==
    /\ Drawing
    /\ n < available_sizes'
    /\ n # Bounded
    /\ selected_size' = n
    /\ UNCHANGED <<selected_window, use_log_scale, failed, resets>>
    /\ Preview(spectra_cache)
    /\ Recompute

ToggleLogScale ==
    /\ Drawing
    /\ use_log_scale' = ~use_log_scale
    /\ selected_size' = Bounded
    /\ UNCHANGED <<selected_window, failed, resets>>
    /\ Preview(spectra_cache)
    /\ Recompute

ResetViewports ==
    /\ Drawing
    /\ selected_size' = Bounded
    /\ viewport_bounds' = spectrum_bounds
    /\ UNCHANGED <<selected_window, use_log_scale, spectrum_bounds, failed, resets>>
    /\ Preview(spectra_cache)

\* What is under way is forgotten, not cancelled.
ResetCache ==
    /\ Drawing
    /\ resets < MaxResets
    /\ resets' = resets + 1
    /\ failed' = {}
    /\ selected_size' = Bounded
    /\ UNCHANGED <<selected_window, use_log_scale>>
    /\ Preview(EmptyCache)
    /\ Recompute

Draw ==
    \/ DrawFrame
    \/ \E w \in Windows : SelectWindow(w)
    \/ \E n \in Sizes : SelectSize(n)
    \/ ToggleLogScale
    \/ ResetViewports
    \/ ResetCache

------------------------------------------------------------------------------
(* The computation thread *)

\* An exception for a signal that is not uniformly sampled; nothing else is asked
\* of a signal but by an assertion (TransformFits).
create_frequency_spectrum(key) == key.signal \in Uniform

Compute ==
    /\ tasks # <<>>
    /\ create_frequency_spectrum(Head(tasks))
    /\ tasks' = Tail(tasks)
    /\ results' = Append(results, Head(tasks))
    /\ UNCHANGED <<project, spectra_cache, selection, bounds, history>>

\* The ErrorResult goes to the error modal; the panel hears nothing of it.
ComputeFails ==
    /\ tasks # <<>>
    /\ tasks' = Tail(tasks)
    /\ failed' = failed \cup {k \in {Head(tasks)} : spectra_cache[k] = "pending"}
    /\ UNCHANGED <<project, spectra_cache, selection, bounds, results, resets>>

------------------------------------------------------------------------------

Next ==
    \/ \E p \in Projects : change_active_project(p)
    \/ \E s \in Signals : AddSignal(s)
    \/ handle_completed_dft
    \/ Draw
    \/ Compute \/ ComputeFails

Spec == Init /\ [][Next]_vars

------------------------------------------------------------------------------
(* Properties *)

Now == Visible(spectra_cache, selected_window, selected_size)

\* The incrementally maintained bounding box is the union of exactly the
\* spectra that are visible now, on the scale of now, although it is extended
\* by results that were asked for under another selection
\* (SignalDFTPanel.cpp:132-139 and 358-397); and the viewport is never left
\* empty while spectra are visible, nor fitted to what is not visible any more.
BoundsAreOfVisible ==
    /\ spectrum_bounds = Now \X {use_log_scale}
    /\ viewport_bounds \subseteq spectrum_bounds
    /\ viewport_bounds = {} => spectrum_bounds = {}

\* No spectrum of a former project is kept: its late results find no slot.
CacheIsOfActiveProject ==
    \A k \in Keys : spectra_cache[k] # "absent" => k.signal \in signals

\* available_sizes[selected_size_log - default_size_log] exists
\* (SignalDFTPanel.cpp:236).
SelectionIsAvailable == selected_size < available_sizes

\* Once the user leaves the selection and the project alone, what is selected is
\* shown for every signal, unless its task failed.
Settles == <>[][UNCHANGED <<active_project, selected_window, selected_size>>]_vars

SpectrumAppears ==
    Settles =>
        []<>(\A s \in Uniform \cap signals :
                 LET k == [signal |-> s, window |-> selected_window, size |-> selected_size]
                 IN  spectra_cache[k] = "success" \/ k \in failed)

(* What an assertion says of the code and the code does not do *)

\* FrequencySpectrumFactory.cpp:97: "assert(input.size() >= buffers.input_size);"
TransformFits == \A i \in DOMAIN tasks : tasks[i].size <= SizeLog[tasks[i].signal]
==============================================================================
