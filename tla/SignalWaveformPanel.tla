------------------------- MODULE SignalWaveformPanel -------------------------
(***************************************************************************)
(* src/panels/SignalWaveformPanel.cpp: a cache of downsampled signals,     *)
(* filled by the computation thread and looked into by every frame.        *)
(*                                                                         *)
(* Unlike the cache of spectra it takes a result that it did not ask for.  *)
(* The bounding box is the set of the signals it was extended by; what the *)
(* user does to it by panning and zooming is left out.                     *)
(***************************************************************************)
EXTENDS PlottedSignals

VARIABLES downsample_cache,    \* for every signal: "absent", "pending" or "ready"
          bounding_box,        \* the signals it was extended by
          downsample_tasks,    \* DownsampleTasks under way
          downsample_results,  \* DownsampleResults under way
          downsample_failed    \* history: the signals whose task failed

waveform_vars == <<project, downsample_cache, bounding_box, downsample_tasks, downsample_results,
                   downsample_failed>>

WaveformTypeOK ==
    /\ ProjectTypeOK
    /\ downsample_cache \in [Signals -> {"absent", "pending", "ready"}]
    /\ bounding_box \subseteq Signals
    /\ downsample_tasks \in Seq(Signals) /\ downsample_results \in Seq(Signals)
    /\ downsample_failed \subseteq Signals

NoWaveforms == [s \in Signals |-> "absent"]

WaveformInit ==
    /\ InitProject
    /\ downsample_cache = NoWaveforms
    /\ bounding_box = {}
    /\ downsample_tasks = <<>> /\ downsample_results = <<>>
    /\ downsample_failed = {}

waveform_change_active_project(p) ==
    /\ SetActiveProject(p)
    /\ downsample_cache' = NoWaveforms
    /\ bounding_box' = {}
    /\ UNCHANGED <<downsample_tasks, downsample_results, downsample_failed>>

waveform_add_signal(s) ==
    /\ ReceiveSignal(s)
    /\ UNCHANGED <<downsample_cache, bounding_box, downsample_tasks, downsample_results,
                   downsample_failed>>

\* Mutant: only a signal nobody waits for extends the bounding box.
handle_downsampled_result_EarlyReturn ==
    /\ downsample_results # <<>>
    /\ downsample_results' = Tail(downsample_results)
    /\ downsample_cache' = [downsample_cache EXCEPT ![Head(downsample_results)] = "ready"]
    /\ bounding_box' = IF downsample_cache[Head(downsample_results)] = "pending"
                       THEN bounding_box ELSE bounding_box \cup {Head(downsample_results)}
    /\ UNCHANGED <<project, downsample_tasks, downsample_failed>>

\* The signal is stored whether or not there is a slot for it.
handle_downsampled_result ==
    /\ downsample_results # <<>>
    /\ downsample_results' = Tail(downsample_results)
    /\ downsample_cache' = [downsample_cache EXCEPT ![Head(downsample_results)] = "ready"]
    /\ bounding_box' = bounding_box \cup {Head(downsample_results)}
    /\ UNCHANGED <<project, downsample_tasks, downsample_failed>>

\* The signals of the project that have no slot.
Requested == {s \in signals : downsample_cache[s] = "absent"}

Reserved == [s \in Signals |-> IF s \in Requested THEN "pending" ELSE downsample_cache[s]]

\* Mutant: the slots are reserved, but the work is submitted only if none is under way.
DrawWaveforms_SubmitsWhenIdle ==
    /\ signals # {}
    /\ downsample_cache' = Reserved
    /\ IF downsample_tasks = <<>>
       THEN \E order \in SetToSeqs(Requested) : downsample_tasks' = order
       ELSE UNCHANGED downsample_tasks
    /\ UNCHANGED <<project, bounding_box, downsample_results, downsample_failed>>

\* get_downsampled_signal for every signal of the project.
DrawWaveforms ==
    /\ signals # {}
    /\ downsample_cache' = Reserved
    /\ \E order \in SetToSeqs(Requested) : downsample_tasks' = downsample_tasks \o order
    /\ UNCHANGED <<project, bounding_box, downsample_results, downsample_failed>>

Downsample ==
    /\ downsample_tasks # <<>>
    /\ downsample_tasks' = Tail(downsample_tasks)
    /\ downsample_results' = Append(downsample_results, Head(downsample_tasks))
    /\ UNCHANGED <<project, downsample_cache, bounding_box, downsample_failed>>

\* The ErrorResult goes to the error modal; the panel hears nothing of it.
DownsampleFails ==
    /\ downsample_tasks # <<>>
    /\ downsample_tasks' = Tail(downsample_tasks)
    /\ downsample_failed' = downsample_failed \cup {Head(downsample_tasks)}
    /\ UNCHANGED <<project, downsample_cache, bounding_box, downsample_results>>

WaveformNext ==
    \/ \E p \in Projects : waveform_change_active_project(p)
    \/ \E s \in Signals : waveform_add_signal(s)
    \/ handle_downsampled_result
    \/ DrawWaveforms
    \/ Downsample \/ DownsampleFails

WaveformSpec == WaveformInit /\ [][WaveformNext]_waveform_vars

------------------------------------------------------------------------------
(* Properties *)

\* What can be plotted is inside the bounding box, also after projects changed
\* while results were under way (SignalWaveformPanel.cpp:132).
PlottableIsInBounds == \A s \in signals : downsample_cache[s] = "ready" => s \in bounding_box

\* Every waveform of the active project appears, unless its task failed.
WaveformAppears ==
    \A s \in Signals :
        s \in signals ~>
            (s \notin signals \/ downsample_cache[s] = "ready" \/ s \in downsample_failed)
==============================================================================
