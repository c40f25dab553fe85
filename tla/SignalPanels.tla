----------------------------- MODULE SignalPanels -----------------------------
(***************************************************************************)
(* The panel of spectra and the panel of waveforms in one program: EchoMap *)
(* tells both of a project and its signals, hands the results of the one   *)
(* Worker to the panel that asked for them and draws both in every frame.  *)
(*                                                                         *)
(* What the one Worker takes from its queue next is left open, for which   *)
(* two queues stand: the panels ask for nothing that depends on it.        *)
(***************************************************************************)
EXTENDS SignalDFTPanel, SignalWaveformPanel

spectra == <<spectra_cache, selection, bounds, tasks, results, history>>
waveforms == <<downsample_cache, bounding_box, downsample_tasks, downsample_results,
               downsample_failed>>
panels == <<vars, waveform_vars>>

PanelsInit == Init /\ WaveformInit

------------------------------------------------------------------------------
(* The main thread *)

ChangeProject(p) == change_active_project(p) /\ waveform_change_active_project(p)

LoadSignal(s) == AddSignal(s) /\ waveform_add_signal(s)

\* A result goes to the panel that observes its kind.
Receive ==
    \/ handle_completed_dft /\ UNCHANGED waveforms
    \/ handle_downsampled_result /\ UNCHANGED spectra

\* render: all results are received before the panels are drawn.  What is posted while
\* they are drawn is received by the next frame, as if it had been posted afterwards.
Frame ==
    /\ results = <<>> /\ downsample_results = <<>>
    /\ Draw
    /\ DrawWaveforms

------------------------------------------------------------------------------
(* The computation thread *)

Working ==
    \/ (Compute \/ ComputeFails) /\ UNCHANGED waveforms
    \/ (Downsample \/ DownsampleFails) /\ UNCHANGED spectra

------------------------------------------------------------------------------

PanelsNext ==
    \/ \E p \in Projects : ChangeProject(p)
    \/ \E s \in Signals : LoadSignal(s)
    \/ Receive \/ Frame \/ Working

PanelsSpec == PanelsInit /\ [][PanelsNext]_panels

(* Frames are drawn, their results received, and the thread works.         *)
PanelsFairSpec ==
    /\ PanelsSpec
    /\ WF_panels(Receive)
    /\ WF_panels(Frame)
    /\ WF_panels(Working)
==============================================================================
