---------------------------- MODULE PlottedSignals ----------------------------
(***************************************************************************)
(* What the panels that plot signals see of EchoMap: the active project    *)
(* and the signals that it has so far.  Each of the panels extends this    *)
(* module by its cache.                                                    *)
(***************************************************************************)
EXTENDS Integers, Sequences, FiniteSets, SequencesExt

CONSTANTS Projects,    \* projects that become active, in some order
          SignalsOf,   \* the signals of each project
          NoProject

ASSUME ProjectAssumption == NoProject \notin Projects
ASSUME SignalsAssumption == \A p \in Projects : IsFiniteSet(SignalsOf[p])
ASSUME DisjointAssumption ==
    \A p, q \in Projects : p # q => SignalsOf[p] \cap SignalsOf[q] = {}

Signals == UNION {SignalsOf[p] : p \in Projects}

VARIABLES active_project,
          signals,           \* the signals that the active project has so far
          shown              \* history: the projects that were active

project == <<active_project, signals, shown>>

ProjectTypeOK ==
    /\ active_project \in Projects \cup {NoProject}
    /\ signals \subseteq Signals
    /\ shown \subseteq Projects

InitProject ==
    /\ active_project = NoProject
    /\ signals = {}
    /\ shown = {}

\* A project becomes active once, with any part of its signals.
SetActiveProject(p) ==
    /\ p \notin shown
    /\ shown' = shown \cup {p}
    /\ active_project' = p
    /\ signals' \in SUBSET SignalsOf[p]

\* EchoMap::handle_result adds a signal to the active project.
ReceiveSignal(s) ==
    /\ active_project # NoProject
    /\ s \in SignalsOf[active_project] \ signals
    /\ signals' = signals \cup {s}
    /\ UNCHANGED <<active_project, shown>>
==============================================================================
