------------------------- MODULE ChannelMappingPanel -------------------------
(***************************************************************************)
(* src/panels/ChannelMappingPanel.cpp: the user picks a signal and a       *)
(* sensor of the active project, one after the other, possibly many frames *)
(* apart; when both are there an association is requested.                 *)
(*                                                                         *)
(* The panel keeps plain pointers to what was picked.  A change of the     *)
(* project does not reset them, and the new project destroys the old one:  *)
(* what is read through such a pointer may then be any identity.           *)
(***************************************************************************)
EXTENDS Project

VARIABLE new_entry_cache   \* the signal and the sensor picked so far

NothingPicked == [signal |-> Nil, sensor |-> Nil]

PanelTypeOK ==
    new_entry_cache \in [signal : Signals \cup {Nil}, sensor : Sensors \cup {Nil}]

\* get_id() through a pointer to an object that is one of "live", or freed.
ReadId(pointer, live, ids) == IF pointer \in live THEN {pointer} ELSE ids

\* The rest of a draw: a complete entry is requested and the cache is emptied.
Picked(entry) ==
    IF entry.signal = Nil \/ entry.sensor = Nil
    THEN new_entry_cache' = entry /\ UNCHANGED notify_queue
    ELSE /\ new_entry_cache' = NothingPicked
         /\ \E s \in ReadId(entry.signal, signals, Signals),
               v \in ReadId(entry.sensor, ProjectSensors, Sensors) :
                Notify([kind |-> "map", project |-> project, signal |-> s, sensor |-> v])

\* draw: the panel is collapsed or has no project, nothing is picked, or one of
\* the two lists is used.
DrawChannelMapping ==
    \/ UNCHANGED <<new_entry_cache, notify_queue>>
    \/ \E s \in signals : Picked([new_entry_cache EXCEPT !.signal = s])
    \/ \E v \in ProjectSensors : Picked([new_entry_cache EXCEPT !.sensor = v])
==============================================================================
