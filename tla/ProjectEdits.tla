----------------------------- MODULE ProjectEdits -----------------------------
(***************************************************************************)
(* The active project and the two panels that edit it, in the order of a   *)
(* frame (EchoMap::render): notifications are handled, results are         *)
(* received, which bring signals and other projects, then the panels are   *)
(* drawn, SensorGeometryPanel before ChannelMappingPanel (EchoMap.cpp:91). *)
(***************************************************************************)
EXTENDS ChannelMappingPanel, SensorGeometryPanel

VARIABLES phase,   \* where the frame is
          shown    \* the projects that were active, or are

panels == <<new_entry_cache, sensor_colours>>
state == <<project, signals, colours, mapping>>
vars == <<state, notify_queue, panels, phase, shown>>

TypeOK ==
    /\ ProjectTypeOK /\ PanelTypeOK /\ GeometryTypeOK
    /\ phase \in {"notifications", "results", "geometry", "channels"}
    /\ shown \subseteq Projects

Init ==
    /\ ProjectInit
    /\ new_entry_cache = NothingPicked
    /\ sensor_colours = <<>>
    /\ phase = "notifications"
    /\ shown = {}

Goto(from, to) ==
    /\ phase = from
    /\ phase' = to

HandleNotification ==
    /\ phase = "notifications"
    /\ BeginAddAssociation \/ EndAddAssociation \/ ModifySensorColour
    /\ UNCHANGED <<panels, phase, shown>>

NotificationsDone ==
    /\ Goto("notifications", "results")
    /\ notify_queue = <<>>
    /\ UNCHANGED <<state, notify_queue, panels, shown>>

\* The panels are told first, then the former project is destroyed.
\* ChannelMappingPanel keeps what was picked.
ChangeActiveProject(p) ==
    /\ phase = "results"
    /\ p \notin shown
    /\ shown' = shown \cup {p}
    /\ NewProject(p)
    /\ ForgetColours
    /\ UNCHANGED <<new_entry_cache, notify_queue, phase>>

ReceiveSignal(s) ==
    /\ phase = "results"
    /\ project # NoProject
    /\ s \in SignalsOf[project] \ signals
    /\ add_signal(s)
    /\ UNCHANGED <<notify_queue, panels, phase, shown>>

ResultsDone ==
    /\ Goto("results", "geometry")
    /\ UNCHANGED <<state, notify_queue, panels, shown>>

DrawSensorGeometryPanel ==
    /\ Goto("geometry", "channels")
    /\ DrawGeometry
    /\ UNCHANGED <<state, new_entry_cache, shown>>

DrawChannelMappingPanel ==
    /\ Goto("channels", "notifications")
    /\ DrawChannelMapping
    /\ UNCHANGED <<state, sensor_colours, shown>>

Next ==
    \/ HandleNotification \/ NotificationsDone
    \/ \E p \in Projects : ChangeActiveProject(p)
    \/ \E s \in Signals : ReceiveSignal(s)
    \/ ResultsDone
    \/ DrawSensorGeometryPanel \/ DrawChannelMappingPanel

Spec == Init /\ [][Next]_vars

------------------------------------------------------------------------------
(* Properties *)

\* The two maps of the channel mapping are inverse to each other whenever no
\* emplace is in progress, over all refusals and changes of the project, also
\* with identities that are none of the project's
\* (BidirectionalUnorderedMapping.hpp:38-47).
Inverse == requested_channel_mapping!Inverse

\* What the project file maps stays mapped and is shown as soon as the signal
\* has been loaded (Project.hpp:225), whatever the user requests in addition
\* before or after that.
FileMappingsHold ==
    project # NoProject =>
        \A m \in MappingOf[project] :
            /\ reverse_map[m[2]] = m[1]
            /\ m[1] \in signals => m \in observe_associations

\* The colour that a sensor will have once all edits are handled is the one
\* that the panel shows of it (SensorGeometryPanel.cpp:113-130), although the
\* copies are only renewed when the number of sensors changes.
ColoursAgree ==
    \A v \in DOMAIN sensor_colours :
        LET edits == {i \in DOMAIN notify_queue : /\ notify_queue[i].kind = "colour"
                                                  /\ notify_queue[i].sensor = v}
        IN  IF edits = {} THEN sensor_colours[v] = Packed(colours[v])
            ELSE \A i \in edits : sensor_colours[v] = Packed(notify_queue[i].colour)

------------------------------------------------------------------------------
(* What a comment of the code says of it and the code does not do *)

\* AddChannelMappingNotification.hpp:31: "@param project_id The ID of the Project
\* detaining the Signal and Sensor."
RequestsAreOfTheirProject ==
    \A i \in DOMAIN notify_queue :
        LET n == notify_queue[i]
        IN  n.kind = "map" => n.signal \in SignalsOf[n.project] /\ n.sensor \in SensorsOf[n.project]
==============================================================================
