------------------------- MODULE SensorGeometryPanel -------------------------
(***************************************************************************)
(* src/panels/SensorGeometryPanel.cpp: the colour of each sensor is copied *)
(* when the number of sensors changes.  An edit changes the copy at once   *)
(* and the sensor when its notification is handled.                        *)
(***************************************************************************)
EXTENDS Project

VARIABLE sensor_colours   \* the copies, in the order of the sensors

\* IM_COL32 of a colour: each component is cut down to one of 256 levels, here
\* to half as many levels as there are colours.
Packed(colour) == colour \div 2

GeometryTypeOK ==
    \/ sensor_colours = <<>>
    \/ sensor_colours \in [ProjectSensors -> {Packed(c) : c \in Colours}]

\* change_active_project
ForgetColours == sensor_colours' = <<>>

recache_sensor_colours ==
    IF Cardinality(ProjectSensors) # Cardinality(DOMAIN sensor_colours)
    THEN [v \in ProjectSensors |-> Packed(colours[v])]
    ELSE sensor_colours

\* Mutant: the edit reaches the sensor and not the copy.
EditColour_NotCopied(v, c) ==
    /\ sensor_colours' = recache_sensor_colours
    /\ Notify([kind |-> "colour", project |-> project, sensor |-> v, colour |-> c])

EditColour(v, c) ==
    /\ sensor_colours' = [recache_sensor_colours EXCEPT ![v] = Packed(c)]
    /\ Notify([kind |-> "colour", project |-> project, sensor |-> v, colour |-> c])

\* draw: the panel is collapsed or there is nothing to show, or it is drawn and
\* at most one colour is edited.
DrawGeometry ==
    \/ UNCHANGED <<sensor_colours, notify_queue>>
    \/ sensor_colours' = recache_sensor_colours /\ UNCHANGED notify_queue
    \/ \E v \in ProjectSensors, c \in Colours : EditColour(v, c)
==============================================================================
