------------------------------- MODULE Project -------------------------------
(***************************************************************************)
(* src/objects/Project.cpp: the active project, as its panels see it and   *)
(* as the notifications of EchoMap.cpp edit it.                            *)
(*                                                                         *)
(* Signals and sensors are their identities, which are never used twice    *)
(* (IDAllocator).  The sensors and the requested channel mapping come with *)
(* the project file, the signals when their sound files are loaded.        *)
(* Positions of sensors are left out: no panel keeps a copy of them.       *)
(***************************************************************************)
EXTENDS Naturals, Sequences, FiniteSets

CONSTANTS Projects,    \* project files that become active, in some order
          SignalsOf,   \* the signals of each
          SensorsOf,   \* the sensors of each
          MappingOf,   \* the channel mapping of each, a set of pairs
          MaxColour,   \* bound: colours are 0..MaxColour
          NoProject, Nil

Signals == UNION {SignalsOf[p] : p \in Projects}
Sensors == UNION {SensorsOf[p] : p \in Projects}
Colours == 0..MaxColour

ASSUME ProjectAssumption == NoProject \notin Projects /\ Nil \notin Signals \cup Sensors
ASSUME IdentityAssumption ==
    \A p, q \in Projects : p # q => /\ SignalsOf[p] \cap SignalsOf[q] = {}
                                    /\ SensorsOf[p] \cap SensorsOf[q] = {}
ASSUME MappingAssumption ==
    \A p \in Projects : MappingOf[p] \subseteq SignalsOf[p] \X SensorsOf[p]
ASSUME ColourAssumption == MaxColour \in Nat

VARIABLES project,       \* the active project
          signals,       \* its signals, so far
          colours,       \* the colour of each of its sensors
          forward_map, reverse_map, call,   \* its requested channel mapping
          notify_queue   \* the edits that EchoMap has not handled

mapping == <<forward_map, reverse_map, call>>

requested_channel_mapping ==
    INSTANCE BidirectionalUnorderedMapping WITH Keys <- Signals, Values <- Sensors

ProjectSensors == IF project = NoProject THEN {} ELSE SensorsOf[project]

Edits ==
    [kind : {"map"}, project : Projects, signal : Signals, sensor : Sensors]
    \cup [kind : {"colour"}, project : Projects, sensor : Sensors, colour : Colours]

ProjectTypeOK ==
    /\ project \in Projects \cup {NoProject}
    /\ signals \subseteq (IF project = NoProject THEN {} ELSE SignalsOf[project])
    /\ colours \in [ProjectSensors -> Colours]
    /\ requested_channel_mapping!TypeOK
    /\ notify_queue \in Seq(Edits)

ProjectInit ==
    /\ project = NoProject
    /\ signals = {}
    /\ colours = <<>>
    /\ requested_channel_mapping!Init
    /\ notify_queue = <<>>

\* A file that maps a signal or a sensor twice is refused as a whole, by the
\* exception of add_association.
Loadable(p) ==
    \A m, n \in MappingOf[p] : m[1] = n[1] <=> m[2] = n[2]

MapOf(pairs, domain) ==
    [x \in domain |-> IF \E m \in pairs : m[1] = x
                      THEN (CHOOSE m \in pairs : m[1] = x)[2] ELSE Nil]

\* Mutant: an association is only stored when its signal is there already.
NewProject_EagerMapping(p) ==
    LET loaded == {m \in MappingOf[p] : m[1] \in signals'}
    IN  /\ Loadable(p)
        /\ project' = p
        /\ signals' \in SUBSET SignalsOf[p]
        /\ colours' \in [SensorsOf[p] -> Colours]
        /\ forward_map' = MapOf(loaded, Signals)
        /\ reverse_map' = MapOf({<<m[2], m[1]>> : m \in loaded}, Sensors)
        /\ call' = requested_channel_mapping!Idle

\* The project that was loaded from a file, with its sensors, with all of its
\* mappings requested, and with the signals that have arrived before it became
\* active.
NewProject(p) ==
    /\ Loadable(p)
    /\ project' = p
    /\ signals' \in SUBSET SignalsOf[p]
    /\ colours' \in [SensorsOf[p] -> Colours]
    /\ forward_map' = MapOf(MappingOf[p], Signals)
    /\ reverse_map' = MapOf({<<m[2], m[1]>> : m \in MappingOf[p]}, Sensors)
    /\ call' = requested_channel_mapping!Idle

add_signal(s) ==
    /\ signals' = signals \cup {s}
    /\ UNCHANGED <<project, colours, mapping>>

\* resolve_pair on every request: what is shown are the pairs of which both
\* sides are in the project.
observe_associations ==
    {m \in signals \X ProjectSensors : forward_map[m[1]] = m[2]}

------------------------------------------------------------------------------
(* process_notifications: the newest notification is handled and removed.  *)
(* verify_project drops what was meant for another project.                *)

Newest == notify_queue[Len(notify_queue)]
RemoveNewest == notify_queue' = SubSeq(notify_queue, 1, Len(notify_queue) - 1)

Notify(edit) == notify_queue' = Append(notify_queue, edit)

Handling(kind) ==
    /\ notify_queue # <<>>
    /\ Newest.kind = kind

\* add_association: the first of the two maps takes the pair, or the edit is
\* dropped or refused.
BeginAddAssociation ==
    /\ Handling("map")
    /\ call = requested_channel_mapping!Idle
    /\ IF Newest.project = project /\ forward_map[Newest.signal] = Nil
       THEN /\ requested_channel_mapping!EmplaceForward(Newest.signal, Newest.sensor)
            /\ UNCHANGED notify_queue
       ELSE RemoveNewest /\ UNCHANGED mapping
    /\ UNCHANGED <<project, signals, colours>>

\* The second map takes it, or the first gives it back and an error is raised.
EndAddAssociation ==
    /\ \/ requested_channel_mapping!EmplaceReverse
       \/ requested_channel_mapping!EmplaceRollback
    /\ RemoveNewest
    /\ UNCHANGED <<project, signals, colours>>

ModifySensorColour ==
    /\ Handling("colour")
    /\ colours' = IF Newest.project = project /\ Newest.sensor \in ProjectSensors
                  THEN [colours EXCEPT ![Newest.sensor] = Newest.colour] ELSE colours
    /\ RemoveNewest
    /\ UNCHANGED <<project, signals, mapping>>
==============================================================================
