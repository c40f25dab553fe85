----------------------------- MODULE ProjectLoad -----------------------------
(***************************************************************************)
(* What loading a project file promises: either nothing happens, or the    *)
(* project appears once, with all of its sensors and associations, and     *)
(* then the sound files arrive one after the other, each with all of its   *)
(* signals or with none.  ProjectFiles implements this.                    *)
(***************************************************************************)
EXTENDS Naturals, Sequences

CONSTANT Embedded    \* the path of a signal whose samples are in the project file

VARIABLES document,  \* the project file: signals, sensors and mappings, in order
          project,   \* the project, or None
          arrived    \* the signals that have arrived, by their place in the file

vars == <<document, project, arrived>>

None == [sensors |-> {}, associations |-> {}, exists |-> FALSE]

Entries == DOMAIN document.signals
Entry(i) == document.signals[i]
Named(name) == {i \in Entries : Entry(i).name = name}

\* Of two signals for one channel of a file the later one has it.
Overwritten(i) ==
    \E j \in Entries : j > i /\ Entry(j).path = Entry(i).path /\ Entry(j).channel = Entry(i).channel

On(path) == {i \in Entries : Entry(i).path = path /\ ~Overwritten(i)}

Distinct(f) == \A i, j \in DOMAIN f : i # j => f[i] # f[j]

\* Every mapping is of a signal and a sensor of the document, and nothing is mapped twice.
IsMapping(pairs) ==
    /\ \A pair \in pairs : \E m \in DOMAIN document.mappings :
           /\ pair[1] \in Named(document.mappings[m].signal)
           /\ pair[2] = document.mappings[m].sensor
    /\ \A m \in DOMAIN document.mappings : \E pair \in pairs :
           /\ pair[1] \in Named(document.mappings[m].signal)
           /\ pair[2] = document.mappings[m].sensor
    /\ \A p, q \in pairs : p[1] = q[1] <=> p[2] = q[2]

Init ==
    /\ project = None
    /\ arrived = {}

Appear ==
    /\ project = None
    /\ \A i, j \in Entries :
           i # j /\ Entry(i).path # Embedded /\ Entry(j).path # Embedded
           /\ ~Overwritten(i) /\ ~Overwritten(j) => Entry(i).name # Entry(j).name
    /\ Distinct(document.sensors)
    /\ project'.exists
    /\ project'.sensors = {document.sensors[k] : k \in DOMAIN document.sensors}
    /\ IsMapping(project'.associations)
    /\ \A pair \in project'.associations : pair[2] \in project'.sensors
    /\ UNCHANGED <<document, arrived>>

Arrive(path) ==
    /\ project # None
    /\ On(path) # {}
    /\ On(path) \cap arrived = {}
    /\ arrived' = arrived \cup On(path)
    /\ UNCHANGED <<document, project>>

Next == Appear \/ \E i \in Entries : Entry(i).path # Embedded /\ Arrive(Entry(i).path)

Spec == Init /\ [][Next]_vars
==============================================================================
