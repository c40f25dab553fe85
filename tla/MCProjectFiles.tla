---------------------------- MODULE MCProjectFiles ----------------------------
(***************************************************************************)
(* ProjectFiles with all documents of up to two signals, and with those of *)
(* three signals of different names.                                       *)
(***************************************************************************)
EXTENDS ProjectFiles

CONSTANTS f, g, n1, n2, n3, m1, m2

MCSources == {[path |-> f, channel |-> 0], [path |-> f, channel |-> 1], [path |-> f, channel |-> 2],
              [path |-> g, channel |-> 1], [path |-> Embedded, channel |-> 0]}

Signal(name, source) == [name |-> name, path |-> source.path, channel |-> source.channel]

MCSignals ==
    {<<>>}
    \cup {<<Signal(n1, s)>> : s \in MCSources}
    \cup {<<Signal(n1, s), Signal(n, t)>> : s \in MCSources, n \in {n1, n2}, t \in MCSources}
    \cup {<<Signal(n1, s), Signal(n2, t), Signal(n3, u)>> :
             s \in MCSources, t \in MCSources, u \in MCSources}

Mapping(signal, sensor) == [signal |-> signal, sensor |-> sensor]

\* Sensors and mappings: none, a sensor twice, both signals to a sensor each, one to
\* an unknown sensor, two to one sensor.
MCRest ==
    {[sensors |-> <<>>, mappings |-> <<>>],
     [sensors |-> <<m1, m1>>, mappings |-> <<>>],
     [sensors |-> <<m1, m2>>, mappings |-> <<Mapping(n1, m1), Mapping(n2, m2)>>],
     [sensors |-> <<m1>>, mappings |-> <<Mapping(n1, m2)>>],
     [sensors |-> <<m1, m2>>, mappings |-> <<Mapping(n1, m1), Mapping(n2, m1)>>]}

MCDocuments ==
    {[signals |-> s, sensors |-> r.sensors, mappings |-> r.mappings] : s \in MCSignals, r \in MCRest}
==============================================================================
