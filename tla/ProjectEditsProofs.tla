-------------------------- MODULE ProjectEditsProofs --------------------------
(***************************************************************************)
(* Proofs about ProjectEdits, for any projects, signals, sensors, mappings *)
(* and colours.  First those about BidirectionalUnorderedMapping alone,    *)
(* for any signals as its keys and any sensors as its values; they are     *)
(* used for the steps of the channel mapping.                              *)
(***************************************************************************)
EXTENDS ProjectEdits, TLAPS

Map == INSTANCE BidirectionalUnorderedMapping WITH Keys <- Signals, Values <- Sensors

------------------------------------------------------------------------------
(* The container alone: the two maps are inverse to each other between     *)
(* operations, and it implements InjectiveRelation.                        *)

\* Nil stands for the absence of an entry.
NilIsNone == Nil \notin Signals \cup Sensors

LEMMA NilIsNoneHolds == NilIsNone
  BY ProjectAssumption DEF NilIsNone

\* The two maps are inverse to each other on all keys but the given one,
\* which the second map does not know.
InverseButKey(k) ==
    /\ \A value \in Sensors : reverse_map[value] # k
    /\ \A key \in Signals \ {k}, value \in Sensors :
           forward_map[key] = value <=> reverse_map[value] = key

\* The same for a value that the first map does not know.
InverseButValue(v) ==
    /\ \A key \in Signals : forward_map[key] # v
    /\ \A key \in Signals, value \in Sensors \ {v} :
           forward_map[key] = value <=> reverse_map[value] = key

\* What holds in the middle of each operation.
HalfDone ==
    /\ call.op = "none" => call = Map!Idle
    /\ call.op \in {"emplace", "erase_by_key"} => call.key \in Signals /\ InverseButKey(call.key)
    /\ call.op = "emplace" => call.value \in Sensors /\ forward_map[call.key] = call.value
    /\ call.op = "erase_by_value" => call.value \in Sensors /\ InverseButValue(call.value)
    /\ call.op = "clear" => forward_map = [key \in Signals |-> Nil]

MapIInv == Map!TypeOK /\ Map!Inverse /\ HalfDone

LEMMA MapInitIInv ==
    ASSUME NilIsNone, Map!Init
    PROVE  MapIInv
  BY DEF NilIsNone, Map!Init, MapIInv, Map!TypeOK, Map!Inverse, HalfDone, Map!Calls, Map!Call, Map!Idle

\* The type of the state is kept by each step.
LEMMA MapNextTypeOK ==
    ASSUME NilIsNone, MapIInv, [Map!Next]_Map!vars
    PROVE  Map!TypeOK'
<1> USE DEF NilIsNone, MapIInv, Map!TypeOK, HalfDone, Map!Calls, Map!Call, Map!Idle
<1>1. ASSUME NEW key \in Signals, NEW value \in Sensors, Map!EmplaceForward(key, value)
      PROVE  Map!TypeOK'
  BY <1>1 DEF Map!EmplaceForward
<1>2. CASE Map!EmplaceReverse
  BY <1>2 DEF Map!EmplaceReverse
<1>3. CASE Map!EmplaceRollback
  BY <1>3 DEF Map!EmplaceRollback
<1>4. ASSUME NEW key \in Signals, Map!EraseByKey(key)
      PROVE  Map!TypeOK'
  BY <1>4 DEF Map!EraseByKey
<1>5. CASE Map!EraseForward
  BY <1>5 DEF Map!EraseForward
<1>6. ASSUME NEW value \in Sensors, Map!EraseByValue(value)
      PROVE  Map!TypeOK'
  BY <1>6 DEF Map!EraseByValue
<1>7. CASE Map!EraseReverse
  BY <1>7 DEF Map!EraseReverse
<1>8. CASE Map!Clear
  BY <1>8 DEF Map!Clear
<1>9. CASE Map!ClearReverse
  BY <1>9 DEF Map!ClearReverse
<1>10. CASE UNCHANGED Map!vars
  BY <1>10 DEF Map!vars
<1>11. QED
  BY <1>1, <1>2, <1>3, <1>4, <1>5, <1>6, <1>7, <1>8, <1>9, <1>10 DEF Map!Next

\* Each step leads from one half-done state to the next or ends the operation
\* with inverse maps.
LEMMA MapNextIInv ==
    ASSUME NilIsNone, MapIInv, [Map!Next]_Map!vars
    PROVE  MapIInv'
<1>1. Map!TypeOK'
  BY MapNextTypeOK
<1> SUFFICES Map!Inverse' /\ HalfDone'
  BY <1>1 DEF MapIInv
<1> USE DEF NilIsNone, MapIInv, Map!TypeOK, Map!Inverse, HalfDone, Map!Calls, Map!Call, Map!Idle
<1>2. ASSUME NEW key \in Signals, NEW value \in Sensors, Map!EmplaceForward(key, value)
      PROVE  Map!Inverse' /\ HalfDone'
  BY <1>2 DEF Map!EmplaceForward, InverseButKey
<1>3. CASE Map!EmplaceReverse
  BY <1>3 DEF Map!EmplaceReverse, InverseButKey
<1>4. CASE Map!EmplaceRollback
  BY <1>4 DEF Map!EmplaceRollback, InverseButKey
<1>5. ASSUME NEW key \in Signals, Map!EraseByKey(key)
      PROVE  Map!Inverse' /\ HalfDone'
  BY <1>5 DEF Map!EraseByKey, InverseButKey
<1>6. CASE Map!EraseForward
  BY <1>6 DEF Map!EraseForward, InverseButKey
<1>7. ASSUME NEW value \in Sensors, Map!EraseByValue(value)
      PROVE  Map!Inverse' /\ HalfDone'
  BY <1>7 DEF Map!EraseByValue, InverseButValue
<1>8. CASE Map!EraseReverse
  BY <1>8 DEF Map!EraseReverse, InverseButValue
<1>9. CASE Map!Clear
  BY <1>9 DEF Map!Clear
<1>10. CASE Map!ClearReverse
  BY <1>10 DEF Map!ClearReverse
<1>11. CASE UNCHANGED Map!vars
  BY <1>11 DEF Map!vars, InverseButKey, InverseButValue
<1>12. QED
  BY <1>2, <1>3, <1>4, <1>5, <1>6, <1>7, <1>8, <1>9, <1>10, <1>11 DEF Map!Next

\* At every step of an operation it is known which entry only one map has.
THEOREM MapInvariance == Map!Spec => []MapIInv
<1>1. Map!Init => MapIInv
  BY NilIsNoneHolds, MapInitIInv
<1>2. MapIInv /\ [Map!Next]_Map!vars => MapIInv'
  BY NilIsNoneHolds, MapNextIInv
<1>3. QED
  BY <1>1, <1>2, PTL DEF Map!Spec

\* Between two operations each of the two maps is the inverse of the other
\* (the class invariants of BidirectionalUnorderedMapping.hpp:38-47).
THEOREM MapInverseHolds == Map!Spec => []Map!Inverse
<1>1. MapIInv => Map!Inverse
  BY DEF MapIInv
<1>2. QED
  BY <1>1, MapInvariance, PTL

------------------------------------------------------------------------------
(* Refinement: the step that changes the second map is the one that the    *)
(* relation sees.  Only erase_by_key changes the second map first.         *)

LEMMA MapInitRefines ==
    ASSUME NilIsNone, Map!Init
    PROVE  Map!Relation!Init
  BY DEF NilIsNone, Map!Init, Map!Relation!Init, Map!Entries

LEMMA MapNextRefines ==
    ASSUME NilIsNone, MapIInv, [Map!Next]_Map!vars
    PROVE  [Map!Relation!Next]_Map!Entries
<1> USE DEF NilIsNone, MapIInv, Map!TypeOK, HalfDone, Map!Calls, Map!Call, Map!Idle, Map!Entries
<1>1. ASSUME reverse_map' = reverse_map
      PROVE  Map!Entries' = Map!Entries
  BY <1>1
<1>2. ASSUME NEW key \in Signals, NEW value \in Sensors, Map!EmplaceForward(key, value)
      PROVE  Map!Entries' = Map!Entries
  BY <1>1, <1>2 DEF Map!EmplaceForward
<1>3. CASE Map!EmplaceReverse
  <2>1. Map!Relation!KeyFree(call.key) /\ Map!Relation!ValueFree(call.value)
    BY <1>3 DEF Map!EmplaceReverse, InverseButKey, Map!Relation!KeyFree, Map!Relation!ValueFree
  <2>2. Map!Entries' = Map!Entries \cup {<<call.key, call.value>>}
    BY <1>3 DEF Map!EmplaceReverse
  <2>3. call.key \in Signals /\ call.value \in Sensors
    BY <1>3 DEF Map!EmplaceReverse
  <2>4. QED
    BY <2>1, <2>2, <2>3 DEF Map!Relation!Next, Map!Relation!Insert
<1>4. CASE Map!EmplaceRollback
  BY <1>1, <1>4 DEF Map!EmplaceRollback
<1>5. ASSUME NEW key \in Signals, Map!EraseByKey(key)
      PROVE  Map!Relation!Next
  <2>1. Map!Entries' = {p \in Map!Entries : p[1] # key}
    BY <1>5 DEF Map!EraseByKey, Map!Inverse
  <2>2. QED
    BY <2>1 DEF Map!Relation!Next, Map!Relation!RemoveKey
<1>6. CASE Map!EraseForward
  BY <1>1, <1>6 DEF Map!EraseForward
<1>7. ASSUME NEW value \in Sensors, Map!EraseByValue(value)
      PROVE  Map!Entries' = Map!Entries
  BY <1>1, <1>7 DEF Map!EraseByValue
<1>8. CASE Map!EraseReverse
  <2>1. Map!Entries' = {p \in Map!Entries : p[2] # call.value}
    BY <1>8 DEF Map!EraseReverse
  <2>2. QED
    BY <1>8, <2>1 DEF Map!EraseReverse, Map!Relation!Next, Map!Relation!RemoveValue
<1>9. CASE Map!Clear
  BY <1>1, <1>9 DEF Map!Clear
<1>10. CASE Map!ClearReverse
  <2>1. Map!Entries' = {}
    BY <1>10 DEF Map!ClearReverse
  <2>2. QED
    BY <2>1 DEF Map!Relation!Next, Map!Relation!Clear
<1>11. CASE UNCHANGED Map!vars
  BY <1>1, <1>11 DEF Map!vars
<1>12. QED
  BY <1>2, <1>3, <1>4, <1>5, <1>6, <1>7, <1>8, <1>9, <1>10, <1>11 DEF Map!Next

\* Every operation changes the relation as a whole or not at all, also an
\* emplace that is refused or fails half-way (lines 118-143, 152-189).
THEOREM MapRefinement == Map!Spec => Map!ImplementsRelation
<1>1. Map!Init => Map!Relation!Init
  BY NilIsNoneHolds, MapInitRefines
<1>2. MapIInv /\ [Map!Next]_Map!vars => [Map!Relation!Next]_Map!Entries
  BY NilIsNoneHolds, MapNextRefines
<1>3. QED
  BY <1>1, <1>2, MapInvariance, PTL DEF Map!Spec, Map!ImplementsRelation, Map!Relation!Spec

------------------------------------------------------------------------------
(* The inductive invariant of the project and its panels *)

\* An emplace is in progress only while its notification is being handled.
InProgress ==
    call # Map!Idle => /\ call.op = "emplace"
                       /\ notify_queue # <<>>
                       /\ Newest.kind = "map"
                       /\ phase = "notifications"

\* The second map has what the project file maps.
FileMapped ==
    project # NoProject => \A m \in MappingOf[project] : reverse_map[m[2]] = m[1]

IInv == TypeOK /\ MapIInv /\ InProgress /\ FileMapped

LEMMA Constants ==
    /\ NilIsNone
    /\ \A p \in Projects : SignalsOf[p] \subseteq Signals /\ SensorsOf[p] \subseteq Sensors
    /\ \A p \in Projects : \A m \in MappingOf[p] :
           m = <<m[1], m[2]>> /\ m[1] \in SignalsOf[p] /\ m[2] \in SensorsOf[p]
<1>1. NilIsNone
  BY ProjectAssumption DEF NilIsNone
<1>2. \A p \in Projects : SignalsOf[p] \subseteq Signals /\ SensorsOf[p] \subseteq Sensors
  BY DEF Signals, Sensors
<1>3. \A p \in Projects : MappingOf[p] \subseteq SignalsOf[p] \X SensorsOf[p]
  BY MappingAssumption DEF MappingAssumption
<1>4. QED
  BY <1>1, <1>2, <1>3

\* Taking the newest notification off the queue.
LEMMA RemoveNewestFacts ==
    ASSUME notify_queue \in Seq(Edits), notify_queue # <<>>, RemoveNewest
    PROVE  /\ Newest \in Edits
           /\ notify_queue' \in Seq(Edits)
           /\ Len(notify_queue) \in Nat \ {0}
           /\ DOMAIN notify_queue = 1..Len(notify_queue)
           /\ DOMAIN notify_queue' = 1..(Len(notify_queue) - 1)
           /\ \A i \in DOMAIN notify_queue' : notify_queue'[i] = notify_queue[i]
  BY DEF RemoveNewest, Newest

LEMMA NotifyFacts ==
    ASSUME notify_queue \in Seq(Edits), NEW e \in Edits, Notify(e)
    PROVE  /\ notify_queue' \in Seq(Edits)
           /\ Len(notify_queue) \in Nat
           /\ DOMAIN notify_queue = 1..Len(notify_queue)
           /\ DOMAIN notify_queue' = 1..(Len(notify_queue) + 1)
           /\ \A i \in DOMAIN notify_queue : notify_queue'[i] = notify_queue[i]
           /\ notify_queue'[Len(notify_queue) + 1] = e
  BY DEF Notify

\* A file without double mappings gives two maps that are inverse to each other.
LEMMA MapOfFacts ==
    ASSUME NEW p \in Projects, Loadable(p),
           NEW f, f = MapOf(MappingOf[p], Signals),
           NEW r, r = MapOf({<<m[2], m[1]>> : m \in MappingOf[p]}, Sensors)
    PROVE  /\ f \in [Signals -> Sensors \cup {Nil}]
           /\ r \in [Sensors -> Signals \cup {Nil}]
           /\ \A m \in MappingOf[p] : r[m[2]] = m[1]
           /\ \A s \in Signals, v \in Sensors : f[s] = v <=> r[v] = s
<1> DEFINE Pairs == MappingOf[p]
           Swapped == {<<m[2], m[1]>> : m \in Pairs}
<1>1. \A s \in Signals, v \in Sensors : s # Nil /\ v # Nil
  BY Constants DEF NilIsNone
<1>2. \A m \in Pairs : m = <<m[1], m[2]>> /\ m[1] \in Signals /\ m[2] \in Sensors
  BY Constants
<1>3. \A m, n \in Pairs : m[1] = n[1] <=> m[2] = n[2]
  BY DEF Loadable
<1>4. ASSUME NEW s \in Signals
      PROVE  /\ f[s] \in Sensors \cup {Nil}
             /\ \A v \in Sensors : f[s] = v <=> <<s, v>> \in Pairs
  <2>1. CASE \E m \in Pairs : m[1] = s
    <3>1. PICK n \in Pairs : n = (CHOOSE m \in Pairs : m[1] = s) /\ n[1] = s
      BY <2>1
    <3>2. f[s] = n[2]
      BY <2>1, <3>1 DEF MapOf
    <3>3. QED
      BY <1>2, <1>3, <3>1, <3>2
  <2>2. CASE ~ \E m \in Pairs : m[1] = s
    <3>1. f[s] = Nil
      BY <2>2 DEF MapOf
    <3>2. QED
      BY <1>1, <2>2, <3>1
  <2>3. QED
    BY <2>1, <2>2
<1>5. \A n \in Swapped : n = <<n[1], n[2]>> /\ <<n[2], n[1]>> \in Pairs
  BY <1>2
<1>6. ASSUME NEW v \in Sensors
      PROVE  /\ r[v] \in Signals \cup {Nil}
             /\ \A s \in Signals : r[v] = s <=> <<s, v>> \in Pairs
  <2>1. CASE \E m \in Swapped : m[1] = v
    <3>1. PICK n \in Swapped : n = (CHOOSE m \in Swapped : m[1] = v) /\ n[1] = v
      BY <2>1
    <3>2. r[v] = n[2]
      BY <2>1, <3>1 DEF MapOf
    <3>3. <<n[2], v>> \in Pairs /\ n[2] \in Signals
      BY <1>2, <1>5, <3>1
    <3>4. ASSUME NEW s \in Signals, <<s, v>> \in Pairs
          PROVE  s = n[2]
      BY <1>3, <3>3, <3>4
    <3>5. QED
      BY <3>2, <3>3, <3>4
  <2>2. CASE ~ \E m \in Swapped : m[1] = v
    <3>1. r[v] = Nil
      BY <2>2 DEF MapOf
    <3>2. ASSUME NEW s \in Signals, <<s, v>> \in Pairs
          PROVE  FALSE
      <4>1. <<<<s, v>>[2], <<s, v>>[1]>> \in Swapped
        BY <3>2
      <4>2. QED
        BY <2>2, <4>1
    <3>3. QED
      BY <1>1, <3>1, <3>2
  <2>3. QED
    BY <2>1, <2>2
<1>7. f \in [Signals -> Sensors \cup {Nil}] /\ r \in [Sensors -> Signals \cup {Nil}]
  <2>1. f = [s \in Signals |-> f[s]] /\ r = [v \in Sensors |-> r[v]]
    BY DEF MapOf
  <2>2. QED
    BY <1>4, <1>6, <2>1
<1>8. \A m \in MappingOf[p] : r[m[2]] = m[1]
  <2>1. ASSUME NEW m \in Pairs
        PROVE  r[m[2]] = m[1]
    <3>1. m[2] \in Sensors /\ m[1] \in Signals /\ <<m[1], m[2]>> \in Pairs
      BY <1>2
    <3>2. QED
      BY <1>6, <3>1
  <2>2. QED
    BY <2>1
<1>9. \A s \in Signals, v \in Sensors : f[s] = v <=> r[v] = s
  BY <1>4, <1>6
<1>10. QED
  BY <1>7, <1>8, <1>9

------------------------------------------------------------------------------
(* The channel mapping: a new project brings inverse maps, and every other *)
(* step is one of the container or leaves it alone.                        *)

\* Project sees the container through an instance of its own.
LEMMA SameMapping ==
    /\ requested_channel_mapping!Idle = Map!Idle
    /\ requested_channel_mapping!TypeOK <=> Map!TypeOK
    /\ requested_channel_mapping!Inverse <=> Map!Inverse
  BY DEF requested_channel_mapping!Idle, Map!Idle, requested_channel_mapping!Call, Map!Call,
         requested_channel_mapping!TypeOK, Map!TypeOK,
         requested_channel_mapping!Calls, Map!Calls,
         requested_channel_mapping!Inverse, Map!Inverse

LEMMA InitMap ==
    ASSUME requested_channel_mapping!Init
    PROVE  MapIInv
<1>1. Map!Init
  BY DEF requested_channel_mapping!Init, Map!Init, requested_channel_mapping!Idle, Map!Idle,
         requested_channel_mapping!Call, Map!Call
<1>2. QED
  BY <1>1, Constants, MapInitIInv

LEMMA NewProjectMap ==
    ASSUME NEW p \in Projects, NewProject(p)
    PROVE  /\ MapIInv'
           /\ \A m \in MappingOf[p] : reverse_map'[m[2]] = m[1]
           /\ call' = Map!Idle
<1>1. call' = Map!Idle
  BY SameMapping DEF NewProject
<1>2. /\ forward_map' \in [Signals -> Sensors \cup {Nil}]
      /\ reverse_map' \in [Sensors -> Signals \cup {Nil}]
      /\ \A m \in MappingOf[p] : reverse_map'[m[2]] = m[1]
      /\ \A s \in Signals, v \in Sensors : forward_map'[s] = v <=> reverse_map'[v] = s
  <2> DEFINE f == MapOf(MappingOf[p], Signals)
             r == MapOf({<<m[2], m[1]>> : m \in MappingOf[p]}, Sensors)
  <2>1. Loadable(p) /\ forward_map' = f /\ reverse_map' = r
    BY DEF NewProject
  <2>2. QED
    BY <2>1, MapOfFacts
<1>3. Map!TypeOK'
  BY <1>1, <1>2 DEF Map!TypeOK, Map!Calls, Map!Idle, Map!Call
<1>4. Map!Inverse'
  BY <1>2 DEF Map!Inverse
<1>5. HalfDone'
  BY <1>1 DEF HalfDone, Map!Idle, Map!Call
<1>6. QED
  BY <1>1, <1>2, <1>3, <1>4, <1>5 DEF MapIInv

LEMMA OtherMap ==
    ASSUME MapIInv, [Map!Next]_Map!vars
    PROVE  MapIInv'
  BY Constants, MapNextIInv

------------------------------------------------------------------------------
(* What one handled notification does *)

LEMMA EditFacts ==
    ASSUME NEW e \in Edits
    PROVE  /\ e.kind \in {"map", "colour"}
           /\ e.project \in Projects
           /\ e.sensor \in Sensors
           /\ e.kind = "map" => e.signal \in Signals
           /\ e.kind = "colour" => e.colour \in Colours
  BY DEF Edits

\* Beginning an association changes the first map or takes the notification
\* off the queue.
LEMMA BeginFacts ==
    ASSUME IInv, BeginAddAssociation
    PROVE  /\ [Map!Next]_Map!vars
           /\ UNCHANGED <<project, signals, colours, reverse_map>>
           /\ \/ /\ call'.op = "emplace"
                 /\ notify_queue # <<>> /\ Newest.kind = "map"
                 /\ UNCHANGED notify_queue
              \/ RemoveNewest /\ call' = Map!Idle
<1> USE DEF BeginAddAssociation, mapping
<1>1. notify_queue \in Seq(Edits) /\ notify_queue # <<>> /\ Newest.kind = "map"
  BY DEF IInv, TypeOK, ProjectTypeOK, Handling
<1>2. Newest \in Edits
  BY <1>1 DEF Newest
<1>3. Newest.signal \in Signals /\ Newest.sensor \in Sensors
  BY <1>1, <1>2, EditFacts
<1>4. call = Map!Idle
  BY SameMapping
<1>5. CASE Newest.project = project /\ forward_map[Newest.signal] = Nil
  <2>1. /\ forward_map[Newest.signal] = Nil
        /\ forward_map' = [forward_map EXCEPT ![Newest.signal] = Newest.sensor]
        /\ call' = Map!Call("emplace", Newest.signal, Newest.sensor)
        /\ UNCHANGED reverse_map
    BY <1>5 DEF requested_channel_mapping!EmplaceForward, requested_channel_mapping!Call,
                Map!Call
  <2>2. Map!Next
    BY <1>3, <1>4, <2>1 DEF Map!Next, Map!EmplaceForward
  <2>3. call'.op = "emplace"
    BY <2>1 DEF Map!Call
  <2>4. QED
    BY <1>1, <1>5, <2>1, <2>2, <2>3
<1>6. CASE ~ (Newest.project = project /\ forward_map[Newest.signal] = Nil)
  <2>1. RemoveNewest /\ UNCHANGED <<forward_map, reverse_map, call>>
    BY <1>6
  <2>2. QED
    BY <1>4, <2>1 DEF Map!vars
<1>7. QED
  BY <1>5, <1>6

\* Ending it takes the notification off the queue; the second map only gains
\* an entry, in a place that was free.
LEMMA EndFacts ==
    ASSUME IInv, EndAddAssociation
    PROVE  /\ Map!Next
           /\ UNCHANGED <<project, signals, colours>>
           /\ notify_queue # <<>>
           /\ RemoveNewest
           /\ call' = Map!Idle
           /\ \A v \in Sensors : reverse_map[v] # Nil => reverse_map'[v] = reverse_map[v]
<1> USE DEF EndAddAssociation
<1>1. Map!EmplaceReverse \/ Map!EmplaceRollback
  BY DEF requested_channel_mapping!EmplaceReverse, requested_channel_mapping!EmplaceRollback,
         requested_channel_mapping!Idle, requested_channel_mapping!Call,
         Map!EmplaceReverse, Map!EmplaceRollback, Map!Idle, Map!Call
<1>2. call # Map!Idle /\ call' = Map!Idle
  BY <1>1 DEF Map!EmplaceReverse, Map!EmplaceRollback, Map!Idle, Map!Call
<1>3. Map!Next
  BY <1>1 DEF Map!Next
<1>4. \A v \in Sensors : reverse_map[v] # Nil => reverse_map'[v] = reverse_map[v]
  BY <1>1 DEF Map!EmplaceReverse, Map!EmplaceRollback, IInv, MapIInv, Map!TypeOK
<1>5. QED
  BY <1>2, <1>3, <1>4 DEF IInv, InProgress

\* What the two panels queue is well-formed, even an identity that was read
\* through a pointer to a freed object.
LEMMA GeometryFacts ==
    ASSUME IInv, DrawGeometry
    PROVE  /\ GeometryTypeOK'  \/ project' # project
           /\ \/ UNCHANGED notify_queue
              \/ \E v \in ProjectSensors, c \in Colours : EditColour(v, c)
           /\ notify_queue' \in Seq(Edits)
<1> USE DEF DrawGeometry
<1>1. /\ notify_queue \in Seq(Edits) /\ GeometryTypeOK
      /\ colours \in [ProjectSensors -> Colours] /\ project \in Projects \cup {NoProject}
  BY DEF IInv, TypeOK, ProjectTypeOK
<1> DEFINE Copies == [ProjectSensors -> {Packed(c) : c \in Colours}]
<1>2. recache_sensor_colours = <<>> \/ recache_sensor_colours \in Copies
  BY <1>1 DEF recache_sensor_colours, GeometryTypeOK
<1>3. ASSUME project' = project
      PROVE  ProjectSensors' = ProjectSensors
  BY <1>3 DEF ProjectSensors
<1>4. ASSUME NEW v \in ProjectSensors, NEW c \in Colours, EditColour(v, c)
      PROVE  /\ sensor_colours' = <<>> \/ sensor_colours' \in Copies
             /\ notify_queue' \in Seq(Edits)
  <2>1. project \in Projects /\ v \in Sensors
    BY <1>1, <1>4, Constants DEF ProjectSensors
  <2>2. [kind |-> "colour", project |-> project, sensor |-> v, colour |-> c] \in Edits
    BY <1>4, <2>1 DEF Edits
  <2>3. notify_queue' \in Seq(Edits)
    BY <1>1, <1>4, <2>2 DEF EditColour, Notify
  <2>4. QED
    BY <1>2, <1>4, <2>3 DEF EditColour
<1>5. sensor_colours' = <<>> \/ sensor_colours' \in Copies
  BY <1>1, <1>2, <1>4 DEF GeometryTypeOK
<1>6. GeometryTypeOK' \/ project' # project
  BY <1>3, <1>5 DEF GeometryTypeOK
<1>7. QED
  BY <1>1, <1>4, <1>6

LEMMA MappingPanelFacts ==
    ASSUME IInv, DrawChannelMapping
    PROVE  /\ PanelTypeOK'
           /\ \/ UNCHANGED notify_queue
              \/ \E e \in Edits : e.kind = "map" /\ Notify(e)
           /\ notify_queue' \in Seq(Edits)
<1> USE DEF DrawChannelMapping
<1>1. /\ notify_queue \in Seq(Edits) /\ PanelTypeOK
      /\ project \in Projects \cup {NoProject}
      /\ signals \subseteq (IF project = NoProject THEN {} ELSE SignalsOf[project])
  BY DEF IInv, TypeOK, ProjectTypeOK
<1>2. /\ signals \subseteq Signals /\ ProjectSensors \subseteq Sensors
      /\ signals # {} \/ ProjectSensors # {} => project \in Projects
  BY <1>1, Constants DEF ProjectSensors
<1>3. ASSUME NEW entry \in [signal : Signals \cup {Nil}, sensor : Sensors \cup {Nil}],
             project \in Projects, Picked(entry)
      PROVE  /\ PanelTypeOK'
             /\ \/ UNCHANGED notify_queue
                \/ \E e \in Edits : e.kind = "map" /\ Notify(e)
  <2>1. CASE entry.signal = Nil \/ entry.sensor = Nil
    BY <1>3, <2>1 DEF Picked, PanelTypeOK
  <2>2. CASE ~ (entry.signal = Nil \/ entry.sensor = Nil)
    <3>1. PICK s \in ReadId(entry.signal, signals, Signals),
               v \in ReadId(entry.sensor, ProjectSensors, Sensors) :
               Notify([kind |-> "map", project |-> project, signal |-> s, sensor |-> v])
      BY <1>3, <2>2 DEF Picked
    <3>2. s \in Signals /\ v \in Sensors
      BY <1>2 DEF ReadId
    <3>3. [kind |-> "map", project |-> project, signal |-> s, sensor |-> v] \in Edits
      BY <1>3, <3>2 DEF Edits
    <3>4. PanelTypeOK'
      BY <1>3, <2>2 DEF Picked, PanelTypeOK, NothingPicked
    <3>5. QED
      BY <3>1, <3>3, <3>4
  <2>3. QED
    BY <2>1, <2>2
<1>4. ASSUME NEW s \in signals, Picked([new_entry_cache EXCEPT !.signal = s])
      PROVE  /\ PanelTypeOK'
             /\ \/ UNCHANGED notify_queue
                \/ \E e \in Edits : e.kind = "map" /\ Notify(e)
  BY <1>1, <1>2, <1>3, <1>4 DEF PanelTypeOK
<1>5. ASSUME NEW v \in ProjectSensors, Picked([new_entry_cache EXCEPT !.sensor = v])
      PROVE  /\ PanelTypeOK'
             /\ \/ UNCHANGED notify_queue
                \/ \E e \in Edits : e.kind = "map" /\ Notify(e)
  BY <1>1, <1>2, <1>3, <1>5 DEF PanelTypeOK
<1>6. CASE UNCHANGED <<new_entry_cache, notify_queue>>
  BY <1>1, <1>6 DEF PanelTypeOK
<1>7. /\ PanelTypeOK'
      /\ \/ UNCHANGED notify_queue
         \/ \E e \in Edits : e.kind = "map" /\ Notify(e)
  BY <1>4, <1>5, <1>6
<1>8. notify_queue' \in Seq(Edits)
  BY <1>1, <1>7, NotifyFacts
<1>9. QED
  BY <1>7, <1>8
------------------------------------------------------------------------------
(* The invariant is inductive *)

LEMMA TypedMap ==
    ASSUME MapIInv'
    PROVE  requested_channel_mapping!TypeOK'
  BY DEF requested_channel_mapping!TypeOK, requested_channel_mapping!Calls,
         MapIInv, Map!TypeOK, Map!Calls

\* A step that keeps the project, its signals and colours well-formed.
LEMMA KeptProject ==
    ASSUME IInv, MapIInv', UNCHANGED <<project, signals>>,
           colours' \in [ProjectSensors -> Colours], notify_queue' \in Seq(Edits)
    PROVE  /\ ProjectTypeOK'
           /\ ProjectSensors' = ProjectSensors
<1>1. ProjectSensors' = ProjectSensors
  BY DEF ProjectSensors
<1>2. requested_channel_mapping!TypeOK'
  BY TypedMap
<1>3. QED
  BY <1>1, <1>2 DEF IInv, TypeOK, ProjectTypeOK

LEMMA InitIInv ==
    ASSUME Init
    PROVE  IInv
<1> USE DEF Init, ProjectInit
<1>1. MapIInv
  BY InitMap
<1>2. requested_channel_mapping!TypeOK
  BY <1>1, SameMapping DEF MapIInv
<1>3. call = Map!Idle
  BY SameMapping DEF requested_channel_mapping!Init
<1>4. ProjectTypeOK
  BY <1>2 DEF ProjectTypeOK, ProjectSensors
<1>5. PanelTypeOK /\ GeometryTypeOK
  BY DEF PanelTypeOK, NothingPicked, GeometryTypeOK
<1>6. QED
  BY <1>1, <1>3, <1>4, <1>5, ProjectAssumption DEF IInv, TypeOK, InProgress, FileMapped

\* Handling a notification: the file's pairs are in the second map, which only
\* gains entries in free places.
LEMMA HandleIInv ==
    ASSUME IInv, HandleNotification
    PROVE  IInv'
<1> USE DEF HandleNotification
<1>1. ASSUME MapIInv', UNCHANGED <<project, signals>>,
             colours' \in [ProjectSensors -> Colours], notify_queue' \in Seq(Edits)
      PROVE  TypeOK'
  BY <1>1, KeptProject DEF IInv, TypeOK, panels, PanelTypeOK, GeometryTypeOK
<1>2. /\ notify_queue \in Seq(Edits) /\ colours \in [ProjectSensors -> Colours]
      /\ project \in Projects \cup {NoProject}
  BY DEF IInv, TypeOK, ProjectTypeOK
<1>3. CASE BeginAddAssociation
  <2>1. MapIInv'
    BY <1>3, BeginFacts, OtherMap DEF IInv
  <2>2. UNCHANGED <<project, signals, colours, reverse_map>>
    BY <1>3, BeginFacts
  <2>3. notify_queue' \in Seq(Edits)
    BY <1>2, <1>3, BeginFacts, RemoveNewestFacts DEF BeginAddAssociation, Handling
  <2>4. InProgress'
    BY <1>3, BeginFacts DEF InProgress, Map!Idle, Map!Call, Newest
  <2>5. FileMapped'
    BY <2>2 DEF IInv, FileMapped
  <2>6. QED
    BY <1>1, <1>2, <2>1, <2>2, <2>3, <2>4, <2>5 DEF IInv
<1>4. CASE EndAddAssociation
  <2>1. MapIInv'
    BY <1>4, EndFacts, OtherMap DEF IInv
  <2>2. UNCHANGED <<project, signals, colours>> /\ call' = Map!Idle
    BY <1>4, EndFacts
  <2>3. notify_queue' \in Seq(Edits)
    BY <1>2, <1>4, EndFacts, RemoveNewestFacts
  <2>4. InProgress'
    BY <2>2 DEF InProgress, Map!Idle, Map!Call
  <2>5. ASSUME project # NoProject, NEW m \in MappingOf[project]
        PROVE  reverse_map'[m[2]] = m[1]
    <3>1. project \in Projects
      BY <1>2, <2>5
    <3>2. reverse_map[m[2]] = m[1] /\ m[1] \in Signals /\ m[2] \in Sensors
      BY <2>5, <3>1, Constants DEF IInv, FileMapped
    <3>3. m[1] # Nil
      BY <3>2, Constants DEF NilIsNone
    <3>4. QED
      BY <1>4, <3>2, <3>3, EndFacts
  <2>6. FileMapped'
    BY <2>2, <2>5 DEF FileMapped
  <2>7. QED
    BY <1>1, <1>2, <2>1, <2>2, <2>3, <2>4, <2>6 DEF IInv
<1>5. CASE ModifySensorColour
  <2> USE DEF ModifySensorColour, Handling, mapping
  <2>1. call = Map!Idle
    BY <1>5 DEF IInv, InProgress
  <2>2. MapIInv'
    BY <1>5, OtherMap DEF IInv, Map!vars
  <2>3. notify_queue' \in Seq(Edits) /\ Newest \in Edits
    BY <1>2, <1>5, RemoveNewestFacts
  <2>4. colours' \in [ProjectSensors -> Colours]
    BY <1>2, <1>5, <2>3, EditFacts
  <2>5. InProgress' /\ FileMapped'
    BY <1>5, <2>1 DEF IInv, InProgress, FileMapped, Map!Idle, Map!Call
  <2>6. QED
    BY <1>1, <1>5, <2>2, <2>3, <2>4, <2>5 DEF IInv
<1>6. QED
  BY <1>3, <1>4, <1>5

\* A new project brings its own maps and nothing of the former one remains.
LEMMA ChangeIInv ==
    ASSUME IInv, NEW p \in Projects, ChangeActiveProject(p)
    PROVE  IInv'
<1> USE DEF ChangeActiveProject
<1>1. /\ MapIInv' /\ call' = Map!Idle
      /\ \A m \in MappingOf[p] : reverse_map'[m[2]] = m[1]
  BY NewProjectMap
<1>2. project' = p /\ signals' \subseteq SignalsOf[p] /\ colours' \in [SensorsOf[p] -> Colours]
  BY DEF NewProject
<1>3. p # NoProject
  BY ProjectAssumption
<1>4. ProjectTypeOK'
  BY <1>1, <1>2, <1>3, TypedMap DEF IInv, TypeOK, ProjectTypeOK, ProjectSensors
<1>5. TypeOK'
  BY <1>4 DEF IInv, TypeOK, PanelTypeOK, GeometryTypeOK, ForgetColours
<1>6. InProgress' /\ FileMapped'
  BY <1>1, <1>2 DEF InProgress, FileMapped, Map!Idle, Map!Call
<1>7. QED
  BY <1>1, <1>5, <1>6 DEF IInv

LEMMA NextIInv ==
    ASSUME IInv, [Next]_vars
    PROVE  IInv'
<1>1. CASE HandleNotification
  BY <1>1, HandleIInv
<1>2. ASSUME NEW p \in Projects, ChangeActiveProject(p)
      PROVE  IInv'
  BY <1>2, ChangeIInv
<1>3. /\ notify_queue \in Seq(Edits) /\ colours \in [ProjectSensors -> Colours]
      /\ project \in Projects \cup {NoProject}
  BY DEF IInv, TypeOK, ProjectTypeOK
<1>4. ASSUME UNCHANGED <<state, notify_queue, panels, shown>>
      PROVE  MapIInv' /\ ProjectTypeOK' /\ PanelTypeOK' /\ GeometryTypeOK' /\ FileMapped'
  <2>1. MapIInv'
    BY <1>4, OtherMap DEF IInv, Map!vars, state, mapping
  <2>2. QED
    BY <1>3, <1>4, <2>1, KeptProject
       DEF IInv, TypeOK, FileMapped, state, mapping, panels, PanelTypeOK, GeometryTypeOK
<1>5. CASE NotificationsDone
  <2>1. call' = Map!Idle /\ shown' = shown /\ phase' = "results"
    BY <1>5, SameMapping DEF NotificationsDone, Goto, IInv, InProgress, state, mapping
  <2>2. QED
    BY <1>4, <1>5, <2>1 DEF NotificationsDone, IInv, TypeOK, InProgress, Map!Idle, Map!Call
<1>6. CASE ResultsDone
  <2>1. call = Map!Idle
    BY <1>6 DEF ResultsDone, Goto, IInv, InProgress
  <2>2. call' = Map!Idle /\ shown' = shown /\ phase' = "geometry"
    BY <1>6, <2>1 DEF ResultsDone, Goto, state, mapping, Map!Idle, Map!Call
  <2>3. QED
    BY <1>4, <1>6, <2>2 DEF ResultsDone, IInv, TypeOK, InProgress, Map!Idle, Map!Call
<1>7. ASSUME NEW s \in Signals, ReceiveSignal(s)
      PROVE  IInv'
  <2> USE DEF ReceiveSignal, add_signal
  <2>1. call = Map!Idle
    BY <1>7 DEF IInv, InProgress
  <2>2. MapIInv'
    BY <1>7, OtherMap DEF IInv, Map!vars, mapping
  <2>3. requested_channel_mapping!TypeOK'
    BY <2>2, TypedMap
  <2>4. ProjectSensors' = ProjectSensors
    BY <1>7 DEF ProjectSensors
  <2>5. ProjectTypeOK'
    BY <1>7, <2>3, <2>4 DEF IInv, TypeOK, ProjectTypeOK
  <2>6. TypeOK'
    BY <1>7, <2>4, <2>5 DEF IInv, TypeOK, panels, PanelTypeOK, GeometryTypeOK
  <2>7. InProgress' /\ FileMapped'
    BY <1>7, <2>1 DEF IInv, InProgress, FileMapped, mapping, Map!Idle, Map!Call
  <2>8. QED
    BY <2>2, <2>6, <2>7 DEF IInv
<1>8. ASSUME UNCHANGED <<state, shown>>, phase \in {"geometry", "channels"},
             phase' \in {"channels", "notifications"}, notify_queue' \in Seq(Edits),
             PanelTypeOK', GeometryTypeOK'
      PROVE  IInv'
  <2>1. call = Map!Idle /\ MapIInv'
    BY <1>8, OtherMap DEF IInv, InProgress, Map!vars, state, mapping
  <2>2. TypeOK'
    BY <1>3, <1>8, <2>1, KeptProject DEF IInv, TypeOK, state
  <2>3. InProgress' /\ FileMapped'
    BY <1>8, <2>1 DEF IInv, InProgress, FileMapped, state, mapping, Map!Idle, Map!Call
  <2>4. QED
    BY <2>1, <2>2, <2>3 DEF IInv
<1>9. CASE DrawSensorGeometryPanel
  <2>1. GeometryTypeOK' /\ notify_queue' \in Seq(Edits)
    BY <1>9, GeometryFacts DEF DrawSensorGeometryPanel, state
  <2>2. PanelTypeOK'
    BY <1>9 DEF DrawSensorGeometryPanel, IInv, TypeOK, PanelTypeOK
  <2>3. QED
    BY <1>8, <1>9, <2>1, <2>2 DEF DrawSensorGeometryPanel, Goto
<1>10. CASE DrawChannelMappingPanel
  <2>1. PanelTypeOK' /\ notify_queue' \in Seq(Edits)
    BY <1>10, MappingPanelFacts DEF DrawChannelMappingPanel
  <2>2. GeometryTypeOK'
    BY <1>10 DEF DrawChannelMappingPanel, IInv, TypeOK, GeometryTypeOK, state, ProjectSensors
  <2>3. QED
    BY <1>8, <1>10, <2>1, <2>2 DEF DrawChannelMappingPanel, Goto
<1>11. CASE UNCHANGED vars
  <2>1. call' = Map!Idle <=> call = Map!Idle
    BY <1>11 DEF vars, state, mapping, Map!Idle, Map!Call
  <2>2. QED
    BY <1>4, <1>11, <2>1 DEF vars, state, mapping, IInv, TypeOK, InProgress, Newest
<1>12. QED
  BY <1>1, <1>2, <1>5, <1>6, <1>7, <1>9, <1>10, <1>11 DEF Next

\* The inductive invariant holds in every reachable state.
THEOREM Safety == Spec => []IInv
<1>1. Init => IInv
  BY InitIInv
<1>2. IInv /\ [Next]_vars => IInv'
  BY NextIInv
<1>3. QED
  BY <1>1, <1>2, PTL DEF Spec

\* The types of the active project, of the notifications and of both panels (TypeOK): what
\* is selected, cached or queued is an identity of some project, a freed one included.
THEOREM TypeCorrect == Spec => []TypeOK
<1>1. IInv => TypeOK
  BY DEF IInv
<1>2. QED
  BY <1>1, Safety, PTL

\* The two maps of the channel mapping are inverse to each other whenever no
\* emplace is in progress, whatever is requested, refused and replaced
\* (BidirectionalUnorderedMapping.hpp:38-47).
THEOREM InverseHolds == Spec => []Inverse
<1>1. IInv => Inverse
  BY SameMapping DEF IInv, MapIInv, Inverse
<1>2. QED
  BY <1>1, Safety, PTL

\* The pairs of the project file stay mapped, also in the middle of an emplace,
\* and are shown when their signal has been loaded (Project.hpp:225).
THEOREM FileMappingsHolds == Spec => []FileMappingsHold
<1>1. ASSUME IInv, project # NoProject, NEW m \in MappingOf[project]
      PROVE  /\ reverse_map[m[2]] = m[1]
             /\ m[1] \in signals => m \in observe_associations
  <2>1. project \in Projects
    BY <1>1 DEF IInv, TypeOK, ProjectTypeOK
  <2>2. /\ m = <<m[1], m[2]>> /\ m[1] \in Signals /\ m[2] \in Sensors
        /\ m[2] \in ProjectSensors
    BY <1>1, <2>1, Constants DEF ProjectSensors
  <2>3. reverse_map[m[2]] = m[1]
    BY <1>1 DEF IInv, FileMapped
  <2>4. forward_map[m[1]] = m[2]
    <3>1. CASE call = Map!Idle
      BY <1>1, <2>2, <2>3, <3>1 DEF IInv, MapIInv, Map!Inverse
    <3>2. CASE call # Map!Idle
      <4>1. call.op = "emplace"
        BY <1>1, <3>2 DEF IInv, InProgress
      <4>2. InverseButKey(call.key) /\ call.key # m[1]
        BY <1>1, <2>2, <2>3, <4>1 DEF IInv, MapIInv, HalfDone, InverseButKey
      <4>3. QED
        BY <2>2, <2>3, <4>2 DEF InverseButKey
    <3>3. QED
      BY <3>1, <3>2
  <2>5. QED
    BY <2>2, <2>3, <2>4 DEF observe_associations
<1>2. IInv => FileMappingsHold
  BY <1>1 DEF FileMappingsHold
<1>3. QED
  BY <1>2, Safety, PTL

------------------------------------------------------------------------------
(* The colours that the panel shows.  At most one colour edit is in the    *)
(* queue, because all are handled before the panel is drawn again; so its  *)
(* sensor is the only one whose copy may differ, and the edit says how.    *)

IsColourEdit(i) == notify_queue[i].kind = "colour"

ColourQueue ==
    /\ phase \in {"results", "geometry"} => notify_queue = <<>>
    /\ \A i \in DOMAIN notify_queue :
           IsColourEdit(i) => /\ notify_queue[i].project = project
                              /\ notify_queue[i].sensor \in ProjectSensors
    /\ \A i, j \in DOMAIN notify_queue : IsColourEdit(i) /\ IsColourEdit(j) => i = j

\* ColoursAgree, one sensor and one edit at a time.
CopyAgrees(v) ==
    /\ \A i \in DOMAIN notify_queue :
           IsColourEdit(i) /\ notify_queue[i].sensor = v
               => sensor_colours[v] = Packed(notify_queue[i].colour)
    /\ (\A i \in DOMAIN notify_queue : ~ (IsColourEdit(i) /\ notify_queue[i].sensor = v))
           => sensor_colours[v] = Packed(colours[v])

CopiesAgree == \A v \in DOMAIN sensor_colours : CopyAgrees(v)

CInv == ColourQueue /\ CopiesAgree

LEMMA CopiesAgreeIsColoursAgree == CopiesAgree <=> ColoursAgree
  BY DEF CopiesAgree, CopyAgrees, ColoursAgree, IsColourEdit

LEMMA InitCInv ==
    ASSUME Init
    PROVE  CInv
  BY DEF Init, ProjectInit, CInv, ColourQueue, CopiesAgree

\* Requests of a mapping that come and go do not matter.
LEMMA MapRequestCInv ==
    ASSUME IInv, CInv, UNCHANGED <<project, colours, sensor_colours>>,
           phase' \notin {"results", "geometry"},
           \/ UNCHANGED notify_queue
           \/ notify_queue # <<>> /\ Newest.kind = "map" /\ RemoveNewest
           \/ \E e \in Edits : e.kind = "map" /\ Notify(e)
    PROVE  CInv'
<1>1. notify_queue \in Seq(Edits)
  BY DEF IInv, TypeOK, ProjectTypeOK
<1>2. ProjectSensors' = ProjectSensors
  BY DEF ProjectSensors
<1> USE DEF CInv, ColourQueue, CopiesAgree, CopyAgrees, IsColourEdit
<1>3. CASE UNCHANGED notify_queue
  BY <1>2, <1>3
<1>4. CASE notify_queue # <<>> /\ Newest.kind = "map" /\ RemoveNewest
  <2>1. /\ Len(notify_queue) \in Nat \ {0}
        /\ DOMAIN notify_queue = 1..Len(notify_queue)
        /\ DOMAIN notify_queue' = 1..(Len(notify_queue) - 1)
        /\ \A i \in DOMAIN notify_queue' : notify_queue'[i] = notify_queue[i]
    BY <1>1, <1>4, RemoveNewestFacts
  <2>2. DOMAIN notify_queue = DOMAIN notify_queue' \cup {Len(notify_queue)}
    BY <2>1
  <2>3. notify_queue[Len(notify_queue)].kind # "colour"
    BY <1>4 DEF Newest
  <2>4. QED
    BY <1>2, <2>1, <2>2, <2>3
<1>5. CASE \E e \in Edits : e.kind = "map" /\ Notify(e)
  <2>1. PICK e \in Edits : e.kind = "map" /\ Notify(e)
    BY <1>5
  <2>2. /\ Len(notify_queue) \in Nat
        /\ DOMAIN notify_queue = 1..Len(notify_queue)
        /\ DOMAIN notify_queue' = 1..(Len(notify_queue) + 1)
        /\ \A i \in DOMAIN notify_queue : notify_queue'[i] = notify_queue[i]
        /\ notify_queue'[Len(notify_queue) + 1] = e
    BY <1>1, <2>1, NotifyFacts
  <2>3. DOMAIN notify_queue' = DOMAIN notify_queue \cup {Len(notify_queue) + 1}
    BY <2>2
  <2>4. QED
    BY <1>2, <2>1, <2>2, <2>3
<1>6. QED
  BY <1>3, <1>4, <1>5

\* The edit of a colour reaches the sensor that it was made for.
LEMMA ModifyColourCInv ==
    ASSUME IInv, CInv, phase = "notifications", ModifySensorColour,
           UNCHANGED <<phase, sensor_colours>>
    PROVE  CInv'
<1> DEFINE n == Len(notify_queue)
<1> USE DEF ModifySensorColour, Handling
<1>1. /\ notify_queue \in Seq(Edits) /\ notify_queue # <<>>
      /\ colours \in [ProjectSensors -> Colours] /\ GeometryTypeOK
  BY DEF IInv, TypeOK, ProjectTypeOK
<1>2. /\ n \in Nat \ {0}
      /\ DOMAIN notify_queue = 1..n
      /\ DOMAIN notify_queue' = 1..(n - 1)
      /\ \A i \in DOMAIN notify_queue' : notify_queue'[i] = notify_queue[i]
  BY <1>1, RemoveNewestFacts
<1>3. n \in DOMAIN notify_queue /\ IsColourEdit(n) /\ Newest = notify_queue[n]
  BY <1>2 DEF IsColourEdit, Newest
<1>4. Newest.project = project /\ Newest.sensor \in ProjectSensors
  BY <1>3 DEF CInv, ColourQueue
<1>5. colours' = [colours EXCEPT ![Newest.sensor] = Newest.colour]
  BY <1>4
<1>6. \A i \in DOMAIN notify_queue' : i \in DOMAIN notify_queue /\ i # n
  BY <1>2
<1>7. \A i \in DOMAIN notify_queue' : notify_queue'[i].kind # "colour"
  BY <1>2, <1>3, <1>6 DEF CInv, ColourQueue, IsColourEdit
<1>8. ColourQueue'
  BY <1>7 DEF ColourQueue, IsColourEdit
<1>9. ASSUME NEW v \in DOMAIN sensor_colours
      PROVE  sensor_colours[v] = Packed(colours'[v])
  <2>1. CopyAgrees(v) /\ v \in ProjectSensors
    BY <1>1, <1>9 DEF CInv, CopiesAgree, GeometryTypeOK
  <2>2. CASE v = Newest.sensor
    BY <1>1, <1>3, <1>4, <1>5, <2>1, <2>2 DEF CopyAgrees
  <2>3. CASE v # Newest.sensor
    <3>1. \A i \in DOMAIN notify_queue : ~ (IsColourEdit(i) /\ notify_queue[i].sensor = v)
      BY <1>3, <2>3 DEF CInv, ColourQueue
    <3>2. QED
      BY <1>1, <1>5, <2>1, <2>3, <3>1 DEF CopyAgrees
  <2>4. QED
    BY <2>2, <2>3
<1>10. CopiesAgree'
  BY <1>7, <1>9 DEF CopiesAgree, CopyAgrees, IsColourEdit
<1>11. QED
  BY <1>8, <1>10 DEF CInv

\* Drawing the panel with an empty queue: all copies agree with the sensors,
\* kept or renewed, and an edit changes one of them.
LEMMA GeometryCInv ==
    ASSUME IInv, CInv, phase = "geometry", phase' = "channels", DrawGeometry,
           UNCHANGED <<project, colours>>
    PROVE  CInv'
<1> DEFINE copies == recache_sensor_colours
<1>1. /\ notify_queue = <<>> /\ DOMAIN notify_queue = {} /\ ProjectSensors' = ProjectSensors
      /\ project \in Projects \cup {NoProject} /\ GeometryTypeOK
  BY DEF CInv, ColourQueue, ProjectSensors, IInv, TypeOK, ProjectTypeOK
<1>2. \A v \in DOMAIN sensor_colours : sensor_colours[v] = Packed(colours[v])
  BY <1>1 DEF CInv, CopiesAgree, CopyAgrees
<1>3. \A v \in DOMAIN copies : copies[v] = Packed(colours[v])
  BY <1>2 DEF recache_sensor_colours
<1>4. CASE UNCHANGED notify_queue /\ sensor_colours' \in {sensor_colours, copies}
  <2>1. DOMAIN notify_queue' = {}
    BY <1>1, <1>4
  <2>2. \A v \in DOMAIN sensor_colours' : sensor_colours'[v] = Packed(colours'[v])
    BY <1>2, <1>3, <1>4
  <2>3. QED
    BY <1>1, <2>1, <2>2 DEF CInv, ColourQueue, CopiesAgree, CopyAgrees
<1>5. ASSUME NEW v \in ProjectSensors, NEW c \in Colours, EditColour(v, c)
      PROVE  CInv'
  <2> DEFINE e == [kind |-> "colour", project |-> project, sensor |-> v, colour |-> c]
  <2>1. sensor_colours' = [copies EXCEPT ![v] = Packed(c)] /\ notify_queue' = <<e>>
    BY <1>1, <1>5 DEF EditColour, Notify
  <2>2. DOMAIN notify_queue' = {1} /\ notify_queue'[1] = e
    BY <2>1
  <2>3. ColourQueue'
    BY <1>1, <1>5, <2>2 DEF ColourQueue, IsColourEdit
  <2>4. ASSUME NEW u \in DOMAIN copies
        PROVE  CopyAgrees(u)'
    BY <1>3, <2>1, <2>2 DEF CopyAgrees, IsColourEdit
  <2>5. DOMAIN sensor_colours' = DOMAIN copies
    BY <2>1
  <2>6. QED
    BY <2>3, <2>4, <2>5 DEF CInv, CopiesAgree
<1>6. QED
  BY <1>4, <1>5 DEF DrawGeometry

LEMMA NextCInv ==
    ASSUME IInv, CInv, [Next]_vars
    PROVE  CInv'
<1> USE DEF state, panels, vars, Goto, mapping
<1>1. CASE HandleNotification
  <2> USE <1>1 DEF HandleNotification
  <2>1. CASE BeginAddAssociation
    <3>1. \/ UNCHANGED notify_queue
          \/ notify_queue # <<>> /\ Newest.kind = "map" /\ RemoveNewest
      BY <2>1, BeginFacts DEF BeginAddAssociation, Handling
    <3>2. QED
      BY <2>1, <3>1, BeginFacts, MapRequestCInv
  <2>2. CASE EndAddAssociation
    <3>1. call # Map!Idle
      BY <2>2 DEF EndAddAssociation, requested_channel_mapping!EmplaceReverse,
                  requested_channel_mapping!EmplaceRollback, Map!Idle, Map!Call
    <3>2. QED
      BY <2>2, <3>1, EndFacts, MapRequestCInv DEF IInv, InProgress
  <2>3. QED
    BY <2>1, <2>2, ModifyColourCInv
<1>2. CASE NotificationsDone
  BY <1>2 DEF NotificationsDone, CInv, ColourQueue, CopiesAgree, CopyAgrees, IsColourEdit,
              ProjectSensors
<1>3. ASSUME NEW p \in Projects, ChangeActiveProject(p)
      PROVE  CInv'
  BY <1>3 DEF ChangeActiveProject, ForgetColours, CInv, ColourQueue, CopiesAgree
<1>4. ASSUME NEW s \in Signals, ReceiveSignal(s)
      PROVE  CInv'
  BY <1>4 DEF ReceiveSignal, add_signal, CInv, ColourQueue, CopiesAgree, CopyAgrees,
              IsColourEdit, ProjectSensors
<1>5. CASE ResultsDone
  BY <1>5 DEF ResultsDone, CInv, ColourQueue, CopiesAgree, CopyAgrees, IsColourEdit,
              ProjectSensors
<1>6. CASE DrawSensorGeometryPanel
  BY <1>6, GeometryCInv DEF DrawSensorGeometryPanel
<1>7. CASE DrawChannelMappingPanel
  BY <1>7, MappingPanelFacts, MapRequestCInv DEF DrawChannelMappingPanel
<1>8. CASE UNCHANGED vars
  BY <1>8 DEF CInv, ColourQueue, CopiesAgree, CopyAgrees, IsColourEdit, ProjectSensors
<1>9. QED
  BY <1>1, <1>2, <1>3, <1>4, <1>5, <1>6, <1>7, <1>8 DEF Next

\* Once all edits are handled, each sensor has the colour that the panel shows
\* of it, over changes of the project too (SensorGeometryPanel.cpp:113-130).
THEOREM ColoursAgreeHolds == Spec => []ColoursAgree
<1>1. Init => CInv
  BY InitCInv
<1>2. IInv /\ CInv /\ [Next]_vars => CInv'
  BY NextCInv
<1>3. CInv => ColoursAgree
  BY CopiesAgreeIsColoursAgree DEF CInv
<1>4. QED
  BY <1>1, <1>2, <1>3, Safety, PTL DEF Spec
==============================================================================
