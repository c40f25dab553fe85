----------------------------- MODULE ProjectFiles -----------------------------
(***************************************************************************)
(* src/objects/persistence/ and LoadSignalFileTask: how a project file and *)
(* the sound files it refers to become a project with its signals.         *)
(*                                                                         *)
(* On the desktop the deserialiser groups the signals by their sound file  *)
(* and submits a task for every file, before it has read the sensors and   *)
(* the mappings.  In the browser it leaves the groups in the project, and  *)
(* the tasks are submitted when the user has uploaded the files (EchoMap). *)
(* A task reads its file in chunks of interleaved frames.                  *)
(*                                                                         *)
(* A signal is its place in the document, a sample is the place it has in  *)
(* its sound file: <<path, channel, frame>>.                               *)
(***************************************************************************)
EXTENDS Naturals, Sequences, FiniteSets

CONSTANTS Documents,     \* the project files that may be loaded
          Paths,         \* the sound files they refer to
          Embedded,      \* in place of a path: the samples are in the document
          Builds,        \* FALSE: built for the browser, TRUE: for the desktop
          MaxChannels,   \* bound: the channels of a sound file
          FrameCounts,   \* the frames of a sound file
          ChunkFrames    \* chunk_frame_count, the frames that are read at once

ASSUME PathsAssumption == Embedded \notin Paths
ASSUME DocumentsAssumption ==
    \A d \in Documents :
        /\ \A part \in {d.signals, d.sensors, d.mappings} :
               part \in Seq({part[k] : k \in DOMAIN part})
        /\ \A i \in DOMAIN d.signals : /\ d.signals[i].path \in Paths \cup {Embedded}
                                      /\ d.signals[i].channel \in Nat
ASSUME BuildsAssumption == Builds \subseteq BOOLEAN
ASSUME FramesAssumption == FrameCounts \subseteq Nat /\ MaxChannels \in Nat
ASSUME ChunkAssumption == ChunkFrames \in Nat \ {0}

VARIABLES native,     \* built for the desktop, not for the browser
          running,    \* FALSE after a failed assertion or an access out of bounds
          document,   \* the project file
          parse,      \* the part of it that is being read
          next,       \* the element of that part which is next
          slots,      \* the factories of each file, by channel; 0 is the null pointer
          built,      \* the project that is being constructed
          tasks,      \* the LoadSignalFileTasks that are not answered
          wave,       \* the sound file that is being read, or NoWave
          samples,    \* the samples that the factory of each signal has
          results,    \* what the main thread has not received
          project,    \* the project that it has received, or None
          signals,    \* the signals of that project, with their samples
          files       \* history: what became of each sound file

parser == <<document, parse, next, slots, built>>
reader == <<wave, samples, files>>
main == <<project, signals>>
vars == <<native, running, parser, tasks, reader, results, main>>

None == [sensors |-> {}, associations |-> {}, exists |-> FALSE]
NoWave == [channels |-> <<>>, frames |-> 0, remaining |-> 0]

Promise == INSTANCE ProjectLoad WITH arrived <- DOMAIN signals
Entries == Promise!Entries
Entry(i) == Promise!Entry(i)

Sensors == {document.sensors[k] : k \in DOMAIN document.sensors}
Projects == [sensors : SUBSET Sensors, associations : SUBSET (Entries \X Sensors), exists : BOOLEAN]
Factories == Seq(Entries \cup {0})
Samples == Paths \X (Nat \ {0}) \X (Nat \ {0})

AreSignals(s) == DOMAIN s \subseteq Entries /\ \A i \in DOMAIN s : s[i] \in Seq(Samples)

IsAnswer(result) ==
    \/ result.kind \in {"null", "error"}
    \/ result.kind = "project" /\ result.project \in Projects
    \/ result.kind = "signals" /\ AreSignals(result.signals)

TypeOK ==
    /\ native \in Builds
    /\ running \in BOOLEAN
    /\ document \in Documents
    /\ parse \in {"document", "signals", "sensors", "mappings", "done", "failed"}
    /\ next \in Nat \ {0}
    /\ slots \in [Paths -> Factories]
    /\ built \in Projects
    /\ tasks \in Seq([path : Paths, factories : Factories])
    /\ wave \in [channels : Factories, frames : FrameCounts \cup {0}, remaining : Nat]
    /\ wave.remaining <= wave.frames
    /\ samples \in [Entries -> Seq(Samples)]
    /\ \A r \in DOMAIN results : IsAnswer(results[r])
    /\ project \in Projects
    /\ AreSignals(signals)
    /\ files \in [Paths -> {"unread", "bad", "good"}]

Init ==
    /\ native \in Builds
    /\ running = TRUE
    /\ document \in Documents
    /\ parse = "document"
    /\ next = 1
    /\ slots = [path \in Paths |-> <<>>]
    /\ built = None
    /\ tasks = <<>>
    /\ wave = NoWave
    /\ samples = [i \in Entries |-> <<>>]
    /\ results = <<>>
    /\ project = None
    /\ signals = <<>>
    /\ files = [path \in Paths |-> "unread"]

------------------------------------------------------------------------------
(* LoadProjectTask: JSONDeserialiser::deserialise_project *)

Reading(part) ==
    /\ running
    /\ parse = part
    /\ UNCHANGED <<native, document, reader, main>>

\* The task is answered by an exception or by a null project.
Fail(kind) ==
    /\ parse' = "failed"
    /\ results' = Append(results, [kind |-> kind])
    /\ UNCHANGED <<running, next, slots, built, tasks>>

Abort ==
    /\ running' = FALSE
    /\ UNCHANGED <<parse, next, slots, built, tasks, results>>

GoOn(part) ==
    /\ parse' = part
    /\ next' = 1
    /\ UNCHANGED <<running, results>>

\* A missing field is an error code and ends in a null project; the version,
\* an unknown kind of source and a wrong count of samples end in an exception.
FailToParse ==
    \/ Reading("document") /\ (Fail("null") \/ Fail("error"))
    \/ (Reading("sensors") \/ Reading("mappings")) /\ Fail("null")

get_metadata ==
    /\ Reading("document")
    /\ GoOn("signals")
    /\ UNCHANGED <<slots, built, tasks>>

NextSignal == Entry(next)

\* The factory of a signal is dropped when the signal is embedded, and in the
\* browser when another one takes its channel.
Dropped(i, last) ==
    \/ Entry(i).path = Embedded
    \/ \E j \in (i + 1)..last : /\ Entry(j).path = Entry(i).path
                                /\ Entry(j).channel = Entry(i).channel

\* The keys of the table of names are views of the names that the signals own,
\* so whether the name of a dropped signal is found is undefined.
Finds(name, last) ==
    LET found == {i \in 1..last : Entry(i).name = name}
    IN  IF \A i \in found : Dropped(i, last) THEN found \cup {0} ELSE found

\* The vector is extended with null pointers as far as the channel.
WithSlot(vector, channel, i) ==
    [c \in 1..(IF channel > Len(vector) THEN channel ELSE Len(vector)) |->
        IF c = channel THEN i ELSE IF c <= Len(vector) THEN vector[c] ELSE 0]

IsTaken(vector, channel) == channel <= Len(vector) /\ vector[channel] # 0

\* Both builds refuse a second signal of the same name; only the desktop refuses
\* a second signal of the same channel.
RefuseSignal ==
    /\ Reading("signals")
    /\ next <= Len(document.signals)
    /\ \/ \E i \in Finds(NextSignal.name, next - 1) : i # 0
       \/ /\ 0 \in Finds(NextSignal.name, next - 1)
          /\ native
          /\ NextSignal.path # Embedded
          /\ NextSignal.channel # 0
          /\ IsTaken(slots[NextSignal.path], NextSignal.channel)
    /\ Fail("error")

\* The browser asserts that every signal has a source, and channel 0 is at index -1.
OutOfBounds ==
    /\ Reading("signals")
    /\ next <= Len(document.signals)
    /\ 0 \in Finds(NextSignal.name, next - 1)
    /\ IF NextSignal.path = Embedded THEN ~native ELSE NextSignal.channel = 0
    /\ Abort

\* The factory of an embedded signal goes out of scope with its samples.
SkipEmbedded ==
    /\ Reading("signals")
    /\ next <= Len(document.signals)
    /\ 0 \in Finds(NextSignal.name, next - 1)
    /\ NextSignal.path = Embedded
    /\ native
    /\ next' = next + 1
    /\ UNCHANGED <<running, parse, slots, built, tasks, results>>

PlaceSignal ==
    /\ Reading("signals")
    /\ next <= Len(document.signals)
    /\ 0 \in Finds(NextSignal.name, next - 1)
    /\ NextSignal.path # Embedded
    /\ NextSignal.channel # 0
    /\ native => ~IsTaken(slots[NextSignal.path], NextSignal.channel)
    /\ slots' = [slots EXCEPT ![NextSignal.path] = WithSlot(@, NextSignal.channel, next)]
    /\ next' = next + 1
    /\ UNCHANGED <<running, parse, built, tasks, results>>

\* The task takes the factories with it.
Submit(path) ==
    /\ slots[path] # <<>>
    /\ tasks' = Append(tasks, [path |-> path, factories |-> slots[path]])
    /\ slots' = [slots EXCEPT ![path] = <<>>]

\* On the desktop, a task for every file, in some order.
SubmitLoadSignalFile(path) ==
    /\ Reading("signals")
    /\ next > Len(document.signals)
    /\ native
    /\ Submit(path)
    /\ UNCHANGED <<running, parse, next, built, results>>

SignalsDone ==
    /\ Reading("signals")
    /\ next > Len(document.signals)
    /\ native => \A path \in Paths : slots[path] = <<>>
    /\ GoOn("sensors")
    /\ UNCHANGED <<slots, built, tasks>>

get_sensor ==
    /\ Reading("sensors")
    /\ next <= Len(document.sensors)
    /\ IF document.sensors[next] \in built.sensors
       THEN Fail("error")
       ELSE /\ built' = [built EXCEPT !.sensors = @ \cup {document.sensors[next]}]
            /\ next' = next + 1
            /\ UNCHANGED <<running, parse, slots, tasks, results>>

SensorsDone ==
    /\ Reading("sensors")
    /\ next > Len(document.sensors)
    /\ GoOn("mappings")
    /\ UNCHANGED <<slots, built, tasks>>

\* Mutant: the association is stored without a look at the others.
MayAssociate_Unchecked(i, sensor) == i # 0 /\ sensor \in built.sensors

\* Both names are known, and neither is mapped already.
MayAssociate(i, sensor) ==
    /\ i # 0
    /\ sensor \in built.sensors
    /\ \A pair \in built.associations : pair[1] # i /\ pair[2] # sensor

get_mapping ==
    LET sensor == document.mappings[next].sensor
    IN  /\ Reading("mappings")
        /\ next <= Len(document.mappings)
        /\ \E i \in Finds(document.mappings[next].signal, Len(document.signals)) :
               IF MayAssociate(i, sensor)
               THEN /\ built' = [built EXCEPT !.associations = @ \cup {<<i, sensor>>}]
                    /\ next' = next + 1
                    /\ UNCHANGED <<running, parse, slots, tasks, results>>
               ELSE Fail("error")

\* In the browser the project takes unloaded_signals with it.
FinishProject ==
    /\ Reading("mappings")
    /\ next > Len(document.mappings)
    /\ parse' = "done"
    /\ results' = Append(results, [kind |-> "project", project |-> [built EXCEPT !.exists = TRUE]])
    /\ UNCHANGED <<running, next, slots, built, tasks>>

Deserialise ==
    \/ FailToParse \/ get_metadata
    \/ RefuseSignal \/ OutOfBounds \/ SkipEmbedded \/ PlaceSignal
    \/ \E path \in Paths : SubmitLoadSignalFile(path)
    \/ SignalsDone
    \/ get_sensor \/ SensorsDone \/ get_mapping \/ FinishProject

------------------------------------------------------------------------------
(* LoadSignalFileTask, after LoadProjectTask: the same thread runs both *)

Task == Head(tasks)

Loading ==
    /\ running
    /\ parse \in {"done", "failed"}
    /\ tasks # <<>>
    /\ UNCHANGED <<native, parser, main>>

\* Mutant: an exception ends the loop over the tasks.
FileFails_DropsTasks ==
    /\ results' = Append(results, [kind |-> "error"])
    /\ tasks' = <<>>
    /\ wave' = NoWave
    /\ files' = [files EXCEPT ![Task.path] = "bad"]
    /\ UNCHANGED <<running, samples>>

\* Whether a file can be opened and read is up to its contents (dr_wav).
FileFails ==
    /\ results' = Append(results, [kind |-> "error"])
    /\ tasks' = Tail(tasks)
    /\ wave' = NoWave
    /\ files' = [files EXCEPT ![Task.path] = "bad"]
    /\ UNCHANGED <<running, samples>>

CannotOpen == Loading /\ wave = NoWave /\ FileFails

\* The channels of the file, and for each the signal it belongs to, or 0.
OpenFile(channels, frames) ==
    /\ Loading
    /\ wave = NoWave
    /\ channels >= Len(Task.factories)
    /\ wave' = [channels |-> [c \in 1..channels |->
                                  IF c <= Len(Task.factories) THEN Task.factories[c] ELSE 0],
                frames |-> frames, remaining |-> frames]
    /\ UNCHANGED <<running, tasks, samples, results, files>>

\* "assert(drwav_info.channels >= channel_factories.size())": without it, a
\* signal is written beyond the end of the vector of channels.
TooFewChannels(channels) ==
    /\ Loading
    /\ wave = NoWave
    /\ channels < Len(Task.factories)
    /\ running' = FALSE
    /\ UNCHANGED <<tasks, wave, samples, results, files>>

Count == IF wave.remaining < ChunkFrames THEN wave.remaining ELSE ChunkFrames
Channels == Len(wave.channels)

\* The buffer after a read: for every frame, a sample of every channel.
interleaved ==
    [x \in 0..(Count * Channels - 1) |->
        <<Task.path, (x % Channels) + 1, wave.frames - wave.remaining + (x \div Channels) + 1>>]

\* Mutant: the buffer holds one channel after the other.
Deinterleaved_Planar(c) == [k \in 1..Count |-> interleaved[(c - 1) * Count + k - 1]]

\* The samples of a channel in the buffer.
Deinterleaved(c) == [k \in 1..Count |-> interleaved[(k - 1) * Channels + c - 1]]

ReadChunk ==
    /\ Loading
    /\ wave.remaining > 0
    /\ samples' = [i \in Entries |->
                      IF \E c \in 1..Channels : wave.channels[c] = i
                      THEN samples[i] \o Deinterleaved(CHOOSE c \in 1..Channels : wave.channels[c] = i)
                      ELSE samples[i]]
    /\ wave' = [wave EXCEPT !.remaining = @ - Count]
    /\ UNCHANGED <<running, tasks, results, files>>

\* Fewer frames than the header of the file says.
ReadTooShort == Loading /\ wave.remaining > 0 /\ FileFails

Owned(factories) == {factories[c] : c \in DOMAIN factories} \ {0}

\* Everything has been read.
TakeSignals ==
    /\ Loading
    /\ wave # NoWave
    /\ wave.remaining = 0
    /\ results' = Append(results, [kind |-> "signals",
                                   signals |-> [i \in Owned(Task.factories) |-> samples[i]]])
    /\ tasks' = Tail(tasks)
    /\ wave' = NoWave
    /\ files' = [files EXCEPT ![Task.path] = "good"]
    /\ UNCHANGED <<running, samples>>

Load ==
    \/ CannotOpen \/ ReadChunk \/ ReadTooShort \/ TakeSignals
    \/ \E channels \in 1..MaxChannels :
           TooFewChannels(channels) \/ \E frames \in FrameCounts : OpenFile(channels, frames)

------------------------------------------------------------------------------
(* The main thread, EchoMap::process_worker_results *)

Receive(kind) ==
    /\ running
    /\ results # <<>>
    /\ Head(results).kind = kind
    /\ results' = Tail(results)
    /\ UNCHANGED <<native, parser, reader>>

ReceiveProject ==
    /\ Receive("project")
    /\ project' = Head(results).project
    /\ UNCHANGED <<running, tasks, signals>>

\* The project is used without a look at the pointer.
ReceiveNull ==
    /\ Receive("null")
    /\ running' = FALSE
    /\ UNCHANGED <<tasks, main>>

ReceiveError == Receive("error") /\ UNCHANGED <<running, tasks, main>>

\* Signals of a project that has failed to load are dropped.
ReceiveSignals ==
    LET new == Head(results).signals
    IN  /\ Receive("signals")
        /\ signals' = IF project = None THEN signals
                      ELSE [i \in DOMAIN signals \cup DOMAIN new |->
                                IF i \in DOMAIN new THEN new[i] ELSE signals[i]]
        /\ UNCHANGED <<running, tasks, project>>

\* In the browser, one turn of the loop of CompleteProjectLoad.
SubmitUploaded(path) ==
    /\ running
    /\ project # None
    /\ Submit(path)
    /\ UNCHANGED <<native, running, document, parse, next, built, reader, results, main>>

Main ==
    \/ ReceiveProject \/ ReceiveNull \/ ReceiveError \/ ReceiveSignals

Next ==
    \/ Deserialise \/ Load \/ Main
    \/ \E path \in Paths : SubmitUploaded(path)

Spec == Init /\ [][Next]_vars

(* The computation thread works and frames go on.  The user may never upload *)
(* a file.                                                                   *)
FairSpec == Spec /\ WF_vars(Deserialise \/ Load) /\ WF_vars(Main)

------------------------------------------------------------------------------
(* JSONSerialiser::serialise_project: the signals of a project are all from *)
(* files and untouched, so what is written of them is where they are from.  *)

SetToSeqOf(S) == CHOOSE f \in [1..Cardinality(S) -> S] : \A i, j \in DOMAIN f : i # j => f[i] # f[j]

\* Mutant: pairs are written whether or not their signal is there.
observe_associations_All == project.associations

\* resolve_pair: the associations of which both sides are in the project.
observe_associations ==
    {pair \in project.associations : pair[1] \in DOMAIN signals /\ pair[2] \in project.sensors}

serialise_project ==
    [signals |-> SetToSeqOf({Entry(i) : i \in DOMAIN signals}),
     sensors |-> SetToSeqOf(project.sensors),
     mappings |-> SetToSeqOf({[signal |-> Entry(pair[1]).name, sensor |-> pair[2]] :
                              pair \in observe_associations})]

------------------------------------------------------------------------------
(* Properties *)

\* The project appears at once, with everything that the document says of it
\* but the signals, and only if the document is consistent; a sound file brings
\* all of its signals or none of them, once.
ImplementsProjectLoad == Promise!Spec

\* "The first slot owns the factory for constructing the signal on Channel 1,
\* the second for Channel 2" (JSONDeserialiser.cpp:123): a signal of the project
\* has every frame of the channel that the document names, in order, whatever
\* gaps are between the channels and wherever the chunks end.
SignalsAreWholeChannels ==
    \A i \in DOMAIN signals :
        /\ Len(signals[i]) \in FrameCounts
        /\ \A k \in DOMAIN signals[i] : signals[i][k] = <<Entry(i).path, Entry(i).channel, k>>
        /\ \A j \in DOMAIN signals :
               Entry(i).path = Entry(j).path => Len(signals[i]) = Len(signals[j])

\* What is saved can be loaded: JSONDeserialiser would refuse none of it, also
\* after a sound file has failed and its signals are missing.
SavedProjectLoads ==
    project # None =>
        LET saved == serialise_project
        IN  /\ Promise!Distinct([i \in DOMAIN saved.signals |-> saved.signals[i].name])
            /\ Promise!Distinct([i \in DOMAIN saved.signals |->
                                    <<saved.signals[i].path, saved.signals[i].channel>>])
            /\ \A m \in DOMAIN saved.mappings :
                   /\ \E i \in DOMAIN saved.signals : saved.signals[i].name = saved.mappings[m].signal
                   /\ \E k \in DOMAIN saved.sensors : saved.sensors[k] = saved.mappings[m].sensor
                   /\ \A n \in DOMAIN saved.mappings :
                          m # n => /\ saved.mappings[m].signal # saved.mappings[n].signal
                                   /\ saved.mappings[m].sensor # saved.mappings[n].sensor

\* On the desktop every sound file of a project that has been loaded arrives,
\* or an error is raised for it; that another file fails does not matter.
EveryFileAnswers ==
    \A path \in Paths :
        native /\ project # None /\ Promise!On(path) # {}
            ~> ~running \/ files[path] = "bad" \/ Promise!On(path) \subseteq DOMAIN signals
==============================================================================
