-------------------------- MODULE ProjectFilesProofs --------------------------
(***************************************************************************)
(* Proofs about ProjectFiles, for any project files, sound files, channel  *)
(* and frame counts and sizes of a chunk, and for both builds.             *)
(*                                                                         *)
(* A sound file is in one place at a time: its factories are in a slot, in *)
(* a task, in a result, or its signals are in the project.  What is said   *)
(* of the factories there does not change on the way: they are the signals *)
(* that the document keeps of the file, each at the place of its channel.  *)
(***************************************************************************)
EXTENDS ProjectFiles, FiniteSetTheorems, TLAPS

------------------------------------------------------------------------------
(* What the invariant says of the parts of the state *)

\* The signals of a file that the first entries of the document leave over.
Kept(path, last) == {i \in 1..last : Entry(i).path = path /\ ~Dropped(i, last)}

Whole(path) == Kept(path, Len(document.signals))

\* The factories of a file, each at the place of its channel, and no others.
IsVectorOf(vector, path, last) ==
    /\ vector \in Seq(Nat)
    /\ \A c \in 1..Len(vector) :
           vector[c] # 0 => vector[c] \in Kept(path, last) /\ Entry(vector[c]).channel = c
    /\ \A i \in Kept(path, last) :
           Entry(i).channel \in 1..Len(vector) /\ vector[Entry(i).channel] = i
    /\ vector # <<>> => Kept(path, last) # {}

\* The first frames of the channel of a signal.
Frames(i, n) == [k \in 1..n |-> <<Entry(i).path, Entry(i).channel, k>>]

\* The names that the table of the deserialiser tells apart.
DistinctNames(last) ==
    \A i, j \in 1..last :
        i # j /\ ~Dropped(i, last) /\ ~Dropped(j, last) => Entry(i).name # Entry(j).name

SensorsUpTo(last) == {document.sensors[k] : k \in 1..last}

\* The pairs of the first mappings of the document.
Mapped(pairs, last) ==
    /\ \A pair \in pairs :
           /\ pair = <<pair[1], pair[2]>>
           /\ pair[1] \in 1..Len(document.signals)
           /\ pair[2] \in SensorsUpTo(Len(document.sensors))
           /\ \E m \in 1..last : /\ Entry(pair[1]).name = document.mappings[m].signal
                                 /\ pair[2] = document.mappings[m].sensor
    /\ \A m \in 1..last :
           \E pair \in pairs : /\ Entry(pair[1]).name = document.mappings[m].signal
                               /\ pair[2] = document.mappings[m].sensor
    /\ \A p, q \in pairs : p[1] = q[1] <=> p[2] = q[2]

\* The project of the whole document.
Complete(p) ==
    /\ p.exists = TRUE
    /\ p.sensors = SensorsUpTo(Len(document.sensors))
    /\ Mapped(p.associations, Len(document.mappings))

Consistent ==
    /\ DistinctNames(Len(document.signals))
    /\ \A k, l \in 1..Len(document.sensors) : k # l => document.sensors[k] # document.sensors[l]

\* All signals of a file, each with the same number of frames of its channel.
Arrived(new, path, n) ==
    /\ n \in FrameCounts
    /\ files[path] = "good"
    /\ Whole(path) # {}
    /\ \A i \in Whole(path) : i \in DOMAIN new /\ new[i] = Frames(i, n)

IsResult(r, kind) == r \in 1..Len(results) /\ results[r].kind = kind

------------------------------------------------------------------------------
(* The inductive invariant *)

\* The types that the rest of the invariant relies on.
ShapeOK ==
    /\ native \in BOOLEAN
    /\ document \in Documents
    /\ parse \in {"document", "signals", "sensors", "mappings", "done", "failed"}
    /\ next \in Nat \ {0}
    /\ slots \in [Paths -> Seq(Nat)]
    /\ tasks \in Seq([path : Paths, factories : Seq(Nat)])
    /\ DOMAIN samples = Entries
    /\ results \in Seq({results[r] : r \in DOMAIN results})
    /\ files \in [Paths -> {"unread", "bad", "good"}]

\* While signals are being read, the slots are those of the signals so far;
\* afterwards a slot is complete until a task takes it.
SlotsOK ==
    /\ parse \in {"document", "signals"} =>
           /\ parse = "document" => next = 1
           /\ next <= Len(document.signals) + 1
           /\ DistinctNames(next - 1)
           /\ next <= Len(document.signals) =>
                  tasks = <<>> /\ \A path \in Paths : IsVectorOf(slots[path], path, next - 1)
    /\ parse # "failed" /\ ~(parse \in {"document", "signals"} /\ next <= Len(document.signals)) =>
           \A path \in Paths :
               slots[path] = <<>> \/ IsVectorOf(slots[path], path, Len(document.signals))
    /\ \A path \in Paths : slots[path] # <<>> => files[path] = "unread"

\* A task has all factories of its file, which is nowhere else.
TasksOK ==
    \A t \in 1..Len(tasks) :
        /\ IsVectorOf(tasks[t].factories, tasks[t].path, Len(document.signals))
        /\ tasks[t].factories # <<>>
        /\ slots[tasks[t].path] = <<>>
        /\ files[tasks[t].path] = "unread"
        /\ \A u \in 1..Len(tasks) : tasks[u].path = tasks[t].path => u = t

\* The sound file that is being read is the one of the first task.
WaveOK ==
    /\ parse \notin {"done", "failed"} => wave = NoWave /\ \A path \in Paths : files[path] = "unread"
    /\ wave # NoWave =>
           /\ tasks # <<>>
           /\ wave = [channels |-> wave.channels, frames |-> wave.frames,
                      remaining |-> wave.remaining]
           /\ wave.channels \in Seq(Nat)
           /\ wave.frames \in FrameCounts
           /\ wave.remaining \in 0..wave.frames
           /\ Channels \in Nat \ {0}
           /\ Len(Task.factories) <= Channels
           /\ \A c \in 1..Channels :
                  wave.channels[c] = IF c <= Len(Task.factories) THEN Task.factories[c] ELSE 0

IsBeingRead(i) == wave # NoWave /\ i \in Whole(Task.path)

SamplesOK ==
    \A i \in Entries :
        Entry(i).path \in Paths /\ files[Entry(i).path] = "unread" =>
            samples[i] = Frames(i, IF IsBeingRead(i) THEN wave.frames - wave.remaining ELSE 0)

\* The project so far is that of the part of the document that has been read.
BuiltOK ==
    /\ parse \in {"document", "signals"} => built = None
    /\ parse \in {"sensors", "mappings", "done"} => DistinctNames(Len(document.signals))
    /\ parse = "sensors" =>
           /\ next <= Len(document.sensors) + 1
           /\ built = [sensors |-> SensorsUpTo(next - 1), associations |-> {}, exists |-> FALSE]
           /\ \A k, l \in 1..(next - 1) : k # l => document.sensors[k] # document.sensors[l]
    /\ parse \in {"mappings", "done"} => Consistent
    /\ parse = "mappings" =>
           /\ next <= Len(document.mappings) + 1
           /\ built = [sensors |-> SensorsUpTo(Len(document.sensors)),
                       associations |-> built.associations, exists |-> FALSE]
           /\ Mapped(built.associations, next - 1)

\* There is one project, on its way or received.
ProjectOK ==
    /\ project # None => parse = "done" /\ Complete(project)
    /\ \A r \in 1..Len(results) :
           IsResult(r, "project") =>
               /\ parse = "done" /\ project = None
               /\ Complete(results[r].project)
               /\ \A q \in 1..Len(results) : IsResult(q, "project") => q = r

\* The signals of a file are in one result, or they have been received.
ArrivedOK ==
    /\ \A r \in 1..Len(results) :
           IsResult(r, "signals") =>
               /\ \E path \in Paths, n \in FrameCounts :
                      /\ Arrived(results[r].signals, path, n)
                      /\ DOMAIN results[r].signals = Whole(path)
               /\ DOMAIN results[r].signals \cap DOMAIN signals = {}
               /\ \A q \in 1..Len(results) :
                      IsResult(q, "signals") /\ q # r =>
                          DOMAIN results[q].signals \cap DOMAIN results[r].signals = {}
    /\ \A i \in DOMAIN signals :
           \E path \in Paths, n \in FrameCounts : Arrived(signals, path, n) /\ i \in Whole(path)

IInv ==
    /\ ShapeOK /\ SlotsOK /\ TasksOK /\ WaveOK /\ SamplesOK
    /\ BuiltOK /\ ProjectOK /\ ArrivedOK

------------------------------------------------------------------------------
(* Documents and sequences *)

LEMMA DocumentFacts ==
    ASSUME document \in Documents
    PROVE  /\ Len(document.signals) \in Nat /\ Entries = 1..Len(document.signals)
           /\ Len(document.sensors) \in Nat
           /\ DOMAIN document.sensors = 1..Len(document.sensors)
           /\ Len(document.mappings) \in Nat
           /\ DOMAIN document.mappings = 1..Len(document.mappings)
           /\ \A i \in Entries : Entry(i).path \in Paths \cup {Embedded} /\ Entry(i).channel \in Nat
<1> DEFINE IsSequence(part) == part \in Seq({part[k] : k \in DOMAIN part})
<1>1. ASSUME NEW part, IsSequence(part)
      PROVE  Len(part) \in Nat /\ DOMAIN part = 1..Len(part)
  BY <1>1
<1>2. /\ IsSequence(document.signals) /\ IsSequence(document.sensors)
      /\ IsSequence(document.mappings)
  BY DocumentsAssumption DEF DocumentsAssumption
<1> HIDE DEF IsSequence
<1>3. \A i \in DOMAIN document.signals : /\ document.signals[i].path \in Paths \cup {Embedded}
                                         /\ document.signals[i].channel \in Nat
  BY DocumentsAssumption DEF DocumentsAssumption
<1>4. QED
  BY <1>1, <1>2, <1>3 DEF Entries, Entry, Promise!Entries, Promise!Entry

\* What depends on the document alone stays as it is.
LEMMA SameDocument ==
    ASSUME document' = document
    PROVE  /\ Entries' = Entries
           /\ \A i : Entry(i)' = Entry(i)
           /\ \A path, last : Kept(path, last)' = Kept(path, last)
           /\ \A path : Whole(path)' = Whole(path)
           /\ \A vector, path, last : IsVectorOf(vector, path, last)' <=> IsVectorOf(vector, path, last)
           /\ \A i, n : Frames(i, n)' = Frames(i, n)
           /\ \A last : DistinctNames(last)' <=> DistinctNames(last)
           /\ \A last : SensorsUpTo(last)' = SensorsUpTo(last)
           /\ \A pairs, last : Mapped(pairs, last)' <=> Mapped(pairs, last)
           /\ \A p : Complete(p)' <=> Complete(p)
           /\ Consistent' <=> Consistent
<1>1. Entries' = Entries /\ \A i : Entry(i)' = Entry(i)
  BY DEF Entries, Entry, Promise!Entries, Promise!Entry
<1>2. \A i, last : Dropped(i, last)' <=> Dropped(i, last)
  BY <1>1 DEF Dropped
<1>3. \A path, last : Kept(path, last)' = Kept(path, last)
  BY <1>1, <1>2 DEF Kept
<1>4. \A path : Whole(path)' = Whole(path)
  BY <1>3 DEF Whole
<1>5. \A vector, path, last : IsVectorOf(vector, path, last)' <=> IsVectorOf(vector, path, last)
  BY <1>1, <1>3 DEF IsVectorOf
<1>6. \A i, n : Frames(i, n)' = Frames(i, n)
  BY <1>1 DEF Frames
<1>7. \A last : DistinctNames(last)' <=> DistinctNames(last)
  BY <1>1, <1>2 DEF DistinctNames
<1>8. \A last : SensorsUpTo(last)' = SensorsUpTo(last)
  BY DEF SensorsUpTo
<1>9. \A pairs, last : Mapped(pairs, last)' <=> Mapped(pairs, last)
  BY <1>1, <1>8 DEF Mapped
<1>10. \A p : Complete(p)' <=> Complete(p)
  BY <1>8, <1>9 DEF Complete
<1>11. Consistent' <=> Consistent
  BY <1>7 DEF Consistent
<1>12. QED
  BY <1>1, <1>3, <1>4, <1>5, <1>6, <1>7, <1>8, <1>9, <1>10, <1>11

LEMMA AppendFacts ==
    ASSUME NEW S, NEW s \in Seq(S), NEW x
    PROVE  /\ Append(s, x) \in Seq(S \cup {x})
           /\ Len(s) \in Nat
           /\ Len(Append(s, x)) = Len(s) + 1
           /\ \A k \in 1..Len(s) : Append(s, x)[k] = s[k]
           /\ Append(s, x)[Len(s) + 1] = x
<1>1. s \in Seq(S \cup {x})
  OBVIOUS
<1>2. QED
  BY <1>1

LEMMA TailFacts ==
    ASSUME NEW S, NEW s \in Seq(S), s # <<>>
    PROVE  /\ Tail(s) \in Seq(S)
           /\ Len(s) \in Nat \ {0}
           /\ Head(s) = s[1] /\ s[1] \in S
           /\ Len(Tail(s)) = Len(s) - 1
           /\ \A k \in 1..Len(Tail(s)) : k + 1 \in 1..Len(s) /\ k + 1 # 1 /\ Tail(s)[k] = s[k + 1]
  OBVIOUS

\* A sequence is one of its own elements.
LEMMA OwnElements ==
    ASSUME NEW S, NEW s \in Seq(S)
    PROVE  s \in Seq({s[k] : k \in DOMAIN s})
<1>1. /\ Len(s) \in Nat /\ DOMAIN s = 1..Len(s)
      /\ s = [k \in 1..Len(s) |-> s[k]]
  OBVIOUS
<1>2. s \in [1..Len(s) -> {s[k] : k \in DOMAIN s}]
  BY <1>1
<1>3. QED
  BY <1>1, <1>2

------------------------------------------------------------------------------
(* The factories of a file *)

\* One more entry that belongs to another file, or that takes a channel.
LEMMA KeptNext ==
    ASSUME document \in Documents, NEW n \in Entries, NEW path
    PROVE  /\ Entry(n).path # path => Kept(path, n) = Kept(path, n - 1)
           /\ Entry(n).path = path /\ path # Embedded =>
                  /\ n \in Kept(path, n)
                  /\ \A i \in Kept(path, n) :
                         i = n \/ (i \in Kept(path, n - 1) /\ Entry(i).channel # Entry(n).channel)
                  /\ \A i \in Kept(path, n - 1) :
                         Entry(i).channel # Entry(n).channel => i \in Kept(path, n) /\ i # n
           /\ \A i \in 1..(n - 1) : Dropped(i, n - 1) => Dropped(i, n)
           /\ Entry(n).path = Embedded => Dropped(n, n)
<1>1. n \in Nat \ {0}
  BY DocumentFacts
<1>2. \A i \in 1..(n - 1) :
          Dropped(i, n) <=> \/ Dropped(i, n - 1)
                            \/ Entry(n).path = Entry(i).path /\ Entry(n).channel = Entry(i).channel
  BY <1>1 DEF Dropped
<1>3. Dropped(n, n) <=> Entry(n).path = Embedded
  BY <1>1 DEF Dropped
<1>4. 1..n = (1..(n - 1)) \cup {n} /\ n \notin 1..(n - 1)
  BY <1>1
<1>5. ASSUME Entry(n).path # path
      PROVE  Kept(path, n) = Kept(path, n - 1)
  BY <1>2, <1>4, <1>5 DEF Kept
<1>6. ASSUME Entry(n).path = path, path # Embedded
      PROVE  n \in Kept(path, n)
  BY <1>1, <1>3, <1>6 DEF Kept
<1>7. ASSUME Entry(n).path = path, path # Embedded, NEW i \in Kept(path, n)
      PROVE  i = n \/ (i \in Kept(path, n - 1) /\ Entry(i).channel # Entry(n).channel)
  BY <1>2, <1>4, <1>7 DEF Kept
<1>8. ASSUME Entry(n).path = path, NEW i \in Kept(path, n - 1), Entry(i).channel # Entry(n).channel
      PROVE  i \in Kept(path, n) /\ i # n
  BY <1>2, <1>4, <1>8 DEF Kept
<1>9. \A i \in 1..(n - 1) : Dropped(i, n - 1) => Dropped(i, n)
  BY <1>2
<1>10. Entry(n).path = path /\ path # Embedded =>
           \A i \in Kept(path, n) :
               i = n \/ (i \in Kept(path, n - 1) /\ Entry(i).channel # Entry(n).channel)
  BY <1>7
<1>11. Entry(n).path = path =>
           \A i \in Kept(path, n - 1) :
               Entry(i).channel # Entry(n).channel => i \in Kept(path, n) /\ i # n
  BY <1>8
<1>12. QED
  BY <1>3, <1>5, <1>6, <1>9, <1>10, <1>11

\* The slots of the file of the next entry.
LEMMA WithSlotFacts ==
    ASSUME document \in Documents, NEW n \in Entries, NEW vector,
           Entry(n).path \in Paths, Entry(n).channel # 0,
           IsVectorOf(vector, Entry(n).path, n - 1)
    PROVE  IsVectorOf(WithSlot(vector, Entry(n).channel, n), Entry(n).path, n)
<1> DEFINE path == Entry(n).path
           channel == Entry(n).channel
           new == WithSlot(vector, channel, n)
           size == IF channel > Len(vector) THEN channel ELSE Len(vector)
<1>1. path # Embedded
  BY PathsAssumption DEF PathsAssumption
<1>2. n \in Nat \ {0} /\ channel \in Nat \ {0}
  BY DocumentFacts
<1>3. vector \in Seq(Nat) /\ Len(vector) \in Nat
  BY DEF IsVectorOf
<1>4. /\ size \in Nat \ {0} /\ channel \in 1..size /\ 1..Len(vector) \subseteq 1..size
  BY <1>2, <1>3
<1>5. /\ new \in Seq(Nat) /\ Len(new) = size /\ new # <<>>
      /\ new[channel] = n
      /\ \A c \in 1..size : c # channel => new[c] = IF c <= Len(vector) THEN vector[c] ELSE 0
  <2> HIDE DEF size, channel
  <2>1. new = [c \in 1..size |-> IF c = channel THEN n ELSE IF c <= Len(vector) THEN vector[c] ELSE 0]
    BY DEF WithSlot, size
  <2>2. \A c \in 1..size : c <= Len(vector) => vector[c] \in Nat
    BY <1>3, <1>4
  <2> HIDE DEF new
  <2>3. new \in [1..size -> Nat]
    BY <1>2, <2>1, <2>2
  <2>4. new \in Seq(Nat) /\ Len(new) = size
    BY <1>4, <2>3
  <2>5. QED
    BY <1>4, <2>1, <2>4
<1>6. /\ n \in Kept(path, n)
      /\ \A i \in Kept(path, n) :
             i = n \/ (i \in Kept(path, n - 1) /\ Entry(i).channel # channel)
      /\ \A i \in Kept(path, n - 1) : Entry(i).channel # channel => i \in Kept(path, n) /\ i # n
  BY <1>1, KeptNext
<1> HIDE DEF path, channel, new, size
<1>7. IsVectorOf(vector, path, n - 1)
  BY DEF path
<1>8. Entry(n).channel = channel
  BY DEF channel
<1>9. ASSUME NEW c \in 1..Len(new), new[c] # 0
      PROVE  new[c] \in Kept(path, n) /\ Entry(new[c]).channel = c
  BY <1>3, <1>4, <1>5, <1>6, <1>7, <1>8, <1>9 DEF IsVectorOf
<1>10. ASSUME NEW i \in Kept(path, n)
       PROVE  Entry(i).channel \in 1..Len(new) /\ new[Entry(i).channel] = i
  <2>1. CASE i = n
    BY <1>4, <1>5, <1>8, <2>1
  <2>2. CASE i # n
    <3>1. i \in Kept(path, n - 1) /\ Entry(i).channel # channel
      BY <1>6, <2>2
    <3>2. Entry(i).channel \in 1..Len(vector) /\ vector[Entry(i).channel] = i
      BY <1>7, <3>1 DEF IsVectorOf
    <3>3. QED
      BY <1>3, <1>4, <1>5, <3>1, <3>2
  <2>3. QED
    BY <2>1, <2>2
<1>11. IsVectorOf(new, path, n)
  BY <1>5, <1>6, <1>9, <1>10 DEF IsVectorOf
<1>12. QED
  BY <1>11 DEF new, path, channel

\* The factories that a task owns are the signals of its file.
LEMMA OwnedFacts ==
    ASSUME document \in Documents, NEW vector, NEW path,
           IsVectorOf(vector, path, Len(document.signals))
    PROVE  Owned(vector) = Whole(path)
<1>1. vector \in Seq(Nat) /\ DOMAIN vector = 1..Len(vector)
  BY DEF IsVectorOf
<1>2. ASSUME NEW i \in Whole(path)
      PROVE  i \in Owned(vector)
  <2>1. i # 0
    BY DocumentFacts DEF Whole, Kept
  <2>2. QED
    BY <1>1, <2>1 DEF IsVectorOf, Whole, Owned
<1>3. ASSUME NEW i \in Owned(vector)
      PROVE  i \in Whole(path)
  BY <1>1 DEF IsVectorOf, Whole, Owned
<1>4. QED
  BY <1>2, <1>3

------------------------------------------------------------------------------
(* The invariant: the initial state and what a step does not touch *)

LEMMA InitIInv == Init => IInv
<1> SUFFICES ASSUME Init PROVE IInv
  OBVIOUS
<1>1. ShapeOK
  <2>1. results \in Seq({results[r] : r \in DOMAIN results})
    BY OwnElements DEF Init
  <2>2. QED
    BY <2>1, BuildsAssumption DEF Init, ShapeOK, BuildsAssumption
<1>2. \A path \in Paths : IsVectorOf(slots[path], path, 0)
  BY DEF Init, IsVectorOf, Kept
<1>3. DistinctNames(0)
  BY DEF DistinctNames
<1>4. SlotsOK /\ TasksOK
  BY <1>2, <1>3, DocumentFacts DEF Init, SlotsOK, TasksOK, ShapeOK
<1>5. WaveOK
  BY DEF Init, WaveOK
<1>6. SamplesOK
  BY DEF Init, SamplesOK, Frames, IsBeingRead
<1>7. BuiltOK /\ ProjectOK /\ ArrivedOK
  BY DEF Init, BuiltOK, ProjectOK, ArrivedOK
<1>8. QED
  BY <1>1, <1>4, <1>5, <1>6, <1>7 DEF IInv

LEMMA SameReader ==
    ASSUME WaveOK, SamplesOK, document' = document, UNCHANGED <<reader, tasks>>,
           parse \in {"done", "failed"} => parse' \in {"done", "failed"}
    PROVE  WaveOK' /\ SamplesOK'
<1> USE SameDocument DEF reader
<1>1. WaveOK'
  BY DEF WaveOK, Channels, Task, NoWave
<1>2. SamplesOK'
  BY DEF SamplesOK, IsBeingRead, Task, NoWave
<1>3. QED
  BY <1>1, <1>2

LEMMA SameTasks ==
    ASSUME TasksOK, document' = document, UNCHANGED <<tasks, slots, files>>
    PROVE  TasksOK'
  BY SameDocument DEF TasksOK

LEMMA SameSlots ==
    ASSUME SlotsOK, UNCHANGED <<document, parse, next, slots, tasks, files>>
    PROVE  SlotsOK'
  BY SameDocument DEF SlotsOK

LEMMA SameBuilt ==
    ASSUME BuiltOK, UNCHANGED <<document, parse, next, built>>
    PROVE  BuiltOK'
  BY SameDocument DEF BuiltOK, None

LEMMA SameProject ==
    ASSUME ProjectOK, document' = document, UNCHANGED <<project, results>>,
           parse' = parse \/ parse # "done"
    PROVE  ProjectOK'
<1>1. project' # None <=> project # None
  BY DEF None
<1>2. \A r, kind : IsResult(r, kind)' <=> IsResult(r, kind)
  BY DEF IsResult
<1>3. QED
  BY <1>1, <1>2, SameDocument DEF ProjectOK

LEMMA ArrivedKeeps ==
    ASSUME document' = document, NEW path, files[path] = "good" => files'[path] = "good",
           NEW new, NEW n, Arrived(new, path, n)
    PROVE  Arrived(new, path, n)'
  BY SameDocument DEF Arrived

LEMMA SameArrived ==
    ASSUME ArrivedOK, document' = document, UNCHANGED <<signals, results>>,
           \A path \in Paths : files[path] = "good" => files'[path] = "good"
    PROVE  ArrivedOK'
<1>1. \A r, kind : IsResult(r, kind)' <=> IsResult(r, kind)
  BY DEF IsResult
<1>2. \A path \in Paths : \A new, n : Arrived(new, path, n) => Arrived(new, path, n)'
  BY ArrivedKeeps
<1>3. QED
  BY <1>1, <1>2, SameDocument DEF ArrivedOK

\* One more result.
LEMMA AppendResult ==
    ASSUME ShapeOK, NEW x, results' = Append(results, x)
    PROVE  /\ results' \in Seq({results'[r] : r \in DOMAIN results'})
           /\ Len(results) \in Nat /\ Len(results') = Len(results) + 1
           /\ \A r \in 1..Len(results) : results'[r] = results[r]
           /\ results'[Len(results) + 1] = x
<1>1. results \in Seq({results[r] : r \in DOMAIN results})
  BY DEF ShapeOK
<1>2. results' \in Seq({results[r] : r \in DOMAIN results} \cup {x})
  BY <1>1, AppendFacts
<1>3. QED
  BY <1>1, <1>2, AppendFacts, OwnElements

\* An exception or a null pointer changes nothing of what is under way.
LEMMA AppendFailure ==
    ASSUME ShapeOK, ProjectOK, ArrivedOK, NEW x, x.kind \in {"null", "error"},
           results' = Append(results, x), document' = document, UNCHANGED main,
           parse' = parse \/ parse # "done",
           \A path \in Paths : files[path] = "good" => files'[path] = "good"
    PROVE  ProjectOK' /\ ArrivedOK'
<1>1. /\ Len(results) \in Nat /\ Len(results') = Len(results) + 1
      /\ \A r \in 1..Len(results) : results'[r] = results[r]
      /\ results'[Len(results) + 1] = x
  BY AppendResult
<1>2. \A r : \A kind \in {"project", "signals"} :
          /\ IsResult(r, kind)' <=> IsResult(r, kind)
          /\ IsResult(r, kind) => r \in 1..Len(results) /\ results'[r] = results[r]
  BY <1>1 DEF IsResult
<1>3. \A path \in Paths : \A new, n : Arrived(new, path, n) => Arrived(new, path, n)'
  BY ArrivedKeeps
<1>4. project' # None <=> project # None
  BY DEF None, main
<1>5. ProjectOK'
  BY <1>2, <1>4, SameDocument DEF ProjectOK, main
<1>6. ArrivedOK'
  BY <1>2, <1>3, SameDocument DEF ArrivedOK, main
<1>7. QED
  BY <1>5, <1>6

------------------------------------------------------------------------------
(* The invariant: reading the document *)

LEMMA FailStep ==
    ASSUME IInv, UNCHANGED <<native, document, reader, main>>, NEW kind \in {"null", "error"},
           parse \notin {"done", "failed"}, Fail(kind)
    PROVE  IInv'
<1> USE DEF IInv, Fail, parser, reader, main
<1>1. ShapeOK'
  BY AppendResult, SameDocument DEF ShapeOK
<1>2. SlotsOK'
  BY SameDocument DEF SlotsOK
<1>3. TasksOK' /\ WaveOK' /\ SamplesOK'
  BY SameTasks, SameReader
<1>4. BuiltOK'
  BY DEF BuiltOK
<1>5. ProjectOK' /\ ArrivedOK'
  BY AppendFailure
<1>6. QED
  BY <1>1, <1>2, <1>3, <1>4, <1>5

\* A step that changes nothing but whether the program goes on.
LEMMA RunningStep ==
    ASSUME IInv, UNCHANGED <<native, parser, tasks, reader, results, main>>
    PROVE  IInv'
<1> USE DEF IInv, parser, main
<1>1. ShapeOK'
  BY SameDocument DEF ShapeOK, reader
<1>2. SlotsOK' /\ TasksOK' /\ WaveOK' /\ SamplesOK'
  BY SameSlots, SameTasks, SameReader DEF reader
<1>3. BuiltOK' /\ ProjectOK' /\ ArrivedOK'
  BY SameBuilt, SameProject, SameArrived DEF reader
<1>4. QED
  BY <1>1, <1>2, <1>3

\* What is left to show of a step that reads on.
LEMMA ReadOn ==
    ASSUME IInv, UNCHANGED <<native, document, tasks, reader, results, main>>,
           parse \notin {"done", "failed"}, parse' \in {"signals", "sensors", "mappings"},
           next' \in Nat \ {0}, slots' \in [Paths -> Seq(Nat)]
    PROVE  /\ ShapeOK' /\ WaveOK' /\ SamplesOK' /\ ProjectOK' /\ ArrivedOK'
           /\ slots' = slots => TasksOK'
<1> USE DEF IInv
<1>1. ShapeOK'
  BY SameDocument DEF ShapeOK, reader
<1>2. WaveOK' /\ SamplesOK'
  BY SameReader
<1>3. ProjectOK' /\ ArrivedOK'
  <2>1. project = None /\ \A r : ~IsResult(r, "project")
    BY DEF ProjectOK, IsResult
  <2>2. \A r : ~IsResult(r, "project")'
    BY <2>1 DEF IsResult
  <2>3. ProjectOK'
    BY <2>1, <2>2 DEF ProjectOK, main, None
  <2>4. QED
    BY <2>3, SameArrived DEF main, reader
<1>4. slots' = slots => TasksOK'
  BY SameTasks DEF reader
<1>5. QED
  BY <1>1, <1>2, <1>3, <1>4

LEMMA MetadataStep == IInv /\ get_metadata => IInv'
<1> SUFFICES ASSUME IInv, get_metadata PROVE IInv'
  OBVIOUS
<1> USE DEF IInv, get_metadata, Reading, GoOn, parser
<1>1. ShapeOK' /\ WaveOK' /\ SamplesOK' /\ ProjectOK' /\ ArrivedOK' /\ TasksOK'
  BY ReadOn DEF ShapeOK
<1>2. SlotsOK'
  BY SameDocument DEF SlotsOK, reader
<1>3. BuiltOK'
  BY DEF BuiltOK, None
<1>4. QED
  BY <1>1, <1>2, <1>3

\* The next entry has a name that is new, or it is left out.
LEMMA NamesNext ==
    ASSUME document \in Documents, NEW n \in Entries, DistinctNames(n - 1),
           0 \in Finds(Entry(n).name, n - 1)
    PROVE  DistinctNames(n)
<1>1. n \in Nat \ {0} /\ 1..n = (1..(n - 1)) \cup {n} /\ n \notin 1..(n - 1)
  BY DocumentFacts
<1>2. \A i \in 1..(n - 1) : Entry(i).name = Entry(n).name => Dropped(i, n - 1)
  BY <1>1 DEF Finds
<1>3. \A i \in 1..(n - 1) : Dropped(i, n - 1) => Dropped(i, n)
  BY KeptNext
<1>4. QED
  BY <1>1, <1>2, <1>3 DEF DistinctNames

LEMMA SkipEmbeddedStep ==
    IInv /\ SkipEmbedded => IInv' /\ \A path \in Paths : IsVectorOf(slots'[path], path, next)
<1> SUFFICES ASSUME IInv, SkipEmbedded
             PROVE  IInv' /\ \A path \in Paths : IsVectorOf(slots'[path], path, next)
  OBVIOUS
<1> USE DEF IInv, SkipEmbedded, Reading, parser, NextSignal
<1>1. ShapeOK' /\ WaveOK' /\ SamplesOK' /\ ProjectOK' /\ ArrivedOK' /\ TasksOK'
  BY ReadOn DEF ShapeOK
<1>2. document \in Documents /\ next \in Entries /\ next \in Nat \ {0} /\ Len(document.signals) \in Nat
  BY DocumentFacts DEF ShapeOK
<1>3. DistinctNames(next)
  BY <1>2, NamesNext DEF SlotsOK
<1>4. ASSUME NEW path \in Paths
      PROVE  IsVectorOf(slots[path], path, next)
  <2>1. Kept(path, next) = Kept(path, next - 1)
    BY <1>2, KeptNext, PathsAssumption DEF PathsAssumption
  <2>2. QED
    BY <2>1 DEF SlotsOK, IsVectorOf
<1>5. SlotsOK'
  BY <1>2, <1>3, <1>4, SameDocument DEF SlotsOK, reader
<1>6. BuiltOK'
  BY DEF BuiltOK, None
<1>7. QED
  BY <1>1, <1>4, <1>5, <1>6

LEMMA PlaceSignalStep ==
    IInv /\ PlaceSignal => IInv' /\ \A path \in Paths : IsVectorOf(slots'[path], path, next)
<1> SUFFICES ASSUME IInv, PlaceSignal
             PROVE  IInv' /\ \A path \in Paths : IsVectorOf(slots'[path], path, next)
  OBVIOUS
<1> USE DEF IInv, PlaceSignal, Reading, parser, NextSignal
<1> DEFINE own == Entry(next).path
           new == WithSlot(slots[own], Entry(next).channel, next)
<1>2. document \in Documents /\ next \in Entries /\ next \in Nat \ {0} /\ Len(document.signals) \in Nat
  BY DocumentFacts DEF ShapeOK
<1>3. own \in Paths
  BY <1>2, DocumentFacts
<1>4. \A path \in Paths : IsVectorOf(slots[path], path, next - 1)
  BY DEF SlotsOK
<1>5. IsVectorOf(new, own, next)
  BY <1>2, <1>3, <1>4, WithSlotFacts
<1>6. new \in Seq(Nat)
  BY <1>5 DEF IsVectorOf
<1>7. slots' = [slots EXCEPT ![own] = new]
  OBVIOUS
<1>8. slots' \in [Paths -> Seq(Nat)]
  BY <1>6, <1>7 DEF ShapeOK
<1>1. ShapeOK' /\ WaveOK' /\ SamplesOK' /\ ProjectOK' /\ ArrivedOK'
  BY <1>2, <1>8, ReadOn
<1>9. DistinctNames(next)
  BY <1>2, NamesNext DEF SlotsOK
<1> HIDE DEF own, new
<1>10. ASSUME NEW path \in Paths
       PROVE  IsVectorOf(slots'[path], path, next)
  <2>1. CASE path = own
    BY <1>5, <1>7, <2>1 DEF ShapeOK
  <2>2. CASE path # own
    <3>1. Kept(path, next) = Kept(path, next - 1)
      BY <1>2, <2>2, KeptNext DEF own
    <3>2. slots'[path] = slots[path]
      BY <1>7, <2>2 DEF ShapeOK
    <3>3. QED
      BY <1>4, <3>1, <3>2 DEF IsVectorOf
  <2>3. QED
    BY <2>1, <2>2
<1>11. tasks = <<>> /\ \A path \in Paths : files[path] = "unread"
  BY DEF SlotsOK, WaveOK
<1>12. SlotsOK'
  BY <1>2, <1>9, <1>10, <1>11, SameDocument DEF SlotsOK, reader
<1>13. TasksOK'
  BY <1>11 DEF TasksOK
<1>14. BuiltOK'
  BY DEF BuiltOK, None
<1>15. QED
  BY <1>1, <1>10, <1>12, <1>13, <1>14

LEMMA SignalsDoneStep == IInv /\ SignalsDone => IInv'
<1> SUFFICES ASSUME IInv, SignalsDone PROVE IInv'
  OBVIOUS
<1> USE DEF IInv, SignalsDone, Reading, GoOn, parser
<1>1. ShapeOK' /\ WaveOK' /\ SamplesOK' /\ ProjectOK' /\ ArrivedOK' /\ TasksOK'
  BY ReadOn DEF ShapeOK
<1>2. /\ Len(document.signals) \in Nat /\ next \in Nat \ {0} /\ Len(document.sensors) \in Nat
  BY DocumentFacts DEF ShapeOK
<1>3. next - 1 = Len(document.signals)
  BY <1>2 DEF SlotsOK
<1>4. DistinctNames(Len(document.signals))
  BY <1>3 DEF SlotsOK
<1>5. SlotsOK'
  <2>1. \A path \in Paths : slots[path] = <<>> \/ IsVectorOf(slots[path], path, Len(document.signals))
    BY <1>2 DEF SlotsOK
  <2>2. QED
    BY <2>1, SameDocument DEF SlotsOK, reader
<1>6. SensorsUpTo(0) = {}
  BY DEF SensorsUpTo
<1>7. BuiltOK'
  <2>1. built' = [sensors |-> SensorsUpTo(0), associations |-> {}, exists |-> FALSE]
    BY <1>6 DEF BuiltOK, None
  <2>2. /\ document' = document /\ parse' = "sensors"
        /\ next' - 1 = 0 /\ 1..(next' - 1) = {}
        /\ next' <= Len(document.sensors) + 1
    BY <1>2
  <2>3. SensorsUpTo(next - 1)' = SensorsUpTo(0)
    BY <2>2, SameDocument
  <2>4. DistinctNames(Len(document.signals))'
    BY <1>4, SameDocument
  <2>5. QED
    BY ONLY <2>1, <2>2, <2>3, <2>4 DEF BuiltOK
<1>8. QED
  BY <1>1, <1>5, <1>7

LEMMA SensorsDoneStep == IInv /\ SensorsDone => IInv'
<1> SUFFICES ASSUME IInv, SensorsDone PROVE IInv'
  OBVIOUS
<1> USE DEF IInv, SensorsDone, Reading, GoOn, parser
<1>1. ShapeOK' /\ WaveOK' /\ SamplesOK' /\ ProjectOK' /\ ArrivedOK' /\ TasksOK'
  BY ReadOn DEF ShapeOK
<1>2. Len(document.sensors) \in Nat /\ next \in Nat \ {0} /\ Len(document.mappings) \in Nat
  BY DocumentFacts DEF ShapeOK
<1>3. next - 1 = Len(document.sensors)
  BY <1>2 DEF BuiltOK
<1>4. SlotsOK'
  BY SameDocument DEF SlotsOK, reader
<1>5. /\ built = [sensors |-> SensorsUpTo(Len(document.sensors)), associations |-> {}, exists |-> FALSE]
      /\ Consistent
  BY <1>3 DEF BuiltOK, Consistent
<1>6. Mapped({}, 0)
  BY DEF Mapped
<1>7. built.associations = {}
  BY <1>5
<1>8. Mapped(built.associations, next - 1)' /\ Consistent'
  BY <1>5, <1>6, <1>7, SameDocument
<1>9. SensorsUpTo(Len(document.sensors))' = SensorsUpTo(Len(document.sensors))
  BY SameDocument
<1>10. DistinctNames(Len(document.signals))'
  BY <1>5, SameDocument DEF Consistent
<1>11. /\ parse' = "mappings" /\ next' <= Len(document'.mappings) + 1
       /\ built' = built
  BY <1>2
<1>12. BuiltOK'
  BY ONLY <1>5, <1>7, <1>8, <1>9, <1>10, <1>11 DEF BuiltOK
<1>13. QED
  BY <1>1, <1>4, <1>12

LEMMA SensorStep == IInv /\ get_sensor => IInv'
<1> SUFFICES ASSUME IInv, get_sensor PROVE IInv'
  OBVIOUS
<1> USE DEF IInv, get_sensor, Reading
<1>1. CASE document.sensors[next] \in built.sensors
  BY <1>1, FailStep
<1>2. CASE document.sensors[next] \notin built.sensors
  <2>1. ShapeOK' /\ WaveOK' /\ SamplesOK' /\ ProjectOK' /\ ArrivedOK' /\ TasksOK'
    BY <1>2, ReadOn DEF ShapeOK
  <2>2. Len(document.sensors) \in Nat /\ next \in Nat \ {0}
    BY DocumentFacts DEF ShapeOK
  <2>3. SlotsOK'
    BY <1>2, SameDocument DEF SlotsOK, reader
  <2>4. /\ 1..next = (1..(next - 1)) \cup {next} /\ next \notin 1..(next - 1)
        /\ (next + 1) - 1 = next
    BY <2>2
  <2>5. SensorsUpTo(next) = SensorsUpTo(next - 1) \cup {document.sensors[next]}
    BY <2>4 DEF SensorsUpTo
  <2>6. built = [sensors |-> SensorsUpTo(next - 1), associations |-> {}, exists |-> FALSE]
    BY DEF BuiltOK
  <2>7. built' = [sensors |-> SensorsUpTo(next), associations |-> {}, exists |-> FALSE]
    BY <1>2, <2>5, <2>6
  <2>8. \A k, l \in 1..next : k # l => document.sensors[k] # document.sensors[l]
    BY <1>2, <2>4, <2>6 DEF BuiltOK, SensorsUpTo
  <2>9. SensorsUpTo(next - 1)' = SensorsUpTo(next) /\ DistinctNames(Len(document.signals))'
    BY <1>2, <2>4, SameDocument DEF BuiltOK
  <2>10. /\ document' = document /\ parse' = "sensors" /\ next' - 1 = next
         /\ next' <= Len(document.sensors) + 1
    BY <1>2, <2>2, <2>4
  <2>11. BuiltOK'
    BY ONLY <2>7, <2>8, <2>9, <2>10 DEF BuiltOK
  <2>12. QED
    BY <2>1, <2>3, <2>11
<1>3. QED
  BY <1>1, <1>2

\* One more association, of names and sensors that are not mapped yet.
LEMMA MappedNext ==
    ASSUME document \in Documents, NEW n \in 1..Len(document.mappings), NEW pairs, Mapped(pairs, n - 1),
           NEW i \in 1..Len(document.signals), Entry(i).name = document.mappings[n].signal,
           NEW sensor \in SensorsUpTo(Len(document.sensors)), sensor = document.mappings[n].sensor,
           \A pair \in pairs : pair[1] # i /\ pair[2] # sensor
    PROVE  Mapped(pairs \cup {<<i, sensor>>}, n)
<1> DEFINE one == <<i, sensor>>
<1>1. one[1] = i /\ one[2] = sensor /\ one = <<one[1], one[2]>>
  OBVIOUS
<1> HIDE DEF one
<1>2. n \in Nat \ {0} /\ 1..n = (1..(n - 1)) \cup {n}
  BY DocumentFacts
<1>3. \A pair \in pairs \cup {one} : pair \in pairs \/ pair = one
  OBVIOUS
<1>4. \A pair \in pairs \cup {one} :
          /\ pair = <<pair[1], pair[2]>>
          /\ pair[1] \in 1..Len(document.signals)
          /\ pair[2] \in SensorsUpTo(Len(document.sensors))
          /\ \E m \in 1..n : /\ Entry(pair[1]).name = document.mappings[m].signal
                             /\ pair[2] = document.mappings[m].sensor
  <2> DEFINE Good(pair, m) == /\ Entry(pair[1]).name = document.mappings[m].signal
                              /\ pair[2] = document.mappings[m].sensor
  <2>1. ASSUME NEW pair \in pairs
        PROVE  /\ pair = <<pair[1], pair[2]>>
               /\ pair[1] \in 1..Len(document.signals)
               /\ pair[2] \in SensorsUpTo(Len(document.sensors))
               /\ \E m \in 1..(n - 1) : Good(pair, m)
    BY <2>1 DEF Mapped
  <2>2. n \in 1..n /\ Good(one, n)
    BY <1>1, <1>2
  <2> HIDE DEF Good
  <2>3. \A pair \in pairs : \E m \in 1..n : Good(pair, m)
    BY <1>2, <2>1
  <2>4. \A pair \in pairs \cup {one} : \E m \in 1..n : Good(pair, m)
    BY <1>3, <2>2, <2>3
  <2>5. \A pair \in pairs \cup {one} : /\ pair = <<pair[1], pair[2]>>
                                       /\ pair[1] \in 1..Len(document.signals)
                                       /\ pair[2] \in SensorsUpTo(Len(document.sensors))
    BY <1>1, <1>3, <2>1
  <2>6. QED
    BY <2>4, <2>5 DEF Good
<1>5. \A m \in 1..n :
          \E pair \in pairs \cup {one} : /\ Entry(pair[1]).name = document.mappings[m].signal
                                         /\ pair[2] = document.mappings[m].sensor
  BY <1>1, <1>2 DEF Mapped
<1>6. \A p, q \in pairs \cup {one} : p[1] = q[1] <=> p[2] = q[2]
  BY <1>1, <1>3 DEF Mapped
<1>7. Mapped(pairs \cup {one}, n)
  BY <1>4, <1>5, <1>6 DEF Mapped
<1>8. QED
  BY <1>7 DEF one

LEMMA MappingStep == IInv /\ get_mapping => IInv'
<1> SUFFICES ASSUME IInv, get_mapping PROVE IInv'
  OBVIOUS
<1> USE DEF IInv, Reading
<1> DEFINE mapping == document.mappings[next]
<1>1. /\ parse = "mappings" /\ next <= Len(document.mappings)
      /\ UNCHANGED <<native, document, reader, main>>
  BY DEF get_mapping
<1>2. PICK i \in Finds(mapping.signal, Len(document.signals)) :
          IF MayAssociate(i, mapping.sensor)
          THEN /\ built' = [built EXCEPT !.associations = @ \cup {<<i, mapping.sensor>>}]
               /\ next' = next + 1
               /\ UNCHANGED <<running, parse, slots, tasks, results>>
          ELSE Fail("error")
  BY DEF get_mapping
<1>3. CASE ~MayAssociate(i, mapping.sensor)
  BY <1>1, <1>2, <1>3, FailStep
<1>4. CASE MayAssociate(i, mapping.sensor)
  <2>1. ShapeOK' /\ WaveOK' /\ SamplesOK' /\ ProjectOK' /\ ArrivedOK' /\ TasksOK'
    BY <1>1, <1>2, <1>4, ReadOn DEF ShapeOK
  <2>2. /\ document \in Documents /\ Len(document.mappings) \in Nat /\ next \in Nat \ {0}
        /\ next \in 1..Len(document.mappings)
    BY <1>1, DocumentFacts DEF ShapeOK
  <2>3. SlotsOK'
    BY <1>1, <1>2, <1>4, SameDocument DEF SlotsOK, reader
  <2>4. /\ built = [sensors |-> SensorsUpTo(Len(document.sensors)),
                    associations |-> built.associations, exists |-> FALSE]
        /\ Mapped(built.associations, next - 1)
    BY <1>1 DEF BuiltOK
  <2>5. /\ i \in 1..Len(document.signals) /\ Entry(i).name = mapping.signal
        /\ mapping.sensor \in SensorsUpTo(Len(document.sensors))
        /\ \A pair \in built.associations : pair[1] # i /\ pair[2] # mapping.sensor
    BY <1>2, <1>4, <2>4 DEF Finds, MayAssociate
  <2>6. Mapped(built.associations \cup {<<i, mapping.sensor>>}, next)
    BY <2>2, <2>4, <2>5, MappedNext
  <2>7. built' = [sensors |-> SensorsUpTo(Len(document.sensors)),
                  associations |-> built.associations \cup {<<i, mapping.sensor>>}, exists |-> FALSE]
    BY <1>2, <1>4, <2>4
  <2>8. /\ document' = document /\ parse' = "mappings" /\ next' - 1 = next
        /\ next' <= Len(document.mappings) + 1
    BY <1>1, <1>2, <1>4, <2>2
  <2>9. Consistent' /\ DistinctNames(Len(document.signals))'
    BY <1>1, SameDocument DEF BuiltOK
  <2>10. /\ Mapped(built.associations, next - 1)'
         /\ SensorsUpTo(Len(document.sensors))' = SensorsUpTo(Len(document.sensors))
    BY <2>6, <2>7, <2>8, SameDocument
  <2>11. BuiltOK'
    BY ONLY <2>7, <2>8, <2>9, <2>10 DEF BuiltOK
  <2>12. QED
    BY <2>1, <2>3, <2>11
<1>5. QED
  BY <1>3, <1>4

LEMMA FinishProjectStep == IInv /\ FinishProject => IInv'
<1> SUFFICES ASSUME IInv, FinishProject PROVE IInv'
  OBVIOUS
<1> USE DEF IInv, FinishProject, Reading, parser, main
<1> DEFINE whole == [built EXCEPT !.exists = TRUE]
           x == [kind |-> "project", project |-> whole]
<1>1. results' = Append(results, x) /\ x.kind = "project" /\ x.project = whole
  OBVIOUS
<1>2. Complete(whole)
  <2>1. /\ built = [sensors |-> SensorsUpTo(Len(document.sensors)),
                    associations |-> built.associations, exists |-> FALSE]
        /\ Mapped(built.associations, next - 1) /\ next <= Len(document.mappings) + 1
    BY DEF BuiltOK
  <2>2. next - 1 = Len(document.mappings)
    BY <2>1, DocumentFacts DEF ShapeOK
  <2>3. /\ whole.exists = TRUE /\ whole.sensors = SensorsUpTo(Len(document.sensors))
        /\ whole.associations = built.associations
    BY <2>1
  <2>4. QED
    BY <2>1, <2>2, <2>3 DEF Complete
<1> HIDE DEF whole, x
<1>3. /\ results' \in Seq({results'[r] : r \in DOMAIN results'})
      /\ Len(results) \in Nat /\ Len(results') = Len(results) + 1
      /\ \A r \in 1..Len(results) : results'[r] = results[r]
      /\ results'[Len(results) + 1] = x
  BY <1>1, AppendResult
<1>4. ShapeOK'
  BY <1>3, SameDocument DEF ShapeOK, reader
<1>5. SlotsOK'
  BY SameDocument DEF SlotsOK, reader
<1>6. TasksOK' /\ WaveOK' /\ SamplesOK'
  BY SameTasks, SameReader DEF reader
<1>7. Consistent /\ DistinctNames(Len(document.signals))
  BY DEF BuiltOK
<1>8. BuiltOK'
  BY <1>7, SameDocument DEF BuiltOK
<1>9. project = None /\ \A r \in 1..Len(results) : ~IsResult(r, "project")
  BY DEF ProjectOK
<1>10. \A r : IsResult(r, "project")' => r = Len(results) + 1
  BY <1>3, <1>9 DEF IsResult
<1>11. project' = None /\ None' = None
  BY <1>9 DEF None
<1>12. ProjectOK'
  BY <1>1, <1>2, <1>3, <1>10, <1>11, SameDocument DEF ProjectOK
<1>13. \A r : /\ IsResult(r, "signals")' <=> IsResult(r, "signals")
              /\ IsResult(r, "signals") => r \in 1..Len(results) /\ results'[r] = results[r]
  BY <1>1, <1>3 DEF IsResult
<1>14. \A path \in Paths : \A new, n : Arrived(new, path, n) => Arrived(new, path, n)'
  BY ArrivedKeeps DEF reader
<1>15. ArrivedOK'
  BY <1>13, <1>14, SameDocument DEF ArrivedOK
<1>16. QED
  BY <1>4, <1>5, <1>6, <1>8, <1>12, <1>15

------------------------------------------------------------------------------
(* The invariant: the tasks of the sound files *)

LEMMA TaskTypes ==
    ASSUME ShapeOK, NEW t \in 1..Len(tasks)
    PROVE  tasks[t] \in [path : Paths, factories : Seq(Nat)] /\ tasks[t].path \in Paths
<1> DEFINE TaskType == [path : Paths, factories : Seq(Nat)]
<1>1. tasks \in Seq(TaskType)
  BY DEF ShapeOK
<1> HIDE DEF TaskType
<1>2. tasks[t] \in TaskType
  BY <1>1
<1>3. QED
  BY <1>2 DEF TaskType

LEMMA SubmitStep ==
    ASSUME IInv, NEW path \in Paths, Submit(path),
           UNCHANGED <<native, document, parse, next, built, reader, results, main>>,
           parse = "done" \/ (parse = "signals" /\ next > Len(document.signals))
    PROVE  IInv'
<1> USE DEF IInv, Submit, reader, main
<1> DEFINE x == [path |-> path, factories |-> slots[path]]
<1>1. /\ tasks \in Seq([path : Paths, factories : Seq(Nat)])
      /\ x \in [path : Paths, factories : Seq(Nat)]
      /\ x.path = path /\ x.factories = slots[path]
      /\ slots' = [slots EXCEPT ![path] = <<>>]
  BY DEF ShapeOK
<1> HIDE DEF x
<1>2. tasks' = Append(tasks, x)
  BY DEF x
<1>3. /\ Len(tasks) \in Nat /\ Len(tasks') = Len(tasks) + 1
      /\ \A t \in 1..Len(tasks) : tasks'[t] = tasks[t]
      /\ tasks'[Len(tasks) + 1] = x
      /\ tasks' \in Seq([path : Paths, factories : Seq(Nat)])
  BY <1>1, <1>2, AppendFacts
<1> HIDE DEF Submit
<1>t. \A t \in 1..Len(tasks) : tasks[t].path \in Paths
  BY TaskTypes
<1>s. Len(tasks) + 1 \notin 1..Len(tasks) /\ 1..Len(tasks') = 1..Len(tasks) \cup {Len(tasks) + 1}
  BY <1>3
<1>4. /\ slots' \in [Paths -> Seq(Nat)] /\ slots'[path] = <<>>
      /\ \A p \in Paths : p # path => slots'[p] = slots[p]
  BY <1>1 DEF ShapeOK
<1>5. ShapeOK'
  BY <1>3, <1>4, SameDocument DEF ShapeOK
<1>6. SlotsOK'
  <2>1. \A p \in Paths :
            slots'[p] # <<>> => /\ slots'[p] = slots[p] /\ files[p] = "unread"
                                /\ IsVectorOf(slots[p], p, Len(document.signals))
    <3>1. parse # "failed" /\ ~(parse \in {"document", "signals"} /\ next <= Len(document.signals))
      BY DocumentFacts DEF ShapeOK
    <3>2. QED
      BY <1>4, <3>1 DEF SlotsOK
  <2>2. /\ next \in Nat \ {0} /\ Len(document.signals) \in Nat
        /\ parse \in {"document", "signals"} => next > Len(document.signals)
    BY DocumentFacts DEF ShapeOK
  <2>3. /\ parse # "document"
        /\ parse = "signals" => next <= Len(document.signals) + 1 /\ DistinctNames(next - 1)
    BY DEF SlotsOK
  <2>4. QED
    BY <2>1, <2>2, <2>3, SameDocument DEF SlotsOK
<1>7. /\ IsVectorOf(slots[path], path, Len(document.signals))
      /\ files[path] = "unread" /\ slots[path] # <<>>
      /\ \A t \in 1..Len(tasks) : tasks[t].path # path
  <2>1. slots[path] # <<>>
    BY DEF Submit
  <2>2. parse # "failed" /\ ~(parse \in {"document", "signals"} /\ next <= Len(document.signals))
    BY DocumentFacts DEF ShapeOK
  <2>3. /\ IsVectorOf(slots[path], path, Len(document.signals)) /\ files[path] = "unread"
    BY <2>1, <2>2 DEF SlotsOK
  <2>4. \A t \in 1..Len(tasks) : tasks[t].path # path
    BY <2>1 DEF TasksOK
  <2>5. QED
    BY <2>1, <2>3, <2>4
<1>8. TasksOK'
  <2>1. ASSUME NEW t \in 1..Len(tasks')
        PROVE  /\ IsVectorOf(tasks'[t].factories, tasks'[t].path, Len(document.signals))
               /\ tasks'[t].factories # <<>>
               /\ slots'[tasks'[t].path] = <<>>
               /\ files[tasks'[t].path] = "unread"
               /\ \A u \in 1..Len(tasks') : tasks'[u].path = tasks'[t].path => u = t
    <3>1. CASE t \in 1..Len(tasks)
      <4>1. tasks'[t] = tasks[t] /\ tasks[t].path \in Paths /\ tasks[t].path # path
        BY <1>3, <1>7, <1>t, <3>1
      <4>2. \A u \in 1..Len(tasks') : tasks'[u].path = tasks'[t].path => u = t
        BY <1>1, <1>3, <1>7, <1>s, <3>1, <4>1 DEF TasksOK
      <4>3. QED
        BY <1>4, <3>1, <4>1, <4>2 DEF TasksOK
    <3>2. CASE t = Len(tasks) + 1
      BY <1>1, <1>3, <1>4, <1>7, <1>s, <3>2
    <3>3. QED
      BY <1>s, <3>1, <3>2
  <2>2. QED
    BY <2>1, SameDocument DEF TasksOK
<1>9. wave # NoWave => Head(tasks') = Head(tasks) /\ tasks' # <<>>
  <2>1. tasks # <<>> => Head(tasks') = Head(tasks)
    BY <1>1, <1>3
  <2>2. tasks' # <<>>
    BY <1>3
  <2>3. QED
    BY <2>1, <2>2 DEF WaveOK
<1>10. WaveOK'
  BY <1>9 DEF WaveOK, Channels, Task, NoWave
<1>11. SamplesOK'
  BY <1>9, SameDocument DEF SamplesOK, IsBeingRead, Task, NoWave
<1>12. BuiltOK' /\ ProjectOK' /\ ArrivedOK'
  BY SameBuilt, SameProject, SameArrived
<1>13. QED
  BY <1>5, <1>6, <1>8, <1>10, <1>11, <1>12

\* The first task is answered, well or badly.
LEMMA AnswerFacts ==
    ASSUME IInv, Loading, tasks' = Tail(tasks), wave' = NoWave, NEW x \in {"bad", "good"},
           files' = [files EXCEPT ![Task.path] = x],
           samples' = samples
    PROVE  /\ SlotsOK' /\ TasksOK' /\ WaveOK' /\ SamplesOK' /\ BuiltOK'
           /\ tasks' \in Seq([path : Paths, factories : Seq(Nat)])
           /\ files' \in [Paths -> {"unread", "bad", "good"}]
           /\ Task.path \in Paths /\ files[Task.path] = "unread" /\ files'[Task.path] = x
           /\ \A path \in Paths : files[path] = "good" => files'[path] = "good"
<1> USE DEF IInv, Loading, parser, main
<1> DEFINE TaskType == [path : Paths, factories : Seq(Nat)]
<1>1. tasks \in Seq(TaskType) /\ tasks # <<>>
  BY DEF ShapeOK
<1>2. /\ tasks' \in Seq(TaskType)
      /\ Len(tasks) \in Nat \ {0} /\ Len(tasks') = Len(tasks) - 1
      /\ Task = tasks[1] /\ tasks[1] \in TaskType
      /\ \A t \in 1..Len(tasks') : t + 1 \in 1..Len(tasks) /\ t + 1 # 1 /\ tasks'[t] = tasks[t + 1]
  <2> HIDE DEF TaskType
  <2>1. QED
    BY <1>1, TailFacts DEF Task
<1>3. 1 \in 1..Len(tasks) /\ Task.path \in Paths
  BY <1>2
<1>4. /\ files[Task.path] = "unread" /\ slots[Task.path] = <<>>
      /\ \A t \in 1..Len(tasks') : tasks'[t].path # Task.path /\ tasks'[t].path \in Paths
  <2>1. \A t \in 1..Len(tasks) : tasks[t].path \in Paths
    BY TaskTypes
  <2>2. \A t \in 1..Len(tasks') : tasks[t + 1].path # tasks[1].path
    BY <1>2, <1>3 DEF TasksOK
  <2>3. QED
    BY <1>2, <1>3, <2>1, <2>2 DEF TasksOK
<1>5. /\ files' \in [Paths -> {"unread", "bad", "good"}]
      /\ files'[Task.path] = x
      /\ \A path \in Paths : path # Task.path => files'[path] = files[path]
  BY <1>3 DEF ShapeOK
<1>6. SlotsOK'
  BY <1>3, <1>4, <1>5, SameDocument DEF SlotsOK
<1>7. TasksOK'
  <2>1. ASSUME NEW t \in 1..Len(tasks')
        PROVE  /\ IsVectorOf(tasks'[t].factories, tasks'[t].path, Len(document.signals))
               /\ tasks'[t].factories # <<>>
               /\ slots[tasks'[t].path] = <<>>
               /\ files'[tasks'[t].path] = "unread"
               /\ \A u \in 1..Len(tasks') : tasks'[u].path = tasks'[t].path => u = t
    <3>1. \A u \in 1..Len(tasks') : u + 1 = t + 1 => u = t
      BY <1>2
    <3>2. QED
      BY <1>2, <1>4, <1>5, <3>1 DEF TasksOK
  <2>2. QED
    BY <2>1, SameDocument DEF TasksOK
<1>8. WaveOK'
  BY DEF WaveOK, NoWave
<1>9. SamplesOK'
  <2>1. ASSUME NEW i \in Entries, Entry(i).path \in Paths, files'[Entry(i).path] = "unread"
        PROVE  samples[i] = Frames(i, 0)
    <3>1. Entry(i).path # Task.path /\ files[Entry(i).path] = "unread"
      BY <1>5, <2>1
    <3>2. ~IsBeingRead(i)
      BY <3>1 DEF IsBeingRead, Whole, Kept
    <3>3. QED
      BY <2>1, <3>1, <3>2 DEF SamplesOK
  <2>2. wave' = NoWave /\ NoWave' = NoWave
    BY DEF NoWave
  <2>3. \A i : ~IsBeingRead(i)'
    BY <2>2 DEF IsBeingRead
  <2>4. QED
    BY <2>1, <2>3, SameDocument DEF SamplesOK
<1>10. BuiltOK'
  BY SameBuilt
<1>11. QED
  BY <1>2, <1>3, <1>4, <1>5, <1>6, <1>7, <1>8, <1>9, <1>10

LEMMA FileFailsStep == IInv /\ Loading /\ FileFails => IInv'
<1> SUFFICES ASSUME IInv, Loading, FileFails PROVE IInv'
  OBVIOUS
<1> USE DEF FileFails
<1>1. /\ SlotsOK' /\ TasksOK' /\ WaveOK' /\ SamplesOK' /\ BuiltOK'
      /\ tasks' \in Seq([path : Paths, factories : Seq(Nat)])
      /\ files' \in [Paths -> {"unread", "bad", "good"}]
      /\ \A path \in Paths : files[path] = "good" => files'[path] = "good"
  BY AnswerFacts
<1> USE DEF IInv, Loading, parser
<1>2. ShapeOK'
  BY <1>1, AppendResult, SameDocument DEF ShapeOK
<1> DEFINE x == [kind |-> "error"]
<1>3. results' = Append(results, x) /\ x.kind \in {"null", "error"}
  OBVIOUS
<1> HIDE DEF x
<1>4. ProjectOK' /\ ArrivedOK'
  BY <1>1, <1>3, AppendFailure
<1>5. QED
  BY <1>1, <1>2, <1>4

\* What a step does that is in the middle of a sound file, or at its beginning.
LEMMA WithinFile ==
    ASSUME IInv, Loading, UNCHANGED <<running, tasks, results, files>>, DOMAIN samples' = Entries
    PROVE  /\ ShapeOK' /\ SlotsOK' /\ TasksOK' /\ BuiltOK' /\ ProjectOK' /\ ArrivedOK'
<1> USE DEF IInv, Loading, parser, main
<1>1. ShapeOK'
  BY SameDocument DEF ShapeOK
<1>2. SlotsOK' /\ TasksOK'
  BY SameSlots, SameTasks
<1>3. BuiltOK' /\ ProjectOK' /\ ArrivedOK'
  BY SameBuilt, SameProject, SameArrived
<1>4. QED
  BY <1>1, <1>2, <1>3

LEMMA OpenFileStep ==
    ASSUME IInv, NEW channels \in 1..MaxChannels, NEW frames \in FrameCounts,
           OpenFile(channels, frames)
    PROVE  IInv'
<1> USE DEF IInv, OpenFile
<1>1. ShapeOK' /\ SlotsOK' /\ TasksOK' /\ BuiltOK' /\ ProjectOK' /\ ArrivedOK'
  BY WithinFile, SameDocument DEF ShapeOK, Loading, parser
<1> DEFINE factories == Task.factories
           row == [c \in 1..channels |-> IF c <= Len(factories) THEN factories[c] ELSE 0]
<1>2. Task = tasks[1] /\ 1 \in 1..Len(tasks) /\ tasks # <<>>
  BY DEF ShapeOK, Task, Loading
<1>3. factories \in Seq(Nat)
  BY <1>2 DEF TasksOK, IsVectorOf
<1>4. channels \in Nat \ {0} /\ frames \in Nat /\ Len(factories) <= channels
  BY FramesAssumption DEF FramesAssumption
<1> HIDE DEF factories
<1>5. row \in [1..channels -> Nat]
  BY <1>3, <1>4
<1>6. row \in Seq(Nat) /\ Len(row) = channels
        /\ \A c \in 1..channels : row[c] = IF c <= Len(factories) THEN factories[c] ELSE 0
  BY <1>4, <1>5
<1>7. wave' = [channels |-> row, frames |-> frames, remaining |-> frames]
  BY DEF factories
<1> HIDE DEF row
<1>8. Task' = Task /\ Task.factories = factories /\ tasks' = tasks
  BY DEF Task, factories
<1>9. /\ wave'.channels = row /\ wave'.frames = frames /\ wave'.remaining = frames
  BY <1>7
<1>10. parse' \in {"done", "failed"}
  BY DEF Loading, parser
<1>11. WaveOK'
  <2>1. wave' = [channels |-> wave'.channels, frames |-> wave'.frames, remaining |-> wave'.remaining]
    BY <1>7, <1>9
  <2>2. frames \in 0..frames
    BY <1>4
  <2>3. Len(wave'.channels) = channels /\ row \in Seq(Nat)
    BY <1>6, <1>9
  <2>4. Len(tasks') \in Nat /\ tasks' # <<>> /\ Task'.factories = factories
    BY <1>2, <1>8 DEF ShapeOK
  <2>5. QED
    BY ONLY <1>4, <1>6, <1>9, <1>10, <2>1, <2>2, <2>3, <2>4 DEF WaveOK, Channels
<1>12. SamplesOK'
  <2>1. frames - frames = 0
    BY <1>4
  <2>2. \A i \in Entries :
            Entry(i).path \in Paths /\ files[Entry(i).path] = "unread" => samples[i] = Frames(i, 0)
    BY DEF SamplesOK, IsBeingRead
  <2>3. document' = document
    BY DEF Loading, parser
  <2>4. QED
    BY <1>9, <2>1, <2>2, <2>3, SameDocument DEF SamplesOK
<1>13. QED
  BY <1>1, <1>11, <1>12

LEMMA Monotone ==
    ASSUME NEW c \in Nat, NEW a \in Int, NEW b \in Int, a < b
    PROVE  c * a + c <= c * b
<1>1. c * (b - a - 1) >= 0
  OBVIOUS
<1>2. QED
  BY <1>1

\* Where a sample is among the interleaved ones.
LEMMA Interleaving ==
    ASSUME NEW c \in Nat \ {0}, NEW n \in Nat, NEW k \in 1..n, NEW d \in 1..c
    PROVE  /\ (k - 1) * c + d - 1 \in 0..(n * c - 1)
           /\ ((k - 1) * c + d - 1) % c = d - 1
           /\ ((k - 1) * c + d - 1) \div c = k - 1
<1> DEFINE x == (k - 1) * c + d - 1
           p == c * (k - 1)
           q == x \div c
           r == x % c
<1>1. (k - 1) * c = p /\ p \in Nat
  OBVIOUS
<1>2. x = p + (d - 1) /\ x \in Nat
  BY <1>1
<1> HIDE DEF x
<1>3. q \in Nat /\ r \in 0..(c - 1) /\ x = c * q + r
  BY <1>2
<1> HIDE DEF q, r
<1>4. ~(k - 1 < q)
  <2>1. k - 1 < q => p + c <= c * q
    BY <1>3, Monotone
  <2>2. c * q \in Nat
    BY <1>3
  <2>3. QED
    BY <1>1, <1>2, <1>3, <2>1, <2>2
<1>5. ~(q < k - 1)
  <2>1. q < k - 1 => c * q + c <= p
    BY <1>3, Monotone
  <2>2. c * q \in Nat
    BY <1>3
  <2>3. QED
    BY <1>1, <1>2, <1>3, <2>1, <2>2
<1>6. q = k - 1
  BY <1>3, <1>4, <1>5
<1>7. r = d - 1
  BY <1>1, <1>2, <1>3, <1>6
<1>8. x <= n * c - 1
  <2>1. p + c <= c * n
    BY Monotone
  <2>2. c * n = n * c /\ n * c \in Nat
    OBVIOUS
  <2>3. QED
    BY <1>1, <1>2, <2>1, <2>2
<1>9. n * c - 1 \in Int
  OBVIOUS
<1>10. x \in 0..(n * c - 1)
  BY <1>2, <1>8, <1>9
<1>11. QED
  BY <1>6, <1>7, <1>10 DEF x, q, r

LEMMA SequenceFunction ==
    ASSUME NEW S, NEW s \in Seq(S)
    PROVE  s \in [1..Len(s) -> S]
  OBVIOUS

LEMMA FunctionSequence ==
    ASSUME NEW S, NEW n \in Nat, NEW s \in [1..n -> S]
    PROVE  s \in Seq(S) /\ Len(s) = n
  OBVIOUS

LEMMA ConcatFacts ==
    ASSUME NEW S, NEW s \in Seq(S), NEW t \in Seq(S)
    PROVE  /\ s \o t \in [1..(Len(s) + Len(t)) -> S]
           /\ \A k \in 1..(Len(s) + Len(t)) :
                  (s \o t)[k] = IF k <= Len(s) THEN s[k] ELSE t[k - Len(s)]
<1>1. s \o t \in Seq(S) /\ Len(s \o t) = Len(s) + Len(t)
  OBVIOUS
<1>2. s \o t \in [1..(Len(s) + Len(t)) -> S]
  BY <1>1, SequenceFunction
<1>3. ASSUME NEW k \in 1..(Len(s) + Len(t))
      PROVE  (s \o t)[k] = IF k <= Len(s) THEN s[k] ELSE t[k - Len(s)]
  OBVIOUS
<1>4. QED
  BY <1>2, <1>3

\* More frames of one channel.
LEMMA MoreFrames ==
    ASSUME document \in Documents, NEW i \in Entries, NEW n \in Nat, NEW m \in Nat,
           NEW new, new = [k \in 1..m |-> <<Entry(i).path, Entry(i).channel, n + k>>]
    PROVE  Frames(i, n) \o new = Frames(i, n + m)
<1> DEFINE Sample(k) == <<Entry(i).path, Entry(i).channel, k>>
           S == {Sample(k) : k \in Nat}
           old == Frames(i, n)
           all == Frames(i, n + m)
<1>1. \A k \in Nat : Sample(k) \in S
  OBVIOUS
<1>2. /\ old = [k \in 1..n |-> Sample(k)] /\ all = [k \in 1..(n + m) |-> Sample(k)]
      /\ new = [k \in 1..m |-> Sample(n + k)]
  BY DEF Frames
<1> HIDE DEF Sample, S, old, all
<1>3. /\ old \in [1..n -> S] /\ new \in [1..m -> S] /\ all \in [1..(n + m) -> S] /\ n + m \in Nat
  <2>1. n + m \in Nat /\ \A k \in 1..m : n + k \in Nat
    OBVIOUS
  <2>2. \A k \in 1..(n + m) : k \in Nat
    BY <2>1
  <2>3. old \in [1..n -> S]
    BY <1>1, <1>2
  <2>4. new \in [1..m -> S]
    BY <1>1, <1>2, <2>1
  <2>5. all \in [1..(n + m) -> S]
    BY <1>1, <1>2, <2>2
  <2>6. QED
    BY <2>1, <2>3, <2>4, <2>5
<1>4. /\ old \in Seq(S) /\ Len(old) = n
      /\ new \in Seq(S) /\ Len(new) = m
      /\ all \in Seq(S) /\ Len(all) = n + m
  BY <1>3, FunctionSequence
<1>5. /\ old \o new \in [1..(n + m) -> S]
      /\ \A k \in 1..(n + m) : (old \o new)[k] = IF k <= n THEN old[k] ELSE new[k - n]
  <2>1. /\ old \o new \in [1..(Len(old) + Len(new)) -> S]
        /\ \A k \in 1..(Len(old) + Len(new)) :
               (old \o new)[k] = IF k <= Len(old) THEN old[k] ELSE new[k - Len(old)]
    BY <1>4, ConcatFacts
  <2>2. QED
    BY <1>4, <2>1
<1>6. \A k \in 1..(n + m) : (old \o new)[k] = Sample(k)
  <2>1. \A k \in 1..(n + m) : k <= n => k \in 1..n
    OBVIOUS
  <2>2. \A k \in 1..(n + m) : ~(k <= n) => k - n \in 1..m /\ n + (k - n) = k
    OBVIOUS
  <2>3. QED
    BY <1>2, <1>5, <2>1, <2>2
<1>8. old \o new = all
  BY <1>2, <1>3, <1>5, <1>6
<1>9. QED
  BY <1>8 DEF old, all

\* What is known of the sound file that is being read.
LEMMA ReadingFacts ==
    ASSUME IInv, wave # NoWave
    PROVE  /\ Task = tasks[1] /\ 1 \in 1..Len(tasks) /\ Task.path \in Paths
           /\ IsVectorOf(Task.factories, Task.path, Len(document.signals))
           /\ files[Task.path] = "unread"
           /\ wave.frames \in Nat /\ wave.frames \in FrameCounts
           /\ wave.remaining \in 0..wave.frames
           /\ Channels \in Nat \ {0}
<1> USE DEF IInv
<1>1. tasks # <<>> /\ wave.frames \in FrameCounts /\ wave.remaining \in 0..wave.frames
         /\ Channels \in Nat \ {0}
  BY DEF WaveOK
<1>2. Task = tasks[1] /\ 1 \in 1..Len(tasks)
  BY <1>1 DEF ShapeOK, Task
<1>3. Task.path \in Paths
  BY <1>2, TaskTypes
<1>4. IsVectorOf(Task.factories, Task.path, Len(document.signals)) /\ files[Task.path] = "unread"
  BY <1>2 DEF TasksOK
<1>5. QED
  BY <1>1, <1>2, <1>3, <1>4, FramesAssumption DEF FramesAssumption

\* The channel of each signal is found, and the others have none.
LEMMA ChannelOf ==
    ASSUME IInv, wave # NoWave, NEW i \in Entries
    PROVE  IF i \in Whole(Task.path)
           THEN /\ Entry(i).channel \in 1..Channels
                /\ \A c \in 1..Channels : wave.channels[c] = i <=> c = Entry(i).channel
           ELSE \A c \in 1..Channels : wave.channels[c] # i
<1> DEFINE factories == Task.factories
<1>1. /\ document \in Documents /\ i # 0
      /\ Len(factories) <= Channels /\ Channels \in Nat
      /\ \A c \in 1..Channels :
             wave.channels[c] = IF c <= Len(factories) THEN factories[c] ELSE 0
  BY DocumentFacts DEF IInv, ShapeOK, WaveOK
<1>2. /\ factories \in Seq(Nat) /\ Len(factories) \in Nat
      /\ \A c \in 1..Len(factories) :
             factories[c] # 0 => factories[c] \in Whole(Task.path) /\ Entry(factories[c]).channel = c
      /\ \A j \in Whole(Task.path) :
             Entry(j).channel \in 1..Len(factories) /\ factories[Entry(j).channel] = j
  BY ReadingFacts DEF IsVectorOf, Whole
<1> HIDE DEF factories
<1>3. \A c \in 1..Channels : c <= Len(factories) => c \in 1..Len(factories)
  OBVIOUS
<1>4. 1..Len(factories) \subseteq 1..Channels
  BY <1>1, <1>2
<1>5. CASE i \in Whole(Task.path)
  <2>1. Entry(i).channel \in 1..Len(factories) /\ factories[Entry(i).channel] = i
    BY <1>2, <1>5
  <2>2. Entry(i).channel \in 1..Channels /\ wave.channels[Entry(i).channel] = i
    BY <1>1, <1>4, <2>1
  <2>3. ASSUME NEW c \in 1..Channels, wave.channels[c] = i
        PROVE  c = Entry(i).channel
    BY <1>1, <1>2, <1>3, <2>3
  <2>4. QED
    BY <1>5, <2>2, <2>3
<1>6. CASE i \notin Whole(Task.path)
  <2>1. ASSUME NEW c \in 1..Channels, wave.channels[c] = i
        PROVE  FALSE
    BY <1>1, <1>2, <1>3, <1>6, <2>1
  <2>2. QED
    BY <1>6, <2>1
<1>7. QED
  BY <1>5, <1>6

\* A channel of the buffer has the next frames of its channel.
LEMMA DeinterleavedFacts ==
    ASSUME IInv, wave # NoWave, Count \in Nat, NEW c \in 1..Channels
    PROVE  Deinterleaved(c) =
               [k \in 1..Count |-> <<Task.path, c, (wave.frames - wave.remaining) + k>>]
<1> DEFINE read == wave.frames - wave.remaining
<1>1. Channels \in Nat \ {0} /\ c \in Nat \ {0} /\ read \in Nat
  BY ReadingFacts
<1> HIDE DEF read
<1>2. ASSUME NEW k \in 1..Count
      PROVE  interleaved[(k - 1) * Channels + c - 1] = <<Task.path, c, read + k>>
  <2> DEFINE x == (k - 1) * Channels + c - 1
  <2>1. x \in 0..(Count * Channels - 1) /\ x % Channels = c - 1 /\ x \div Channels = k - 1
    BY <1>1, Interleaving
  <2> HIDE DEF x
  <2>2. interleaved[x] = <<Task.path, (x % Channels) + 1, read + (x \div Channels) + 1>>
    BY <2>1 DEF interleaved, read
  <2>3. (c - 1) + 1 = c /\ read + (k - 1) + 1 = read + k
    BY <1>1
  <2>4. interleaved[x] = <<Task.path, c, read + k>>
    BY <2>1, <2>2, <2>3
  <2>5. QED
    BY <2>4 DEF x
<1>3. QED
  BY <1>2 DEF Deinterleaved, read

LEMMA ReadChunkStep == IInv /\ ReadChunk => IInv'
<1> SUFFICES ASSUME IInv, ReadChunk PROVE IInv'
  OBVIOUS
<1>1. ShapeOK' /\ SlotsOK' /\ TasksOK' /\ BuiltOK' /\ ProjectOK' /\ ArrivedOK'
  BY WithinFile DEF ReadChunk
<1>2. wave # NoWave
  BY DEF ReadChunk, NoWave
<1> DEFINE read == wave.frames - wave.remaining
<1>3. /\ document \in Documents /\ Task.path \in Paths
      /\ wave.frames \in Nat /\ wave.remaining \in 0..wave.frames /\ wave.remaining > 0
      /\ read \in Nat
  BY <1>2, ReadingFacts DEF ReadChunk, IInv, ShapeOK
<1>4. /\ Count \in Nat /\ Count <= wave.remaining /\ wave.remaining - Count \in 0..wave.frames
      /\ wave.frames - (wave.remaining - Count) = read + Count
  BY <1>3, ChunkAssumption DEF Count, ChunkAssumption
<1>5. /\ wave' = [wave EXCEPT !.remaining = @ - Count]
      /\ document' = document /\ tasks' = tasks /\ files' = files /\ parse' = parse
      /\ parse \in {"done", "failed"}
  BY DEF ReadChunk, Loading, parser
<1>6. /\ wave = [channels |-> wave.channels, frames |-> wave.frames, remaining |-> wave.remaining]
      /\ wave.channels \in Seq(Nat) /\ Len(wave.channels) \in Nat \ {0}
  BY <1>2 DEF IInv, WaveOK, Channels
<1>7. wave' = [channels |-> wave.channels, frames |-> wave.frames,
               remaining |-> wave.remaining - Count]
  BY <1>5, <1>6
<1>8. /\ wave'.channels = wave.channels /\ wave'.frames = wave.frames
      /\ wave'.remaining = wave.remaining - Count
      /\ Task' = Task /\ Channels' = Channels
      /\ NoWave' = NoWave /\ wave' # NoWave
  <2>1. <<>> \in Seq(Nat) /\ Len(<<>>) = 0
    OBVIOUS
  <2>2. NoWave.channels = <<>>
    BY DEF NoWave
  <2>3. wave'.channels # NoWave.channels
    BY <1>6, <1>7, <2>1, <2>2
  <2>4. QED
    BY <1>5, <1>7, <2>3 DEF Task, Channels, NoWave
<1>9. WaveOK'
  BY <1>2, <1>4, <1>5, <1>7, <1>8 DEF IInv, WaveOK
<1>10. SamplesOK'
  <2>1. ASSUME NEW i \in Entries, Entry(i).path \in Paths, files[Entry(i).path] = "unread"
        PROVE  samples'[i] = Frames(i, IF i \in Whole(Task.path) THEN read + Count ELSE 0)
    <3>1. samples[i] = Frames(i, IF i \in Whole(Task.path) THEN read ELSE 0)
      BY <1>2, <2>1 DEF IInv, SamplesOK, IsBeingRead
    <3>2. samples'[i] = IF \E c \in 1..Channels : wave.channels[c] = i
                        THEN samples[i] \o Deinterleaved(CHOOSE c \in 1..Channels : wave.channels[c] = i)
                        ELSE samples[i]
      BY <2>1 DEF ReadChunk
    <3>3. CASE i \in Whole(Task.path)
      <4>1. /\ Entry(i).channel \in 1..Channels
            /\ \A c \in 1..Channels : wave.channels[c] = i <=> c = Entry(i).channel
        BY <1>2, <3>3, ChannelOf
      <4>2. samples'[i] = samples[i] \o Deinterleaved(Entry(i).channel)
        BY <3>2, <4>1
      <4>3. Entry(i).path = Task.path
        BY <3>3 DEF Whole, Kept
      <4>4. Deinterleaved(Entry(i).channel) =
                [k \in 1..Count |-> <<Entry(i).path, Entry(i).channel, read + k>>]
        BY <1>2, <1>4, <4>1, <4>3, DeinterleavedFacts
      <4>5. Frames(i, read) \o Deinterleaved(Entry(i).channel) = Frames(i, read + Count)
        <5> DEFINE more == Deinterleaved(Entry(i).channel)
        <5> HIDE DEF more, read
        <5>1. more = [k \in 1..Count |-> <<Entry(i).path, Entry(i).channel, read + k>>]
          BY <4>4 DEF more
        <5>2. Frames(i, read) \o more = Frames(i, read + Count)
          BY <1>3, <1>4, <2>1, <5>1, MoreFrames
        <5>3. QED
          BY <5>2 DEF more
      <4>6. QED
        BY <3>1, <3>3, <4>2, <4>5
    <3>4. CASE i \notin Whole(Task.path)
      <4>1. \A c \in 1..Channels : wave.channels[c] # i
        BY <1>2, <3>4, ChannelOf
      <4>2. QED
        BY <3>1, <3>2, <3>4, <4>1
    <3>5. QED
      BY <3>3, <3>4
  <2>2. (wave.frames - wave.remaining)' = read + Count
    BY <1>4, <1>8
  <2>3. \A i : IsBeingRead(i)' <=> i \in Whole(Task.path)
    BY <1>5, <1>8, SameDocument DEF IsBeingRead
  <2> HIDE DEF read
  <2>4. QED
    BY <1>5, <2>1, <2>2, <2>3, SameDocument DEF SamplesOK
<1>11. QED
  BY <1>1, <1>9, <1>10 DEF IInv

\* The signals of the file leave their factories together.
LEMMA TakeSignalsStep == IInv /\ TakeSignals => IInv'
<1> SUFFICES ASSUME IInv, TakeSignals,
                    NEW path, path = Task.path, NEW n, n = wave.frames,
                    NEW new, new = [i \in Owned(Task.factories) |-> samples[i]]
             PROVE  IInv'
  OBVIOUS
<1> DEFINE x == [kind |-> "signals", signals |-> new]
<1>1. /\ SlotsOK' /\ TasksOK' /\ WaveOK' /\ SamplesOK' /\ BuiltOK'
      /\ tasks' \in Seq([path : Paths, factories : Seq(Nat)])
      /\ files' \in [Paths -> {"unread", "bad", "good"}]
      /\ path \in Paths /\ files[path] = "unread" /\ files'[path] = "good"
      /\ \A p \in Paths : files[p] = "good" => files'[p] = "good"
  BY AnswerFacts DEF TakeSignals
<1>2. /\ results' = Append(results, x) /\ x.kind = "signals" /\ x.signals = new
      /\ wave # NoWave /\ wave.remaining = 0
      /\ UNCHANGED <<native, document, parse, next, slots, built, project, signals, samples>>
  BY DEF TakeSignals, Loading, parser, main
<1>3. document \in Documents /\ Len(document.signals) \in Nat
  BY DocumentFacts DEF IInv, ShapeOK
<1>4. /\ IsVectorOf(Task.factories, path, Len(document.signals))
      /\ Task.factories # <<>> /\ n \in Nat /\ n \in FrameCounts
  BY <1>2, ReadingFacts DEF IInv, TasksOK
<1>5. DOMAIN new = Whole(path) /\ Whole(path) # {}
  BY <1>3, <1>4, OwnedFacts DEF IsVectorOf, Whole
<1>6. \A i \in Whole(path) : i \in Entries /\ Entry(i).path = path
  BY <1>3, DocumentFacts DEF Whole, Kept
<1>7. ASSUME NEW i \in Whole(path)
      PROVE  new[i] = Frames(i, n)
  <2>1. samples[i] = Frames(i, n - wave.remaining)
    BY <1>1, <1>2, <1>6, <1>7 DEF IInv, SamplesOK, IsBeingRead
  <2>2. n - wave.remaining = n
    BY <1>2, <1>4
  <2>3. QED
    BY <1>5, <2>1, <2>2
<1> HIDE DEF x
<1>8. /\ results' \in Seq({results'[r] : r \in DOMAIN results'})
      /\ Len(results) \in Nat /\ Len(results') = Len(results) + 1
      /\ \A r \in 1..Len(results) : results'[r] = results[r]
      /\ results'[Len(results) + 1] = x
  BY <1>2, AppendResult DEF IInv
<1>9. ShapeOK'
  BY <1>1, <1>2, <1>8, SameDocument DEF IInv, ShapeOK
<1>10. ProjectOK'
  <2>1. \A r : /\ IsResult(r, "project")' <=> IsResult(r, "project")
               /\ IsResult(r, "project") => r \in 1..Len(results) /\ results'[r] = results[r]
    BY <1>2, <1>8 DEF IsResult
  <2>2. project' = project /\ parse' = parse /\ None' = None
    BY <1>2 DEF None
  <2>3. QED
    BY <1>2, <2>1, <2>2, SameDocument DEF IInv, ProjectOK
<1>11. ArrivedOK'
  <2>1. \A r : IsResult(r, "signals")' =>
                   \/ r = Len(results) + 1 /\ results'[r].signals = new
                   \/ IsResult(r, "signals") /\ r \in 1..Len(results) /\ results'[r] = results[r]
    BY <1>2, <1>8 DEF IsResult
  <2>2. \A p \in Paths : \A s, m : Arrived(s, p, m) => Arrived(s, p, m)'
    BY <1>1, <1>2, ArrivedKeeps
  <2>3. Arrived(new, path, n)'
    <3>1. /\ Whole(path)' = Whole(path) /\ files'[path] = "good"
          /\ \A i : Frames(i, n)' = Frames(i, n)
      BY <1>1, <1>2, SameDocument
    <3>2. \A i \in Whole(path) : i \in DOMAIN new /\ new[i] = Frames(i, n)
      BY <1>5, <1>7
    <3>3. QED
      BY ONLY <1>4, <1>5, <3>1, <3>2 DEF Arrived
  <2>4. \A p \in Paths : files[p] = "good" => Whole(p) \cap Whole(path) = {}
    BY <1>1 DEF Whole, Kept
  <2>5. \A r : IsResult(r, "signals") => DOMAIN results[r].signals \cap DOMAIN new = {}
    BY <1>5, <2>4 DEF IInv, ArrivedOK, Arrived, IsResult
  <2>6. DOMAIN signals \cap DOMAIN new = {}
    BY <1>5, <2>4 DEF IInv, ArrivedOK, Arrived
  <2>7. ASSUME NEW r \in 1..Len(results'), IsResult(r, "signals")'
        PROVE  /\ \E p \in Paths, m \in FrameCounts :
                      /\ Arrived(results[r].signals, p, m)'
                      /\ DOMAIN results'[r].signals = Whole(p)
               /\ DOMAIN results'[r].signals \cap DOMAIN signals = {}
               /\ \A q \in 1..Len(results') :
                      IsResult(q, "signals")' /\ q # r =>
                          DOMAIN results'[q].signals \cap DOMAIN results'[r].signals = {}
    <3>1. CASE r = Len(results) + 1 /\ results'[r].signals = new
      <4>1. Arrived(results[r].signals, path, n)'
        BY <2>3, <3>1
      <4>2. DOMAIN results'[r].signals = Whole(path)
        BY <1>5, <3>1
      <4>3. \A q \in 1..Len(results') :
                IsResult(q, "signals")' /\ q # r =>
                    DOMAIN results'[q].signals \cap DOMAIN results'[r].signals = {}
        BY <2>1, <2>5, <3>1
      <4>4. DOMAIN results'[r].signals \cap DOMAIN signals = {}
        BY <2>6, <3>1
      <4>5. QED
        BY <1>1, <1>4, <4>1, <4>2, <4>3, <4>4
    <3>2. CASE IsResult(r, "signals") /\ results'[r] = results[r] /\ r \in 1..Len(results)
      <4>1. PICK p \in Paths, m \in FrameCounts :
                /\ Arrived(results[r].signals, p, m)
                /\ DOMAIN results[r].signals = Whole(p)
        BY <3>2 DEF IInv, ArrivedOK
      <4>2. \A q \in 1..Len(results') :
                IsResult(q, "signals")' /\ q # r =>
                    DOMAIN results'[q].signals \cap DOMAIN results'[r].signals = {}
        BY <2>1, <2>5, <3>2 DEF IInv, ArrivedOK
      <4>3. DOMAIN results[r].signals \cap DOMAIN signals = {}
        BY <3>2 DEF IInv, ArrivedOK
      <4>4. Arrived(results[r].signals, p, m)'
        BY <2>2, <3>2, <4>1
      <4>5. QED
        BY <3>2, <4>1, <4>2, <4>3, <4>4
    <3>3. QED
      BY <2>1, <2>7, <3>1, <3>2
  <2>8. ASSUME NEW i \in DOMAIN signals
        PROVE  \E p \in Paths, m \in FrameCounts : Arrived(signals, p, m)' /\ i \in Whole(p)
    <3>1. PICK p \in Paths, m \in FrameCounts : Arrived(signals, p, m) /\ i \in Whole(p)
      BY DEF IInv, ArrivedOK
    <3>2. Arrived(signals, p, m)'
      BY <1>2, <2>2, <3>1
    <3>3. QED
      BY <3>1, <3>2
  <2>9. document' = document /\ signals' = signals
    BY <1>2
  <2>10. QED
    BY <2>7, <2>8, <2>9, SameDocument DEF ArrivedOK
<1>12. QED
  BY <1>1, <1>9, <1>10, <1>11 DEF IInv

------------------------------------------------------------------------------
(* The invariant: the main thread *)

\* The oldest result is received.
LEMMA ReceiveFacts ==
    ASSUME IInv, NEW kind, Receive(kind), tasks' = tasks
    PROVE  /\ ShapeOK' /\ SlotsOK' /\ TasksOK' /\ WaveOK' /\ SamplesOK' /\ BuiltOK'
           /\ document' = document /\ parse' = parse /\ files' = files
           /\ Head(results) = results[1] /\ IsResult(1, kind)
           /\ \A r \in 1..Len(results') :
                  /\ r + 1 \in 1..Len(results) /\ r + 1 # 1
                  /\ results'[r] = results[r + 1]
                  /\ \A q \in 1..Len(results') : q + 1 = r + 1 => q = r
           /\ \A r, k : IsResult(r, k)' => r \in 1..Len(results') /\ IsResult(r + 1, k)
<1> USE DEF IInv, Receive, parser
<1> DEFINE S == {results[r] : r \in DOMAIN results}
<1>1. results \in Seq(S) /\ results # <<>> /\ results' = Tail(results)
  BY DEF ShapeOK
<1> HIDE DEF S
<1>2. /\ results' \in Seq(S) /\ Len(results) \in Nat \ {0} /\ Head(results) = results[1]
      /\ Len(results') = Len(results) - 1
      /\ \A r \in 1..Len(results') :
             r + 1 \in 1..Len(results) /\ r + 1 # 1 /\ results'[r] = results[r + 1]
  BY <1>1, TailFacts
<1>3. results' \in Seq({results'[r] : r \in DOMAIN results'})
  <2>1. results' \in Seq(S)
    BY <1>2
  <2>2. QED
    BY ONLY <2>1, OwnElements
<1>4. ShapeOK'
  BY <1>3, SameDocument DEF ShapeOK, reader
<1>5. SlotsOK' /\ TasksOK' /\ WaveOK' /\ SamplesOK' /\ BuiltOK'
  BY SameSlots, SameTasks, SameReader, SameBuilt DEF reader
<1>6. \A r \in 1..Len(results') : \A q \in 1..Len(results') : q + 1 = r + 1 => q = r
  BY <1>2
<1>7. \A r, k : IsResult(r, k)' => r \in 1..Len(results') /\ IsResult(r + 1, k)
  BY <1>2 DEF IsResult
<1>8. IsResult(1, kind)
  BY <1>2 DEF IsResult
<1>9. QED
  BY <1>2, <1>4, <1>5, <1>6, <1>7, <1>8 DEF reader

\* What does not change when nothing else is received than the result.
LEMMA ReceiveOther ==
    ASSUME IInv, NEW kind, Receive(kind), tasks' = tasks
    PROVE  /\ project' = project => ProjectOK'
           /\ signals' = signals => ArrivedOK'
<1>1. /\ document' = document /\ parse' = parse /\ files' = files
      /\ \A r \in 1..Len(results') :
             /\ r + 1 \in 1..Len(results) /\ r + 1 # 1
             /\ results'[r] = results[r + 1]
             /\ \A q \in 1..Len(results') : q + 1 = r + 1 => q = r
      /\ \A r, k : IsResult(r, k)' => r \in 1..Len(results') /\ IsResult(r + 1, k)
  BY ReceiveFacts
<1> HIDE DEF Receive
<1>2. ASSUME project' = project
      PROVE  ProjectOK'
  <2>1. project' # None <=> project # None
    BY <1>2 DEF None
  <2>2. ASSUME NEW r \in 1..Len(results'), IsResult(r, "project")'
        PROVE  /\ parse = "done" /\ project = None /\ Complete(results'[r].project)
               /\ \A q \in 1..Len(results') : IsResult(q, "project")' => q = r
    <3>1. r + 1 \in 1..Len(results) /\ IsResult(r + 1, "project")
      BY <1>1, <2>2
    <3>2. /\ parse = "done" /\ project = None /\ Complete(results[r + 1].project)
          /\ \A q \in 1..Len(results) : IsResult(q, "project") => q = r + 1
      BY <3>1 DEF IInv, ProjectOK
    <3>3. QED
      BY <1>1, <3>2
  <2>3. QED
    BY <1>1, <1>2, <2>1, <2>2, SameDocument DEF IInv, ProjectOK, None
<1>3. ASSUME signals' = signals
      PROVE  ArrivedOK'
  <2>1. \A path \in Paths : \A new, n : Arrived(new, path, n) => Arrived(new, path, n)'
    BY <1>1, ArrivedKeeps
  <2>2. ASSUME NEW r \in 1..Len(results'), IsResult(r, "signals")'
        PROVE  /\ \E path \in Paths, n \in FrameCounts :
                      /\ Arrived(results[r].signals, path, n)'
                      /\ DOMAIN results'[r].signals = Whole(path)
               /\ DOMAIN results'[r].signals \cap DOMAIN signals = {}
               /\ \A q \in 1..Len(results') :
                      IsResult(q, "signals")' /\ q # r =>
                          DOMAIN results'[q].signals \cap DOMAIN results'[r].signals = {}
    <3>1. r + 1 \in 1..Len(results) /\ IsResult(r + 1, "signals") /\ results'[r] = results[r + 1]
      BY <1>1, <2>2
    <3>2. PICK path \in Paths, n \in FrameCounts :
              /\ Arrived(results[r + 1].signals, path, n)
              /\ DOMAIN results[r + 1].signals = Whole(path)
      BY <3>1 DEF IInv, ArrivedOK
    <3>3. Arrived(results[r].signals, path, n)'
      BY <2>1, <3>1, <3>2
    <3>4. /\ DOMAIN results[r + 1].signals \cap DOMAIN signals = {}
          /\ \A q \in 1..Len(results) :
                 IsResult(q, "signals") /\ q # r + 1 =>
                     DOMAIN results[q].signals \cap DOMAIN results[r + 1].signals = {}
      BY <3>1 DEF IInv, ArrivedOK
    <3>5. ASSUME NEW q \in 1..Len(results'), IsResult(q, "signals")', q # r
          PROVE  DOMAIN results'[q].signals \cap DOMAIN results'[r].signals = {}
      <4>1. /\ q + 1 \in 1..Len(results) /\ IsResult(q + 1, "signals") /\ q + 1 # r + 1
            /\ results'[q] = results[q + 1]
        BY <1>1, <3>5
      <4>2. QED
        BY <3>1, <3>4, <4>1
    <3>6. QED
      BY <3>1, <3>2, <3>3, <3>4, <3>5
  <2>3. ASSUME NEW i \in DOMAIN signals
        PROVE  \E path \in Paths, n \in FrameCounts : Arrived(signals, path, n)' /\ i \in Whole(path)
    <3>1. PICK path \in Paths, n \in FrameCounts : Arrived(signals, path, n) /\ i \in Whole(path)
      BY DEF IInv, ArrivedOK
    <3>2. Arrived(signals, path, n)'
      BY <1>3, <2>1, <3>1
    <3>3. QED
      BY <3>1, <3>2
  <2>4. QED
    BY <1>1, <1>3, <2>2, <2>3, SameDocument DEF ArrivedOK
<1>4. QED
  BY <1>2, <1>3

LEMMA ReceiveProjectStep == IInv /\ ReceiveProject => IInv'
<1> SUFFICES ASSUME IInv, ReceiveProject PROVE IInv'
  OBVIOUS
<1>1. /\ Receive("project") /\ tasks' = tasks /\ signals' = signals
      /\ project' = Head(results).project
  BY DEF ReceiveProject
<1>2. /\ ShapeOK' /\ SlotsOK' /\ TasksOK' /\ WaveOK' /\ SamplesOK' /\ BuiltOK'
      /\ document' = document /\ parse' = parse /\ files' = files
      /\ Head(results) = results[1] /\ IsResult(1, "project")
      /\ \A r \in 1..Len(results') : r + 1 \in 1..Len(results) /\ r + 1 # 1
      /\ \A r, k : IsResult(r, k)' => r \in 1..Len(results') /\ IsResult(r + 1, k)
  BY <1>1, ReceiveFacts
<1>3. ArrivedOK'
  BY <1>1, ReceiveOther
<1>4. 1 \in 1..Len(results)
  BY <1>2 DEF IsResult
<1>5. /\ parse = "done" /\ Complete(project')
      /\ \A q \in 1..Len(results) : IsResult(q, "project") => q = 1
  BY <1>1, <1>2, <1>4 DEF IInv, ProjectOK
<1>6. \A r : ~IsResult(r, "project")'
  BY <1>2, <1>5
<1>7. Complete(project)'
  BY <1>2, <1>5, SameDocument
<1>8. ProjectOK'
  BY <1>2, <1>5, <1>6, <1>7 DEF ProjectOK
<1>9. QED
  BY <1>2, <1>3, <1>8 DEF IInv

LEMMA ReceiveNothingStep == IInv /\ (ReceiveNull \/ ReceiveError) => IInv'
<1> SUFFICES ASSUME IInv, ReceiveNull \/ ReceiveError PROVE IInv'
  OBVIOUS
<1>1. PICK kind : Receive(kind) /\ tasks' = tasks /\ signals' = signals /\ project' = project
  BY DEF ReceiveNull, ReceiveError, main
<1>2. /\ ShapeOK' /\ SlotsOK' /\ TasksOK' /\ WaveOK' /\ SamplesOK' /\ BuiltOK'
      /\ ProjectOK' /\ ArrivedOK'
  BY <1>1, ReceiveFacts, ReceiveOther
<1>3. QED
  BY <1>2 DEF IInv

\* The signals of a file are among others.
LEMMA ArrivedAmong ==
    ASSUME NEW path, NEW n, NEW new, NEW all, Arrived(new, path, n),
           \A i \in Whole(path) : i \in DOMAIN all /\ all[i] = new[i]
    PROVE  Arrived(all, path, n)
  BY DEF Arrived

\* The received signals are added to those of other files.
LEMMA AddSignals ==
    ASSUME IInv, Receive("signals"), tasks' = tasks,
           NEW new, new = Head(results).signals,
           NEW all, all = [i \in DOMAIN signals \cup DOMAIN new |->
                              IF i \in DOMAIN new THEN new[i] ELSE signals[i]],
           signals' = all
    PROVE  ArrivedOK'
<1>1. /\ document' = document /\ parse' = parse /\ files' = files
      /\ Head(results) = results[1] /\ IsResult(1, "signals")
      /\ \A r \in 1..Len(results') :
             /\ r + 1 \in 1..Len(results) /\ r + 1 # 1
             /\ results'[r] = results[r + 1]
             /\ \A q \in 1..Len(results') : q + 1 = r + 1 => q = r
      /\ \A r, k : IsResult(r, k)' => r \in 1..Len(results') /\ IsResult(r + 1, k)
  BY ReceiveFacts
<1>2. 1 \in 1..Len(results)
  BY <1>1 DEF IsResult
<1>3. /\ DOMAIN new \cap DOMAIN signals = {}
      /\ \A q \in 1..Len(results) :
             IsResult(q, "signals") /\ q # 1 => DOMAIN results[q].signals \cap DOMAIN new = {}
  BY <1>1, <1>2 DEF IInv, ArrivedOK
<1>4. PICK own \in Paths, m \in FrameCounts : Arrived(new, own, m) /\ DOMAIN new = Whole(own)
  BY <1>1, <1>2 DEF IInv, ArrivedOK
<1>5. /\ DOMAIN all = DOMAIN signals \cup DOMAIN new
      /\ \A i \in DOMAIN new : all[i] = new[i]
      /\ \A i \in DOMAIN signals : all[i] = signals[i]
  BY <1>3
<1>6. signals' = all
  OBVIOUS
<1>7. ArrivedOK /\ IsResult(1, "signals")
  BY <1>1 DEF IInv
<1>8. \A path \in Paths : \A s, n : Arrived(s, path, n) => Arrived(s, path, n)'
  BY <1>1, ArrivedKeeps
<1>9. ASSUME NEW r \in 1..Len(results'), IsResult(r, "signals")'
      PROVE  /\ \E path \in Paths, n \in FrameCounts :
                    /\ Arrived(results[r].signals, path, n)'
                    /\ DOMAIN results'[r].signals = Whole(path)
             /\ DOMAIN results'[r].signals \cap DOMAIN signals' = {}
             /\ \A q \in 1..Len(results') :
                    IsResult(q, "signals")' /\ q # r =>
                        DOMAIN results'[q].signals \cap DOMAIN results'[r].signals = {}
  <2>1. /\ r + 1 \in 1..Len(results) /\ r + 1 # 1 /\ IsResult(r + 1, "signals")
        /\ results'[r] = results[r + 1]
    BY <1>1, <1>9
  <2>2. PICK path \in Paths, n \in FrameCounts :
            /\ Arrived(results[r + 1].signals, path, n)
            /\ DOMAIN results[r + 1].signals = Whole(path)
    BY <1>7, <2>1 DEF ArrivedOK
  <2>3. Arrived(results[r].signals, path, n)'
    BY <1>8, <2>1, <2>2
  <2>4. /\ DOMAIN results[r + 1].signals \cap DOMAIN signals = {}
        /\ \A q \in 1..Len(results) :
               IsResult(q, "signals") /\ q # r + 1 =>
                   DOMAIN results[q].signals \cap DOMAIN results[r + 1].signals = {}
    BY <1>7, <2>1 DEF ArrivedOK
  <2>5. DOMAIN results'[r].signals \cap DOMAIN signals' = {}
    <3>1. DOMAIN results[r + 1].signals \cap DOMAIN new = {}
      BY <1>3, <2>1
    <3>2. QED
      BY <1>5, <1>6, <2>1, <2>4, <3>1
  <2>6. ASSUME NEW q \in 1..Len(results'), IsResult(q, "signals")', q # r
        PROVE  DOMAIN results'[q].signals \cap DOMAIN results'[r].signals = {}
    <3>1. /\ q + 1 \in 1..Len(results) /\ IsResult(q + 1, "signals") /\ q + 1 # r + 1
          /\ results'[q] = results[q + 1]
      BY <1>1, <2>6
    <3>2. QED
      BY <2>1, <2>4, <3>1
  <2>7. QED
    BY <2>1, <2>2, <2>3, <2>5, <2>6
<1>10. ASSUME NEW i \in DOMAIN all
       PROVE  \E path \in Paths, n \in FrameCounts : Arrived(signals, path, n)' /\ i \in Whole(path)
  <2>1. CASE i \in DOMAIN new
    <3>1. Arrived(all, own, m)
      BY <1>4, <1>5, ArrivedAmong
    <3>2. Arrived(signals, own, m)'
      BY <1>6, <1>8, <3>1
    <3>3. QED
      BY <1>4, <2>1, <3>2
  <2>2. CASE i \in DOMAIN signals
    <3>1. PICK path \in Paths, n \in FrameCounts : Arrived(signals, path, n) /\ i \in Whole(path)
      BY <1>7, <2>2 DEF ArrivedOK
    <3>2. \A j \in Whole(path) : j \in DOMAIN all /\ all[j] = signals[j]
      BY <1>5, <3>1 DEF Arrived
    <3>3. Arrived(all, path, n)
      BY <3>1, <3>2, ArrivedAmong
    <3>4. Arrived(signals, path, n)'
      BY <1>6, <1>8, <3>3
    <3>5. QED
      BY <3>1, <3>4
  <2>3. QED
    BY <1>5, <2>1, <2>2
<1>11. \A path : Whole(path)' = Whole(path)
  BY <1>1, SameDocument
<1>12. QED
  BY ONLY <1>6, <1>9, <1>10, <1>11 DEF ArrivedOK

LEMMA ReceiveSignalsStep == IInv /\ ReceiveSignals => IInv'
<1> SUFFICES ASSUME IInv, ReceiveSignals,
                    NEW new, new = Head(results).signals,
                    NEW all, all = [i \in DOMAIN signals \cup DOMAIN new |->
                                       IF i \in DOMAIN new THEN new[i] ELSE signals[i]]
             PROVE  IInv'
  OBVIOUS
<1>1. /\ Receive("signals") /\ tasks' = tasks /\ project' = project
      /\ signals' = IF project = None THEN signals ELSE all
  BY DEF ReceiveSignals
<1>2. ShapeOK' /\ SlotsOK' /\ TasksOK' /\ WaveOK' /\ SamplesOK' /\ BuiltOK' /\ ProjectOK'
  BY <1>1, ReceiveFacts, ReceiveOther
<1>3. ArrivedOK'
  <2>1. CASE signals' = signals
    BY <1>1, <2>1, ReceiveOther
  <2>2. CASE signals' = all
    BY <1>1, <2>2, AddSignals
  <2>3. QED
    BY <1>1, <2>1, <2>2
<1>4. QED
  BY <1>2, <1>3 DEF IInv

------------------------------------------------------------------------------
(* The invariant holds *)

LEMMA DeserialiseStep == IInv /\ Deserialise => IInv'
<1> SUFFICES ASSUME IInv, Deserialise PROVE IInv'
  OBVIOUS
<1>1. CASE FailToParse
  <2>1. PICK kind \in {"null", "error"} : Fail(kind)
    BY <1>1 DEF FailToParse
  <2>2. /\ UNCHANGED <<native, document, reader, main>>
        /\ parse \notin {"done", "failed"}
    BY <1>1 DEF FailToParse, Reading
  <2>3. QED
    BY <2>1, <2>2, FailStep
<1>2. CASE RefuseSignal
  <2>1. /\ Fail("error") /\ UNCHANGED <<native, document, reader, main>>
        /\ parse \notin {"done", "failed"}
    BY <1>2 DEF RefuseSignal, Reading
  <2>2. QED
    BY <2>1, FailStep
<1>3. CASE OutOfBounds
  <2>1. UNCHANGED <<native, parser, tasks, reader, results, main>>
    BY <1>3 DEF OutOfBounds, Reading, Abort, parser
  <2>2. QED
    BY <2>1, RunningStep
<1>4. ASSUME NEW path \in Paths, SubmitLoadSignalFile(path)
      PROVE  IInv'
  BY <1>4, SubmitStep DEF SubmitLoadSignalFile, Reading
<1>5. QED
  BY <1>1, <1>2, <1>3, <1>4, MetadataStep, SkipEmbeddedStep, PlaceSignalStep, SignalsDoneStep,
     SensorStep, SensorsDoneStep, MappingStep, FinishProjectStep DEF Deserialise

LEMMA LoadStep == IInv /\ Load => IInv'
<1> SUFFICES ASSUME IInv, Load PROVE IInv'
  OBVIOUS
<1>1. CASE CannotOpen \/ ReadTooShort
  BY <1>1, FileFailsStep DEF CannotOpen, ReadTooShort
<1>2. ASSUME NEW channels \in 1..MaxChannels, TooFewChannels(channels)
      PROVE  IInv'
  <2>1. UNCHANGED <<native, parser, tasks, reader, results, main>>
    BY <1>2 DEF TooFewChannels, Loading, reader
  <2>2. QED
    BY <2>1, RunningStep
<1>3. QED
  BY <1>1, <1>2, ReadChunkStep, TakeSignalsStep, OpenFileStep DEF Load

LEMMA NextIInv == IInv /\ [Next]_vars => IInv'
<1> SUFFICES ASSUME IInv, [Next]_vars PROVE IInv'
  OBVIOUS
<1>1. CASE UNCHANGED vars
  BY <1>1, RunningStep DEF vars
<1>2. CASE Main
  BY <1>2, ReceiveProjectStep, ReceiveNothingStep, ReceiveSignalsStep DEF Main
<1>3. ASSUME NEW path \in Paths, SubmitUploaded(path)
      PROVE  IInv'
  <2>1. parse = "done"
    BY <1>3 DEF SubmitUploaded, IInv, ProjectOK
  <2>2. QED
    BY <1>3, <2>1, SubmitStep DEF SubmitUploaded
<1>4. QED
  BY <1>1, <1>2, <1>3, DeserialiseStep, LoadStep DEF Next

\* Whatever is read, submitted and received in whatever order: what is known of
\* the factories of a sound file is never lost on their way from the
\* deserialiser to the project.
THEOREM Invariance == Spec => []IInv
<1>1. Init => IInv
  BY InitIInv
<1>2. IInv /\ [Next]_vars => IInv'
  BY NextIInv
<1>3. QED
  BY <1>1, <1>2, PTL DEF Spec

------------------------------------------------------------------------------
(* The signals of the project *)

\* The frames of the signals are those that have been interleaved in the file.
THEOREM SignalsAreWholeChannelsHolds == Spec => []SignalsAreWholeChannels
<1>1. IInv => SignalsAreWholeChannels
  <2> SUFFICES ASSUME IInv, NEW i \in DOMAIN signals
               PROVE  /\ Len(signals[i]) \in FrameCounts
                      /\ \A k \in DOMAIN signals[i] :
                             signals[i][k] = <<Entry(i).path, Entry(i).channel, k>>
                      /\ \A j \in DOMAIN signals :
                             Entry(i).path = Entry(j).path => Len(signals[i]) = Len(signals[j])
    BY DEF SignalsAreWholeChannels
  <2>1. \A j \in DOMAIN signals :
            \E path \in Paths, n \in FrameCounts : Arrived(signals, path, n) /\ j \in Whole(path)
    BY DEF IInv, ArrivedOK
  <2>2. PICK path \in Paths, n \in FrameCounts : Arrived(signals, path, n) /\ i \in Whole(path)
    BY <2>1
  <2>3. \A j \in Whole(path) : signals[j] = Frames(j, n)
    BY <2>2 DEF Arrived
  <2>4. \A j : Len(Frames(j, n)) = n
    <3>1. n \in Nat
      BY FramesAssumption DEF FramesAssumption
    <3>2. QED
      BY <3>1 DEF Frames
  <2>5. ASSUME NEW j \in DOMAIN signals, Entry(i).path = Entry(j).path
        PROVE  Len(signals[i]) = Len(signals[j])
    <3>1. PICK other \in Paths : j \in Whole(other)
      BY <2>1
    <3>2. other = path
      BY <2>2, <2>5, <3>1 DEF Whole, Kept
    <3>3. QED
      BY <2>2, <2>3, <2>4, <3>1, <3>2
  <2>6. Len(signals[i]) \in FrameCounts
    BY <2>2, <2>3, <2>4
  <2>7. \A k \in DOMAIN signals[i] : signals[i][k] = <<Entry(i).path, Entry(i).channel, k>>
    BY <2>2, <2>3 DEF Frames
  <2>8. QED
    BY <2>5, <2>6, <2>7
<1>2. QED
  BY <1>1, Invariance, PTL

------------------------------------------------------------------------------
(* The promise of ProjectLoad *)

LEMMA PromiseOn ==
    ASSUME document \in Documents, NEW path \in Paths
    PROVE  Promise!On(path) = Whole(path)
<1>1. Entries = 1..Len(document.signals) /\ Len(document.signals) \in Nat
  BY DocumentFacts
<1>2. path # Embedded
  BY PathsAssumption DEF PathsAssumption
<1>3. ASSUME NEW i \in Entries, Entry(i).path = path
      PROVE  Promise!Overwritten(i) <=> Dropped(i, Len(document.signals))
  <2>1. \A j : j \in Entries /\ j > i <=> j \in (i + 1)..Len(document.signals)
    BY <1>1
  <2>2. QED
    BY <1>2, <1>3, <2>1 DEF Promise!Overwritten, Dropped, Entries, Entry
<1>4. QED
  BY <1>1, <1>3 DEF Promise!On, Whole, Kept, Entries, Entry

LEMMA InitPromise == Init => Promise!Init
  BY DEF Init, Promise!Init, None, Promise!None

LEMMA ReceiveProjectPromise == IInv /\ ReceiveProject => Promise!Appear
<1> SUFFICES ASSUME IInv, ReceiveProject PROVE Promise!Appear
  OBVIOUS
<1>1. /\ Receive("project") /\ tasks' = tasks /\ signals' = signals
      /\ project' = Head(results).project
  BY DEF ReceiveProject
<1>2. document' = document /\ Head(results) = results[1] /\ IsResult(1, "project")
  BY <1>1, ReceiveFacts
<1>3. 1 \in 1..Len(results)
  BY <1>2 DEF IsResult
<1>4. parse = "done" /\ project = None /\ Complete(project')
  BY <1>1, <1>2, <1>3 DEF IInv, ProjectOK
<1>5. Consistent /\ document \in Documents
  BY <1>4 DEF IInv, BuiltOK, ShapeOK
<1>6. /\ Entries = 1..Len(document.signals) /\ Len(document.signals) \in Nat
      /\ DOMAIN document.sensors = 1..Len(document.sensors)
      /\ DOMAIN document.mappings = 1..Len(document.mappings)
  BY <1>5, DocumentFacts
<1>7. \A i \in Entries :
          Entry(i).path # Embedded /\ ~Promise!Overwritten(i) => ~Dropped(i, Len(document.signals))
  BY <1>6 DEF Promise!Overwritten, Dropped, Entries, Entry
<1>8. \A i, j \in Entries :
          i # j /\ Entry(i).path # Embedded /\ Entry(j).path # Embedded
          /\ ~Promise!Overwritten(i) /\ ~Promise!Overwritten(j) => Entry(i).name # Entry(j).name
  BY <1>5, <1>6, <1>7 DEF Consistent, DistinctNames
<1>9. Promise!Distinct(document.sensors)
  BY <1>5, <1>6 DEF Consistent, Promise!Distinct
<1> DEFINE pairs == project'.associations
<1>10. /\ project'.exists = TRUE
       /\ project'.sensors = {document.sensors[k] : k \in DOMAIN document.sensors}
       /\ Mapped(pairs, Len(document.mappings))
  BY <1>4, <1>6 DEF Complete, SensorsUpTo
<1> HIDE DEF pairs
<1>11. Promise!IsMapping(pairs)
  BY <1>6, <1>10 DEF Mapped, Promise!IsMapping, Promise!Named, Entries, Entry
<1>12. \A pair \in pairs : pair[2] \in project'.sensors
  BY <1>6, <1>10 DEF Mapped, SensorsUpTo
<1>13. QED
  BY <1>1, <1>2, <1>4, <1>8, <1>9, <1>10, <1>11, <1>12
     DEF Promise!Appear, None, Promise!None, pairs, Entries, Entry

LEMMA ReceiveSignalsPromise ==
    ASSUME IInv, ReceiveSignals, project # None
    PROVE  \E i \in Entries : Entry(i).path # Embedded /\ Promise!Arrive(Entry(i).path)
<1> DEFINE new == Head(results).signals
<1>1. /\ Receive("signals") /\ tasks' = tasks /\ project' = project
      /\ DOMAIN signals' = DOMAIN signals \cup DOMAIN new
  BY DEF ReceiveSignals
<1>2. document' = document /\ Head(results) = results[1] /\ IsResult(1, "signals")
  BY <1>1, ReceiveFacts
<1>3. 1 \in 1..Len(results)
  BY <1>2 DEF IsResult
<1>4. PICK path \in Paths, n \in FrameCounts : Arrived(new, path, n) /\ DOMAIN new = Whole(path)
  BY <1>2, <1>3 DEF IInv, ArrivedOK
<1>5. DOMAIN new \cap DOMAIN signals = {}
  BY <1>2, <1>3 DEF IInv, ArrivedOK
<1> HIDE DEF new
<1>6. document \in Documents /\ path # Embedded
  BY PathsAssumption DEF IInv, ShapeOK, PathsAssumption
<1>7. Promise!On(path) = DOMAIN new /\ DOMAIN new # {}
  BY <1>4, <1>6, PromiseOn DEF Arrived
<1>8. Promise!Arrive(path)
  BY <1>1, <1>2, <1>5, <1>7 DEF Promise!Arrive, None, Promise!None
<1>9. PICK i \in Entries : Entry(i).path = path
  BY <1>4, <1>7, <1>6, DocumentFacts DEF Whole, Kept
<1>10. QED
  BY <1>6, <1>8, <1>9

LEMMA NextPromise == IInv /\ [Next]_vars => [Promise!Next]_Promise!vars
<1> SUFFICES ASSUME IInv, [Next]_vars PROVE Promise!Next \/ UNCHANGED Promise!vars
  OBVIOUS
<1>1. CASE UNCHANGED <<document, project, signals>>
  BY <1>1 DEF Promise!vars
<1>2. CASE ReceiveProject
  BY <1>2, ReceiveProjectPromise DEF Promise!Next
<1>3. CASE ReceiveSignals /\ project # None
  BY <1>3, ReceiveSignalsPromise DEF Promise!Next, Entries, Entry
<1>4. CASE ReceiveSignals /\ project = None
  BY <1>1, <1>4 DEF ReceiveSignals, Receive, parser
<1>5. CASE UNCHANGED vars \/ ReceiveNull \/ ReceiveError
  BY <1>1, <1>5 DEF vars, parser, main, Receive, ReceiveNull, ReceiveError
<1>6. ASSUME NEW path \in Paths, SubmitUploaded(path)
      PROVE  UNCHANGED <<document, project, signals>>
  BY <1>6 DEF SubmitUploaded, main
<1>7. CASE Deserialise
  <2>1. UNCHANGED <<document, main>>
    BY <1>7 DEF Deserialise, FailToParse, get_metadata, RefuseSignal, OutOfBounds, SkipEmbedded,
       PlaceSignal, SubmitLoadSignalFile, SignalsDone, get_sensor, SensorsDone, get_mapping,
       FinishProject, Reading
  <2>2. QED
    BY <1>1, <2>1 DEF main
<1>8. CASE Load
  <2>1. UNCHANGED <<parser, main>>
    BY <1>8 DEF Load, CannotOpen, ReadChunk, ReadTooShort, TakeSignals, TooFewChannels, OpenFile,
       Loading
  <2>2. QED
    BY <1>1, <2>1 DEF parser, main
<1>9. QED
  BY <1>1, <1>2, <1>3, <1>4, <1>5, <1>6, <1>7, <1>8 DEF Next, Main

\* The project appears at once and whole; every sound file of it arrives with
\* all of its signals, and no file arrives twice.
THEOREM Refinement == Spec => ImplementsProjectLoad
<1>1. Init => Promise!Init
  BY InitPromise
<1>2. IInv /\ [Next]_vars => [Promise!Next]_Promise!vars
  BY NextPromise
<1>3. QED
  BY <1>1, <1>2, Invariance, PTL DEF Spec, ImplementsProjectLoad, Promise!Spec

------------------------------------------------------------------------------
(* What is saved of a project *)

\* The elements of a finite set, each once.
LEMMA SetToSeqOfFacts ==
    ASSUME NEW S, IsFiniteSet(S)
    PROVE  /\ \A k \in DOMAIN SetToSeqOf(S) : SetToSeqOf(S)[k] \in S
           /\ \A k, l \in DOMAIN SetToSeqOf(S) : k # l => SetToSeqOf(S)[k] # SetToSeqOf(S)[l]
           /\ \A x \in S : \E k \in DOMAIN SetToSeqOf(S) : SetToSeqOf(S)[k] = x
<1> DEFINE n == Cardinality(S)
           f == SetToSeqOf(S)
           IsIt(g) == \A i, j \in DOMAIN g : i # j => g[i] # g[j]
<1>1. n \in Nat /\ ExistsBijection(1..n, S)
  BY FS_CardinalityType
<1>2. PICK g \in [1..n -> S] : IsIt(g)
  BY <1>1 DEF ExistsBijection, Bijection, Injection, IsInjective
<1>3. f = CHOOSE h \in [1..n -> S] : IsIt(h)
  BY DEF SetToSeqOf
<1>4. f \in [1..n -> S] /\ IsIt(f)
  <2> HIDE DEF IsIt, f, n
  <2>1. QED
    BY <1>2, <1>3
<1> HIDE DEF f, n
<1>5. DOMAIN f = 1..n /\ \A k, l \in 1..n : k # l => f[k] # f[l]
  BY <1>4
<1>6. f \in Injection(1..n, S)
  BY <1>4, <1>5 DEF Injection, IsInjective
<1>7. IsFiniteSet(1..n) /\ Cardinality(1..n) = n
  BY <1>1, FS_Interval
<1>8. f \in Surjection(1..n, S)
  BY <1>6, <1>7, FS_Injection DEF n
<1>9. \A x \in S : \E k \in DOMAIN f : f[k] = x
  BY <1>5, <1>8 DEF Surjection
<1>10. QED
  BY <1>4, <1>5, <1>9 DEF f

\* The image of a finite set is finite.
LEMMA FiniteImage ==
    ASSUME NEW S, IsFiniteSet(S), NEW f, DOMAIN f = S, NEW T, T = {f[x] : x \in S}
    PROVE  IsFiniteSet(T)
<1> DEFINE g == [x \in S |-> f[x]]
<1>1. g \in Surjection(S, T)
  BY DEF Surjection
<1>2. QED
  BY <1>1, FS_Surjection

\* The signals of the project are finitely many, and they differ in their
\* names and in their channels.
LEMMA SignalsDiffer ==
    ASSUME IInv, project # None
    PROVE  /\ IsFiniteSet({Entry(i) : i \in DOMAIN signals})
           /\ \A i, j \in DOMAIN signals :
                  i # j => /\ Entry(i).name # Entry(j).name
                           /\ <<Entry(i).path, Entry(i).channel>> # <<Entry(j).path, Entry(j).channel>>
<1> DEFINE last == Len(document.signals)
<1>1. last \in Nat /\ Entries = 1..last
  BY DocumentFacts DEF IInv, ShapeOK
<1>2. DistinctNames(last)
  BY DEF IInv, ProjectOK, BuiltOK, Consistent
<1> HIDE DEF last
<1>3. \A i \in DOMAIN signals : i \in 1..last /\ ~Dropped(i, last)
  BY DEF IInv, ArrivedOK, Whole, Kept, last
<1>4. IsFiniteSet(DOMAIN signals)
  <2>1. IsFiniteSet(1..last)
    BY <1>1, FS_Interval
  <2>2. QED
    BY <1>3, <2>1, FS_Subset
<1>5. IsFiniteSet({Entry(i) : i \in DOMAIN signals})
  <2> DEFINE f == [i \in DOMAIN signals |-> Entry(i)]
             T == {Entry(i) : i \in DOMAIN signals}
  <2>1. DOMAIN f = DOMAIN signals /\ T = {f[i] : i \in DOMAIN signals}
    OBVIOUS
  <2> HIDE DEF f, T
  <2>2. IsFiniteSet(T)
    BY <1>4, <2>1, FiniteImage
  <2>3. QED
    BY <2>2 DEF T
<1>6. \A i, j \in DOMAIN signals : i # j => Entry(i).name # Entry(j).name
  BY <1>2, <1>3 DEF DistinctNames
<1>7. ASSUME NEW i \in DOMAIN signals, NEW j \in DOMAIN signals, i < j
      PROVE  <<Entry(i).path, Entry(i).channel>> # <<Entry(j).path, Entry(j).channel>>
  <2>1. j \in (i + 1)..last
    BY <1>1, <1>3, <1>7
  <2>2. ~(Entry(j).path = Entry(i).path /\ Entry(j).channel = Entry(i).channel)
    BY <1>3, <2>1 DEF Dropped
  <2>3. QED
    BY <2>2
<1>8. \A i, j \in DOMAIN signals : i # j => i < j \/ j < i
  BY <1>1, <1>3
<1>9. \A i, j \in DOMAIN signals :
          i # j => <<Entry(i).path, Entry(i).channel>> # <<Entry(j).path, Entry(j).channel>>
  BY <1>7, <1>8
<1>10. QED
  BY <1>5, <1>6, <1>9

\* The sensors and the associations of the project are finitely many.
LEMMA FiniteProject ==
    ASSUME IInv, project # None
    PROVE  /\ IsFiniteSet(project.sensors)
           /\ IsFiniteSet({[signal |-> Entry(pair[1]).name, sensor |-> pair[2]] :
                           pair \in observe_associations})
<1> DEFINE sensors == Len(document.sensors)
           last == Len(document.signals)
           Saved(pair) == [signal |-> Entry(pair[1]).name, sensor |-> pair[2]]
           mappings == {Saved(pair) : pair \in observe_associations}
<1>1. last \in Nat /\ sensors \in Nat
  BY DocumentFacts DEF IInv, ShapeOK
<1>2. /\ project.sensors = {document.sensors[k] : k \in 1..sensors}
      /\ \A pair \in project.associations :
             pair = <<pair[1], pair[2]>> /\ pair[1] \in 1..last /\ pair[2] \in project.sensors
  BY DEF IInv, ProjectOK, Complete, Mapped, SensorsUpTo
<1> HIDE DEF sensors, last
<1>3. IsFiniteSet(project.sensors)
  <2> DEFINE S == 1..sensors
             T == project.sensors
             f == [k \in S |-> document.sensors[k]]
  <2>1. DOMAIN f = S /\ T = {f[k] : k \in S}
    BY <1>2
  <2>2. IsFiniteSet(S)
    BY <1>1, FS_Interval
  <2> HIDE DEF S, T, f
  <2>3. IsFiniteSet(T)
    BY ONLY <2>1, <2>2, FiniteImage
  <2>4. QED
    BY <2>3 DEF T
<1>4. IsFiniteSet(observe_associations)
  <2> DEFINE all == (1..last) \X project.sensors
  <2>1. IsFiniteSet(all)
    <3> DEFINE S == 1..last
    <3>1. IsFiniteSet(S)
      BY <1>1, FS_Interval
    <3> HIDE DEF S
    <3>2. IsFiniteSet(S \X project.sensors)
      BY ONLY <1>3, <3>1, FS_Product
    <3>3. QED
      BY <3>2 DEF S
  <2>2. observe_associations \subseteq all
    BY <1>2 DEF observe_associations
  <2> HIDE DEF all
  <2>3. QED
    BY <2>1, <2>2, FS_Subset
<1>5. IsFiniteSet(mappings)
  <2> DEFINE f == [pair \in observe_associations |-> Saved(pair)]
  <2>1. DOMAIN f = observe_associations /\ mappings = {f[pair] : pair \in observe_associations}
    OBVIOUS
  <2> HIDE DEF f, mappings
  <2>2. QED
    BY <1>4, <2>1, FiniteImage
<1>6. QED
  BY <1>3, <1>5

\* A project is saved as a file that the deserialiser accepts, whichever sound
\* files have arrived by then: what names a missing signal is left out with it.
THEOREM SavedProjectLoadsHolds == Spec => []SavedProjectLoads
<1>1. IInv => SavedProjectLoads
  <2> SUFFICES ASSUME IInv, project # None PROVE SavedProjectLoads
    BY DEF SavedProjectLoads
  <2> DEFINE T == {Entry(i) : i \in DOMAIN signals}
             M == {[signal |-> Entry(pair[1]).name, sensor |-> pair[2]] :
                   pair \in observe_associations}
             s == SetToSeqOf(T)
             e == SetToSeqOf(project.sensors)
             m == SetToSeqOf(M)
  <2>1. /\ IsFiniteSet(T) /\ IsFiniteSet(project.sensors) /\ IsFiniteSet(M)
        /\ \A i, j \in DOMAIN signals :
               i # j => /\ Entry(i).name # Entry(j).name
                        /\ <<Entry(i).path, Entry(i).channel>> # <<Entry(j).path, Entry(j).channel>>
    BY SignalsDiffer, FiniteProject
  <2>2. \A x \in T : \E i \in DOMAIN signals : x = Entry(i)
    OBVIOUS
  <2>3. \A i \in DOMAIN signals : Entry(i) \in T
    OBVIOUS
  <2>4. \A x \in M : \E p \in project.associations :
            /\ p[1] \in DOMAIN signals /\ p[2] \in project.sensors
            /\ x = [signal |-> Entry(p[1]).name, sensor |-> p[2]]
    BY DEF observe_associations
  <2>5. serialise_project = [signals |-> s, sensors |-> e, mappings |-> m]
    BY DEF serialise_project
  <2> HIDE DEF T, M
  <2>6. /\ \A k \in DOMAIN s : s[k] \in T
        /\ \A k, l \in DOMAIN s : k # l => s[k] # s[l]
        /\ \A x \in T : \E k \in DOMAIN s : s[k] = x
    BY <2>1, SetToSeqOfFacts
  <2>7. \A x \in project.sensors : \E k \in DOMAIN e : e[k] = x
    BY <2>1, SetToSeqOfFacts
  <2>8. /\ \A k \in DOMAIN m : m[k] \in M
        /\ \A k, l \in DOMAIN m : k # l => m[k] # m[l]
    BY <2>1, SetToSeqOfFacts
  <2> HIDE DEF s, e, m
  <2>9. \A k, l \in DOMAIN s :
            k # l => s[k].name # s[l].name /\ <<s[k].path, s[k].channel>> # <<s[l].path, s[l].channel>>
    BY <2>1, <2>2, <2>6
  <2>10. ASSUME NEW k \in DOMAIN m
         PROVE  /\ \E i \in DOMAIN s : s[i].name = m[k].signal
                /\ \E i \in DOMAIN e : e[i] = m[k].sensor
                /\ \A l \in DOMAIN m :
                       k # l => m[k].signal # m[l].signal /\ m[k].sensor # m[l].sensor
    <3>1. PICK p \in project.associations :
              /\ p[1] \in DOMAIN signals /\ p[2] \in project.sensors
              /\ m[k] = [signal |-> Entry(p[1]).name, sensor |-> p[2]]
      BY <2>4, <2>8
    <3>2. \E i \in DOMAIN s : s[i].name = m[k].signal
      BY <2>3, <2>6, <3>1
    <3>3. \E i \in DOMAIN e : e[i] = m[k].sensor
      BY <2>7, <3>1
    <3>4. ASSUME NEW l \in DOMAIN m, k # l
          PROVE  m[k].signal # m[l].signal /\ m[k].sensor # m[l].sensor
      <4>1. PICK q \in project.associations :
                /\ q[1] \in DOMAIN signals /\ q[2] \in project.sensors
                /\ m[l] = [signal |-> Entry(q[1]).name, sensor |-> q[2]]
        BY <2>4, <2>8
      <4>2. m[k] # m[l]
        BY <2>8, <3>4
      <4>3. p[1] = q[1] <=> p[2] = q[2]
        BY DEF IInv, ProjectOK, Complete, Mapped
      <4>4. p[1] # q[1] /\ p[2] # q[2]
        BY <3>1, <4>1, <4>2, <4>3
      <4>5. Entry(p[1]).name # Entry(q[1]).name
        BY <2>1, <3>1, <4>1, <4>4
      <4>6. QED
        BY <3>1, <4>1, <4>4, <4>5
    <3>5. QED
      BY <3>2, <3>3, <3>4
  <2>11. /\ serialise_project.signals = s /\ serialise_project.sensors = e
         /\ serialise_project.mappings = m
    BY <2>5
  <2>12. /\ Promise!Distinct([k \in DOMAIN s |-> s[k].name])
         /\ Promise!Distinct([k \in DOMAIN s |-> <<s[k].path, s[k].channel>>])
    BY <2>9 DEF Promise!Distinct
  <2> HIDE DEF serialise_project
  <2>13. QED
    BY <2>10, <2>11, <2>12 DEF SavedProjectLoads
<1>2. QED
  BY <1>1, Invariance, PTL

------------------------------------------------------------------------------
(* No sound file is lost on its way *)

HasBeenRead == parse # "failed" /\ ~(parse \in {"document", "signals"} /\ next <= Len(document.signals))

Underway(path) == slots[path] # <<>> \/ \E t \in 1..Len(tasks) : tasks[t].path = path

Answered(path) ==
    \/ files[path] = "bad"
    \/ \E r \in 1..Len(results) : IsResult(r, "signals") /\ DOMAIN results[r].signals = Whole(path)
    \/ Whole(path) \subseteq DOMAIN signals

FilesOK ==
    HasBeenRead => \A path \in Paths : Whole(path) # {} => Underway(path) \/ Answered(path)

\* Signals that are received before the project would be thrown away.
ProjectFirst ==
    parse = "done" /\ project = None =>
        \E r \in 1..Len(results) :
            /\ IsResult(r, "project")
            /\ \A q \in 1..Len(results) : IsResult(q, "signals") => r < q

NoSlotLeft ==
    native /\ parse \in {"sensors", "mappings", "done"} => \A path \in Paths : slots[path] = <<>>

LostInv == FilesOK /\ ProjectFirst /\ NoSlotLeft

\* Once the signals of a document have been read, every sound file of it is
\* waiting to be uploaded, which does not happen on the desktop, or it has a
\* task, or an error was raised for it, or its signals are in the queue of
\* results or in the project.
NoFileIsLost ==
    parse = "done" =>
        \A path \in Paths :
            Promise!On(path) # {} =>
                \/ ~native /\ slots[path] # <<>>
                \/ \E t \in 1..Len(tasks) : tasks[t].path = path
                \/ files[path] = "bad"
                \/ \E r \in 1..Len(results) :
                       /\ IsResult(r, "signals")
                       /\ DOMAIN results[r].signals = Promise!On(path)
                \/ Promise!On(path) \subseteq DOMAIN signals

LEMMA InitLost == Init => LostInv
<1> SUFFICES ASSUME Init PROVE LostInv
  OBVIOUS
<1>1. document \in Documents /\ parse = "document" /\ next = 1
  BY DEF Init
<1>2. HasBeenRead => Len(document.signals) = 0
  BY <1>1, DocumentFacts DEF HasBeenRead
<1>3. Len(document.signals) = 0 => \A path : Whole(path) = {}
  BY DEF Whole, Kept
<1>4. QED
  BY <1>1, <1>2, <1>3 DEF LostInv, FilesOK, ProjectFirst, NoSlotLeft

\* A file that has been answered stays so when nothing is received.
LEMMA AnsweredKeeps ==
    ASSUME IInv, document' = document, UNCHANGED signals, NEW path \in Paths,
           files[path] = "bad" => files'[path] = "bad",
           results' = results \/ \E x : results' = Append(results, x),
           Answered(path)
    PROVE  Answered(path)'
<1>1. \A r \in 1..Len(results) : r \in 1..Len(results') /\ results'[r] = results[r]
  BY AppendResult DEF IInv
<1>2. Whole(path)' = Whole(path)
  BY SameDocument
<1>3. QED
  BY <1>1, <1>2 DEF Answered, IsResult

\* A step that neither reads nor receives.
LEMMA FilesKeep ==
    ASSUME FilesOK, document' = document, HasBeenRead' => HasBeenRead,
           \A path \in Paths : Underway(path) => Underway(path)' \/ Answered(path)',
           \A path \in Paths : Answered(path) => Answered(path)'
    PROVE  FilesOK'
<1>1. \A path : Whole(path)' = Whole(path)
  BY SameDocument
<1>2. QED
  BY <1>1 DEF FilesOK

LEMMA SameFiles ==
    ASSUME IInv, FilesOK, HasBeenRead' => HasBeenRead,
           UNCHANGED <<document, slots, tasks, files, signals>>,
           results' = results \/ \E x : results' = Append(results, x)
    PROVE  FilesOK'
<1>1. \A path \in Paths : Answered(path) => Answered(path)'
  BY AnsweredKeeps
<1>2. \A path \in Paths : Underway(path) => Underway(path)'
  BY DEF Underway
<1>3. QED
  BY <1>1, <1>2, FilesKeep

LEMMA FirstKeeps ==
    ASSUME IInv, ProjectFirst, UNCHANGED <<parse, project>>,
           results' = results \/ \E x : results' = Append(results, x)
    PROVE  ProjectFirst'
<1>1. project' = None' <=> project = None
  BY DEF None
<1>2. CASE results' = results
  BY <1>1, <1>2 DEF ProjectFirst, IsResult
<1>3. ASSUME NEW x, results' = Append(results, x)
      PROVE  ProjectFirst'
  <2>1. /\ Len(results) \in Nat /\ Len(results') = Len(results) + 1
        /\ \A r \in 1..Len(results) : results'[r] = results[r]
    BY <1>3, AppendResult DEF IInv
  <2>2. ASSUME NEW r \in 1..Len(results), IsResult(r, "project"),
               \A q \in 1..Len(results) : IsResult(q, "signals") => r < q
        PROVE  /\ r \in 1..Len(results') /\ IsResult(r, "project")'
               /\ \A q \in 1..Len(results') : IsResult(q, "signals")' => r < q
    <3>1. \A q \in 1..Len(results') :
              q \in 1..Len(results) \/ q = Len(results) + 1
      BY <2>1
    <3>2. r < Len(results) + 1 /\ r \in 1..Len(results')
      BY <2>1
    <3>3. QED
      BY <2>1, <2>2, <3>1, <3>2 DEF IsResult
  <2>3. QED
    BY <1>1, <2>2 DEF ProjectFirst
<1>4. QED
  BY <1>2, <1>3

\* Reading ends in failure.
LEMMA FailLost ==
    ASSUME parse' = "failed" PROVE LostInv'
  BY DEF LostInv, FilesOK, HasBeenRead, ProjectFirst, NoSlotLeft

\* After the last signal every file of the document has its slot.
LEMMA LastSlots ==
    ASSUME IInv, parse = "signals", next <= Len(document.signals),
           UNCHANGED <<document, parse>>, next' = next + 1,
           \A path \in Paths : IsVectorOf(slots'[path], path, next)
    PROVE  LostInv'
<1>1. next \in Nat \ {0} /\ Len(document.signals) \in Nat
  BY DocumentFacts DEF IInv, ShapeOK
<1>2. HasBeenRead' => next = Len(document.signals)
  BY <1>1 DEF HasBeenRead
<1>3. ASSUME NEW path \in Paths, next = Len(document.signals), Whole(path) # {}
      PROVE  slots'[path] # <<>>
  BY <1>1, <1>3 DEF IsVectorOf, Whole
<1>4. FilesOK'
  BY <1>2, <1>3, SameDocument DEF FilesOK, Underway
<1>5. QED
  BY <1>4 DEF LostInv, ProjectFirst, NoSlotLeft

\* The tasks before the last one keep their places.
LEMMA SubmitLost ==
    ASSUME IInv, LostInv, NEW path \in Paths, Submit(path),
           UNCHANGED <<native, document, parse, next, results, main, files>>
    PROVE  LostInv'
<1> DEFINE x == [path |-> path, factories |-> slots[path]]
<1>1. tasks' = Append(tasks, x) /\ x.path = path /\ slots' = [slots EXCEPT ![path] = <<>>]
  BY DEF Submit
<1> HIDE DEF x
<1>2. /\ Len(tasks) \in Nat /\ Len(tasks') = Len(tasks) + 1
      /\ \A t \in 1..Len(tasks) : tasks'[t] = tasks[t]
      /\ tasks'[Len(tasks) + 1] = x
  BY <1>1, AppendFacts DEF IInv, ShapeOK
<1>3. \A p \in Paths : slots'[p] = IF p = path THEN <<>> ELSE slots[p]
  BY <1>1 DEF IInv, ShapeOK
<1>4. ASSUME NEW p \in Paths, Underway(p)
      PROVE  Underway(p)'
  <2>1. CASE p = path
    <3>1. Len(tasks) + 1 \in 1..Len(tasks') /\ tasks'[Len(tasks) + 1].path = p
      BY <1>1, <1>2, <2>1
    <3>2. QED
      BY <3>1 DEF Underway
  <2>2. CASE p # path
    <3>1. \A t \in 1..Len(tasks) : t \in 1..Len(tasks') /\ tasks'[t].path = tasks[t].path
      BY <1>2
    <3>2. QED
      BY <1>3, <1>4, <2>2, <3>1 DEF Underway
  <2>3. QED
    BY <2>1, <2>2
<1>5. \A p \in Paths : Answered(p) => Answered(p)'
  BY AnsweredKeeps DEF main
<1>6. FilesOK'
  BY <1>4, <1>5, FilesKeep DEF LostInv, HasBeenRead
<1>7. ProjectFirst'
  BY FirstKeeps DEF LostInv, main
<1>8. NoSlotLeft'
  BY <1>3 DEF LostInv, NoSlotLeft
<1>9. QED
  BY <1>6, <1>7, <1>8 DEF LostInv

LEMMA FinishProjectLost ==
    ASSUME IInv, LostInv, FinishProject
    PROVE  LostInv'
<1> DEFINE x == [kind |-> "project", project |-> [built EXCEPT !.exists = TRUE]]
<1>1. /\ results' = Append(results, x) /\ x.kind = "project"
      /\ parse = "mappings" /\ parse' = "done"
      /\ UNCHANGED <<native, document, slots, tasks, files, signals, project>>
  BY DEF FinishProject, Reading, reader, main
<1> HIDE DEF x
<1>2. /\ Len(results) \in Nat /\ Len(results') = Len(results) + 1
      /\ \A r \in 1..Len(results) : results'[r] = results[r]
      /\ results'[Len(results) + 1] = x
  BY <1>1, AppendResult DEF IInv
<1>3. \A r \in 1..Len(results) : ~IsResult(r, "signals")
  BY <1>1 DEF IInv, WaveOK, ArrivedOK, Arrived
<1>4. ProjectFirst'
  <2>1. PICK last : last = Len(results) + 1
    OBVIOUS
  <2>2. last \in 1..Len(results') /\ IsResult(last, "project")'
    BY <1>1, <1>2, <2>1 DEF IsResult
  <2>3. \A q \in 1..Len(results') : ~IsResult(q, "signals")'
    BY <1>1, <1>2, <1>3 DEF IsResult
  <2>4. QED
    BY <2>2, <2>3 DEF ProjectFirst
<1>5. HasBeenRead' => HasBeenRead
  BY <1>1 DEF HasBeenRead
<1>6. FilesOK'
  BY <1>1, <1>5, SameFiles DEF LostInv
<1>7. NoSlotLeft'
  BY <1>1 DEF LostInv, NoSlotLeft
<1>8. QED
  BY <1>4, <1>6, <1>7 DEF LostInv

\* The parser goes on from the signals to the sensors and the mappings.
LEMMA ReadOnLost ==
    ASSUME IInv, LostInv, HasBeenRead, parse # "done", parse' # "done",
           UNCHANGED <<native, document, slots, tasks, files, signals, results>>,
           native /\ parse' \in {"sensors", "mappings"} =>
               \/ parse \in {"sensors", "mappings"}
               \/ \A path \in Paths : slots[path] = <<>>
    PROVE  LostInv'
<1>1. FilesOK'
  BY SameFiles DEF LostInv
<1>2. QED
  BY <1>1 DEF LostInv, ProjectFirst, NoSlotLeft

LEMMA DeserialiseLost ==
    ASSUME IInv, LostInv, Deserialise
    PROVE  LostInv'
<1>0. next \in Nat \ {0} /\ Len(document.signals) \in Nat
  BY DocumentFacts DEF IInv, ShapeOK
<1>1. CASE FailToParse \/ RefuseSignal
  BY <1>1, FailLost DEF FailToParse, RefuseSignal, Fail
<1>2. CASE get_metadata
  <2>1. next' = 1 /\ parse' = "signals" /\ document' = document
    BY <1>2 DEF get_metadata, GoOn, Reading
  <2>2. HasBeenRead' => Len(document.signals) = 0
    BY <1>0, <2>1 DEF HasBeenRead
  <2>3. Len(document.signals) = 0 => \A path : Whole(path)' = {}
    BY <2>1, SameDocument DEF Whole, Kept
  <2>4. QED
    BY <2>1, <2>2, <2>3 DEF LostInv, FilesOK, ProjectFirst, NoSlotLeft
<1>3. CASE OutOfBounds
  <2>1. /\ parse = "signals"
        /\ UNCHANGED <<document, parse, next, slots, tasks, results, files, signals>>
    BY <1>3 DEF OutOfBounds, Reading, Abort, reader, main
  <2>2. HasBeenRead' => HasBeenRead
    BY <2>1 DEF HasBeenRead
  <2>3. FilesOK'
    BY <2>1, <2>2, SameFiles DEF LostInv
  <2>4. QED
    BY <2>1, <2>3 DEF LostInv, ProjectFirst, NoSlotLeft
<1>4. CASE SkipEmbedded
  <2>1. \A path \in Paths : IsVectorOf(slots'[path], path, next)
    BY <1>4, SkipEmbeddedStep
  <2>2. QED
    BY <1>4, <2>1, LastSlots DEF SkipEmbedded, Reading
<1>5. CASE PlaceSignal
  <2>1. \A path \in Paths : IsVectorOf(slots'[path], path, next)
    BY <1>5, PlaceSignalStep
  <2>2. QED
    BY <1>5, <2>1, LastSlots DEF PlaceSignal, Reading
<1>6. ASSUME NEW path \in Paths, SubmitLoadSignalFile(path)
      PROVE  LostInv'
  BY <1>6, SubmitLost DEF SubmitLoadSignalFile, Reading, reader
<1>7. CASE SignalsDone
  <2>1. HasBeenRead
    BY <1>0, <1>7 DEF SignalsDone, Reading, HasBeenRead
  <2>2. QED
    BY <1>7, <2>1, ReadOnLost DEF SignalsDone, Reading, GoOn, reader, main
<1>8. CASE get_sensor \/ SensorsDone
  <2>1. HasBeenRead /\ parse = "sensors"
    BY <1>8 DEF get_sensor, SensorsDone, Reading, HasBeenRead
  <2>2. CASE parse' = "failed"
    BY <2>2, FailLost
  <2>3. CASE parse' # "failed"
    BY <1>8, <2>1, <2>3, ReadOnLost
       DEF get_sensor, SensorsDone, Reading, GoOn, Fail, reader, main
  <2>4. QED
    BY <2>2, <2>3
<1>9. CASE get_mapping
  <2>1. HasBeenRead /\ parse = "mappings"
    BY <1>9 DEF get_mapping, Reading, HasBeenRead
  <2>2. CASE parse' = "failed"
    BY <2>2, FailLost
  <2>3. CASE parse' # "failed"
    BY <1>9, <2>1, <2>3, ReadOnLost DEF get_mapping, Reading, Fail, reader, main
  <2>4. QED
    BY <2>2, <2>3
<1>10. QED
  BY <1>1, <1>2, <1>3, <1>4, <1>5, <1>6, <1>7, <1>8, <1>9, FinishProjectLost DEF Deserialise

\* The first task has been answered by x.
LEMMA AnswerLost ==
    ASSUME IInv, LostInv, Loading, tasks' = Tail(tasks), NEW x, results' = Append(results, x),
           NEW own, own = Task.path,
           \A path \in Paths : path # own => files'[path] = files[path],
           files[own] # "bad", Answered(own)'
    PROVE  LostInv'
<1>1. UNCHANGED <<native, document, parse, next, slots, signals, project>>
  BY DEF Loading, parser, main
<1>2. /\ Len(tasks) \in Nat \ {0} /\ Len(tasks') = Len(tasks) - 1 /\ Task = tasks[1]
      /\ \A t \in 1..Len(tasks') : tasks'[t] = tasks[t + 1]
  BY TailFacts DEF Loading, IInv, ShapeOK, Task
<1>3. ASSUME NEW path \in Paths, Underway(path), path # own
      PROVE  Underway(path)'
  <2>1. ASSUME NEW t \in 1..Len(tasks), tasks[t].path = path
        PROVE  \E u \in 1..Len(tasks') : tasks'[u].path = path
    <3>1. t - 1 \in 1..Len(tasks') /\ (t - 1) + 1 = t
      BY <1>2, <1>3, <2>1
    <3>2. tasks'[t - 1].path = path
      BY <1>2, <2>1, <3>1
    <3>3. QED
      BY <3>1, <3>2
  <2>2. QED
    BY <1>1, <1>3, <2>1 DEF Underway
<1>4. ASSUME NEW path \in Paths, Answered(path)
      PROVE  Answered(path)'
  <2>1. files[path] = "bad" => files'[path] = "bad"
    OBVIOUS
  <2>2. QED
    BY <1>1, <1>4, <2>1, AnsweredKeeps
<1>5. HasBeenRead' => HasBeenRead
  BY <1>1 DEF HasBeenRead
<1>6. FilesOK'
  BY <1>1, <1>3, <1>4, <1>5, FilesKeep DEF LostInv
<1>7. ProjectFirst'
  BY <1>1, FirstKeeps DEF LostInv
<1>8. NoSlotLeft'
  BY <1>1 DEF LostInv, NoSlotLeft
<1>9. QED
  BY <1>6, <1>7, <1>8 DEF LostInv

LEMMA FileFailsLost ==
    ASSUME IInv, LostInv, Loading, FileFails
    PROVE  LostInv'
<1> DEFINE x == [kind |-> "error"]
<1>1. PICK own : own = Task.path
  OBVIOUS
<1>2. own \in Paths /\ files[own] = "unread" /\ files'[own] = "bad"
  BY <1>1, AnswerFacts DEF FileFails
<1>3. files' = [files EXCEPT ![own] = "bad"] /\ files \in [Paths -> {"unread", "bad", "good"}]
  BY <1>1 DEF FileFails, IInv, ShapeOK
<1>4. tasks' = Tail(tasks) /\ results' = Append(results, x)
  BY DEF FileFails
<1>5. \A path \in Paths : path # own => files'[path] = files[path]
  BY <1>3
<1>6. Answered(own)'
  BY <1>2 DEF Answered
<1> HIDE DEF x
<1>7. QED
  BY <1>1, <1>2, <1>4, <1>5, <1>6, AnswerLost

LEMMA TakeSignalsLost ==
    ASSUME IInv, LostInv, TakeSignals
    PROVE  LostInv'
<1> DEFINE new == [i \in Owned(Task.factories) |-> samples[i]]
           x == [kind |-> "signals", signals |-> new]
<1>1. PICK own : own = Task.path
  OBVIOUS
<1>2. /\ Loading /\ tasks' = Tail(tasks) /\ results' = Append(results, x)
      /\ wave # NoWave /\ document' = document
      /\ files' = [files EXCEPT ![own] = "good"]
  BY <1>1 DEF TakeSignals, Loading, parser
<1>3. own \in Paths /\ files[own] = "unread"
  BY <1>1, AnswerFacts DEF TakeSignals
<1>4. IsVectorOf(Task.factories, own, Len(document.signals))
  BY <1>1, <1>2, ReadingFacts DEF IInv, TasksOK
<1>5. document \in Documents /\ Len(document.signals) \in Nat
  BY DocumentFacts DEF IInv, ShapeOK
<1>6. DOMAIN new = Whole(own)
  BY <1>4, <1>5, OwnedFacts DEF IsVectorOf, Whole
<1>7. x.kind = "signals" /\ x.signals = new
  OBVIOUS
<1> HIDE DEF x
<1>8. /\ Len(results) \in Nat /\ Len(results') = Len(results) + 1
      /\ results'[Len(results) + 1] = x
  BY <1>2, AppendResult DEF IInv
<1>9. Answered(own)'
  <2>1. PICK last : last = Len(results) + 1
    OBVIOUS
  <2>2. last \in 1..Len(results') /\ results'[last] = x
    BY <1>8, <2>1
  <2>3. IsResult(last, "signals")' /\ DOMAIN results'[last].signals = Whole(own)
    BY <1>6, <1>7, <2>2 DEF IsResult
  <2>4. Whole(own)' = Whole(own)
    BY <1>2, SameDocument
  <2>5. QED
    BY <2>2, <2>3, <2>4 DEF Answered
<1>10. \A path \in Paths : path # own => files'[path] = files[path]
  BY <1>2, <1>3 DEF IInv, ShapeOK
<1>11. QED
  BY <1>1, <1>2, <1>3, <1>9, <1>10, AnswerLost

LEMMA LoadLost ==
    ASSUME IInv, LostInv, Load
    PROVE  LostInv'
<1>1. CASE CannotOpen \/ ReadTooShort
  BY <1>1, FileFailsLost DEF CannotOpen, ReadTooShort
<1>2. CASE TakeSignals
  BY <1>2, TakeSignalsLost
<1>3. ASSUME UNCHANGED <<native, document, parse, next, slots, tasks, files, results, main>>
      PROVE  LostInv'
  <2>1. FilesOK'
    BY <1>3, SameFiles DEF LostInv, HasBeenRead, main
  <2>2. ProjectFirst'
    BY <1>3, FirstKeeps DEF LostInv, main
  <2>3. NoSlotLeft'
    BY <1>3 DEF LostInv, NoSlotLeft
  <2>4. QED
    BY <2>1, <2>2, <2>3 DEF LostInv
<1>4. CASE ReadChunk
  BY <1>3, <1>4 DEF ReadChunk, Loading, parser
<1>5. ASSUME NEW channels \in 1..MaxChannels, TooFewChannels(channels)
      PROVE  LostInv'
  BY <1>3, <1>5 DEF TooFewChannels, Loading, parser
<1>6. ASSUME NEW channels \in 1..MaxChannels, NEW frames \in FrameCounts, OpenFile(channels, frames)
      PROVE  LostInv'
  BY <1>3, <1>6 DEF OpenFile, Loading, parser
<1>7. QED
  BY <1>1, <1>2, <1>4, <1>5, <1>6 DEF Load

\* Signals that are received go into the project, which came before them.
LEMMA ReceiveLost ==
    ASSUME IInv, LostInv, Main
    PROVE  LostInv'
<1>1. PICK kind : Receive(kind) /\ tasks' = tasks
  BY DEF Main, ReceiveProject, ReceiveNull, ReceiveError, ReceiveSignals
<1>2. /\ document' = document /\ parse' = parse /\ files' = files /\ slots' = slots
      /\ native' = native /\ next' = next
      /\ Head(results) = results[1] /\ IsResult(1, kind)
      /\ \A r \in 1..Len(results') : results'[r] = results[r + 1]
      /\ Len(results) \in Nat \ {0} /\ Len(results') = Len(results) - 1
  <2>1. results' = Tail(results) /\ results # <<>>
    BY <1>1 DEF Receive
  <2>2. Len(results) \in Nat \ {0} /\ Len(results') = Len(results) - 1
    BY <2>1, TailFacts DEF IInv, ShapeOK
  <2>3. QED
    BY <1>1, <2>2, ReceiveFacts DEF Receive, parser
<1>3. ASSUME NEW r \in 1..Len(results), r # 1, NEW k
      PROVE  /\ r - 1 \in 1..Len(results') /\ results'[r - 1] = results[r]
             /\ IsResult(r, k) => r - 1 \in 1..Len(results') /\ results'[r - 1].kind = k
  <2>1. r - 1 \in 1..Len(results') /\ (r - 1) + 1 = r
    BY <1>2, <1>3
  <2>2. QED
    BY <1>2, <2>1 DEF IsResult
<1>4. ASSUME NEW r \in 1..Len(results'), NEW k
      PROVE  IsResult(r, k)' <=> IsResult(r + 1, k)
  BY <1>2, <1>4 DEF IsResult
<1>5. DOMAIN signals \subseteq DOMAIN signals'
  BY DEF Main, ReceiveProject, ReceiveNull, ReceiveError, ReceiveSignals, main
<1>6. HasBeenRead /\ kind = "signals" => DOMAIN results[1].signals \subseteq DOMAIN signals'
  <2> SUFFICES ASSUME HasBeenRead, kind = "signals"
               PROVE  DOMAIN results[1].signals \subseteq DOMAIN signals'
    OBVIOUS
  <2>1. ReceiveSignals
    BY <1>1 DEF Main, Receive, ReceiveProject, ReceiveNull, ReceiveError
  <2>2. parse = "done"
    <3>1. PICK path \in Paths : files[path] = "good"
      BY <1>2 DEF IInv, ArrivedOK, Arrived, IsResult
    <3>2. QED
      BY <3>1 DEF IInv, WaveOK, HasBeenRead
  <2>3. project # None
    <3>1. ASSUME project = None
          PROVE  FALSE
      <4>1. PICK r \in 1..Len(results) : \A q \in 1..Len(results) : IsResult(q, "signals") => r < q
        BY <2>2, <3>1 DEF LostInv, ProjectFirst
      <4>2. QED
        BY <1>2, <4>1 DEF IsResult
    <3>2. QED
      BY <3>1
  <2>4. QED
    BY <1>2, <2>1, <2>3 DEF ReceiveSignals
<1>7. ASSUME HasBeenRead, NEW path \in Paths, Answered(path)
      PROVE  Answered(path)'
  <2>1. Whole(path)' = Whole(path)
    BY <1>2, SameDocument
  <2>2. CASE files[path] = "bad" \/ Whole(path) \subseteq DOMAIN signals
    BY <1>2, <1>5, <2>1, <2>2 DEF Answered
  <2>3. ASSUME NEW r \in 1..Len(results), IsResult(r, "signals"),
               DOMAIN results[r].signals = Whole(path)
        PROVE  Answered(path)'
    <3>1. CASE r = 1
      <4>1. kind = "signals"
        BY <1>2, <2>3, <3>1 DEF IsResult
      <4>2. QED
        BY <1>6, <1>7, <2>1, <2>3, <3>1, <4>1 DEF Answered
    <3>2. CASE r # 1
      <4>1. PICK s : s = r - 1
        OBVIOUS
      <4>2. /\ s \in 1..Len(results') /\ results'[s].kind = "signals"
            /\ DOMAIN results'[s].signals = Whole(path)
        BY <1>3, <2>3, <3>2, <4>1
      <4>3. QED
        BY <2>1, <4>2 DEF Answered, IsResult
    <3>3. QED
      BY <3>1, <3>2
  <2>4. QED
    BY <1>7, <2>2, <2>3 DEF Answered
<1>8. FilesOK'
  <2>1. \A path : Whole(path)' = Whole(path)
    BY <1>2, SameDocument
  <2>2. HasBeenRead' <=> HasBeenRead
    BY <1>2 DEF HasBeenRead
  <2>3. \A path \in Paths : Underway(path)' <=> Underway(path)
    BY <1>1, <1>2 DEF Underway
  <2>4. QED
    BY <1>7, <2>1, <2>2, <2>3 DEF LostInv, FilesOK
<1>9. ProjectFirst'
  <2>1. SUFFICES ASSUME parse = "done", project' = None
                 PROVE  \E r \in 1..Len(results') :
                            /\ IsResult(r, "project")'
                            /\ \A q \in 1..Len(results') : IsResult(q, "signals")' => r < q
    BY <1>2 DEF ProjectFirst, None
  <2>2. kind # "project"
    <3>1. kind = "project" => ReceiveProject
      BY <1>1 DEF Main, Receive, ReceiveNull, ReceiveError, ReceiveSignals
    <3>2. kind = "project" => project' = results[1].project /\ Complete(results[1].project)
      BY <1>2, <3>1 DEF ReceiveProject, IInv, ProjectOK, IsResult
    <3>3. ~Complete(None)
      BY DEF Complete, None
    <3>4. QED
      BY <2>1, <3>2, <3>3
  <2>3. project = None
    BY <2>1, <2>2, <1>1 DEF Main, Receive, ReceiveProject, ReceiveNull, ReceiveError,
           ReceiveSignals, main, None
  <2>4. PICK r \in 1..Len(results) :
            /\ IsResult(r, "project")
            /\ \A q \in 1..Len(results) : IsResult(q, "signals") => r < q
    BY <2>1, <2>3 DEF LostInv, ProjectFirst
  <2>5. r # 1
    BY <1>2, <2>2, <2>4 DEF IsResult
  <2>6. r - 1 \in 1..Len(results') /\ results'[r - 1].kind = "project"
    BY <1>3, <2>4, <2>5
  <2>7. PICK s : s = r - 1
    OBVIOUS
  <2>8. s \in 1..Len(results') /\ IsResult(s, "project")'
    BY <2>6, <2>7 DEF IsResult
  <2>9. ASSUME NEW q \in 1..Len(results'), IsResult(q, "signals")'
        PROVE  s < q
    <3>1. q + 1 \in 1..Len(results) /\ IsResult(q + 1, "signals")
      BY <1>2, <1>4, <2>9
    <3>2. r < q + 1
      BY <2>4, <3>1
    <3>3. QED
      BY <1>2, <2>4, <2>7, <3>2
  <2>10. QED
    BY <2>8, <2>9
<1>10. NoSlotLeft'
  BY <1>2 DEF LostInv, NoSlotLeft
<1>11. QED
  BY <1>8, <1>9, <1>10 DEF LostInv

LEMMA NextLost == IInv /\ LostInv /\ [Next]_vars => LostInv'
<1> SUFFICES ASSUME IInv, LostInv, [Next]_vars PROVE LostInv'
  OBVIOUS
<1>1. CASE UNCHANGED vars
  <2>1. FilesOK'
    BY <1>1, SameFiles DEF LostInv, vars, parser, reader, main, HasBeenRead
  <2>2. ProjectFirst'
    BY <1>1, FirstKeeps DEF LostInv, vars, parser, main
  <2>3. NoSlotLeft'
    BY <1>1 DEF LostInv, NoSlotLeft, vars, parser
  <2>4. QED
    BY <2>1, <2>2, <2>3 DEF LostInv
<1>2. ASSUME NEW path \in Paths, SubmitUploaded(path)
      PROVE  LostInv'
  BY <1>2, SubmitLost DEF SubmitUploaded, reader
<1>3. QED
  BY <1>1, <1>2, DeserialiseLost, LoadLost, ReceiveLost DEF Next

\* What holds of every state of EveryFileAnswers: JSONDeserialiser, the tasks and
\* EchoMap::process_worker_results lose no sound file, in any order of tasks,
\* results and failures of other files.
THEOREM NoFileIsLostHolds == Spec => []NoFileIsLost
<1>1. Spec => []LostInv
  <2>1. Init => LostInv
    BY InitLost
  <2>2. IInv /\ LostInv /\ [Next]_vars => LostInv'
    BY NextLost
  <2>3. QED
    BY <2>1, <2>2, Invariance, PTL DEF Spec
<1>2. IInv /\ LostInv => NoFileIsLost
  <2> SUFFICES ASSUME IInv, LostInv, parse = "done", NEW path \in Paths, Promise!On(path) # {}
               PROVE  \/ ~native /\ slots[path] # <<>>
                      \/ \E t \in 1..Len(tasks) : tasks[t].path = path
                      \/ files[path] = "bad"
                      \/ \E r \in 1..Len(results) :
                             /\ IsResult(r, "signals")
                             /\ DOMAIN results[r].signals = Promise!On(path)
                      \/ Promise!On(path) \subseteq DOMAIN signals
    BY DEF NoFileIsLost
  <2>1. Promise!On(path) = Whole(path)
    BY PromiseOn DEF IInv, ShapeOK
  <2>2. HasBeenRead
    BY DEF HasBeenRead
  <2>3. Underway(path) \/ Answered(path)
    BY <2>1, <2>2 DEF LostInv, FilesOK
  <2>4. native => slots[path] = <<>>
    BY DEF LostInv, NoSlotLeft
  <2>5. native \in BOOLEAN
    BY DEF IInv, ShapeOK
  <2>6. QED
    BY <2>1, <2>3, <2>4, <2>5 DEF Underway, Answered
<1>3. QED
  BY <1>1, <1>2, Invariance, PTL

------------------------------------------------------------------------------
(* Types *)

\* What the invariant does not say of the types, or not of a document that is refused.
DataOK ==
    /\ native \in Builds
    /\ running \in BOOLEAN
    /\ slots \in [Paths -> Factories]
    /\ built \in Projects
    /\ samples \in [Entries -> Seq(Samples)]
    /\ \A r \in DOMAIN results : IsAnswer(results[r])
    /\ project \in Projects
    /\ AreSignals(signals)

LEMMA SameTypes ==
    ASSUME document' = document
    PROVE  Factories' = Factories /\ Projects' = Projects /\ Entries' = Entries
<1>1. Entries' = Entries
  BY SameDocument
<1>2. Sensors' = Sensors
  BY DEF Sensors
<1>3. QED
  BY <1>1, <1>2 DEF Factories, Projects

LEMMA SameData ==
    ASSUME document' = document
    PROVE  DataOK' <=> /\ native' \in Builds
                       /\ running' \in BOOLEAN
                       /\ slots' \in [Paths -> Factories]
                       /\ built' \in Projects
                       /\ samples' \in [Entries -> Seq(Samples)]
                       /\ \A r \in DOMAIN results' : IsAnswer(results'[r])
                       /\ project' \in Projects
                       /\ AreSignals(signals')
  BY SameTypes DEF DataOK, IsAnswer, AreSignals

LEMMA NoProjectType == None \in Projects
  BY DEF None, Projects

LEMMA InitData == Init => DataOK
<1> SUFFICES ASSUME Init PROVE DataOK
  OBVIOUS
<1>1. slots \in [Paths -> Factories]
  BY DEF Init, Factories
<1>2. samples \in [Entries -> Seq(Samples)]
  BY DEF Init
<1>3. AreSignals(signals)
  BY DEF Init, AreSignals
<1>4. QED
  BY <1>1, <1>2, <1>3, NoProjectType DEF Init, DataOK

\* One more answer, or one less.
LEMMA ResultsKeep ==
    ASSUME IInv, DataOK, document' = document,
           \/ results' = results
           \/ results # <<>> /\ results' = Tail(results)
           \/ \E x : results' = Append(results, x) /\ IsAnswer(x)
    PROVE  \A r \in DOMAIN results' : IsAnswer(results'[r])
<1> DEFINE S == {results[r] : r \in DOMAIN results}
           Good(x) == IsAnswer(x)
<1>1. results \in Seq(S) /\ DOMAIN results = 1..Len(results)
  BY DEF IInv, ShapeOK
<1>2. \A r \in DOMAIN results : Good(results[r])
  BY DEF DataOK
<1> HIDE DEF S, Good
<1>3. CASE results # <<>> /\ results' = Tail(results)
  <2>1. \A r \in DOMAIN results' : r + 1 \in DOMAIN results /\ results'[r] = results[r + 1]
    <3>1. results' \in Seq(S) /\ \A r \in 1..Len(results') :
              r + 1 \in 1..Len(results) /\ results'[r] = results[r + 1]
      BY <1>1, <1>3, TailFacts
    <3>2. DOMAIN results' = 1..Len(results')
      BY <3>1
    <3>3. QED
      BY <1>1, <3>1, <3>2
  <2>2. QED
    BY <1>2, <2>1 DEF Good
<1>4. ASSUME NEW x, results' = Append(results, x), Good(x)
      PROVE  \A r \in DOMAIN results' : Good(results'[r])
  <2>1. \A r \in DOMAIN results' : \/ r \in DOMAIN results /\ results'[r] = results[r]
                                   \/ results'[r] = x
    <3>1. results \in Seq(S)
      BY <1>1
    <3>2. /\ Append(results, x) \in Seq(S \cup {x}) /\ Len(results) \in Nat
          /\ Len(Append(results, x)) = Len(results) + 1
          /\ \A r \in 1..Len(results) : Append(results, x)[r] = results[r]
          /\ Append(results, x)[Len(results) + 1] = x
      BY <3>1, AppendFacts
    <3>3. results' = Append(results, x)
      BY <1>4
    <3>4. DOMAIN results' = 1..(Len(results) + 1)
      BY <3>2, <3>3
    <3>5. \A r \in 1..(Len(results) + 1) : r \in 1..Len(results) \/ r = Len(results) + 1
      BY <3>2
    <3>6. QED
      BY <1>1, <3>2, <3>3, <3>4, <3>5
  <2>2. QED
    BY <1>2, <1>4, <2>1
<1>5. QED
  BY <1>2, <1>3, <1>4 DEF Good

\* The factories of a file are those of the document, or null pointers.
LEMMA VectorType ==
    ASSUME document \in Documents, NEW vector, NEW path,
           IsVectorOf(vector, path, Len(document.signals))
    PROVE  vector \in Factories
<1>1. vector \in Seq(Nat)
  BY DEF IsVectorOf
<1>2. \A c \in 1..Len(vector) : vector[c] \in Entries \cup {0}
  BY DocumentFacts DEF IsVectorOf, Kept
<1>3. Len(vector) \in Nat /\ vector = [c \in 1..Len(vector) |-> vector[c]]
  BY <1>1
<1>4. vector \in [1..Len(vector) -> Entries \cup {0}]
  BY <1>2, <1>3
<1>5. QED
  BY <1>3, <1>4 DEF Factories

LEMMA DeserialiseData ==
    ASSUME IInv, DataOK, Deserialise
    PROVE  DataOK'
<1>1. document' = document /\ UNCHANGED <<native, samples, project, signals>>
      /\ document \in Documents /\ next \in Nat \ {0}
  BY DEF Deserialise, FailToParse, get_metadata, RefuseSignal, OutOfBounds, SkipEmbedded,
         PlaceSignal, SubmitLoadSignalFile, SignalsDone, get_sensor, SensorsDone, get_mapping,
         FinishProject, Reading, reader, main, IInv, ShapeOK
<1>2. ASSUME running' \in BOOLEAN, slots' \in [Paths -> Factories], built' \in Projects,
             \/ results' = results
             \/ \E x : results' = Append(results, x) /\ IsAnswer(x)
      PROVE  DataOK'
  BY <1>1, <1>2, ResultsKeep, SameData DEF DataOK
<1>3. /\ running \in BOOLEAN /\ slots \in [Paths -> Factories] /\ built \in Projects
  BY DEF DataOK
<1>4. ASSUME NEW kind \in {"null", "error"}, Fail(kind) PROVE DataOK'
  <2> DEFINE x == [kind |-> kind]
  <2>1. results' = Append(results, x) /\ IsAnswer(x)
    BY <1>4 DEF Fail, IsAnswer
  <2> HIDE DEF x
  <2>2. QED
    BY <1>2, <1>3, <1>4, <2>1 DEF Fail
<1>5. CASE FailToParse \/ RefuseSignal
  BY <1>4, <1>5 DEF FailToParse, RefuseSignal
<1>6. CASE get_metadata \/ OutOfBounds \/ SkipEmbedded \/ SignalsDone \/ SensorsDone
  BY <1>2, <1>3, <1>6
     DEF get_metadata, OutOfBounds, SkipEmbedded, SignalsDone, SensorsDone, GoOn, Abort
<1>7. CASE PlaceSignal
  <2> DEFINE path == Entry(next).path
             channel == Entry(next).channel
             vector == slots[path]
             new == WithSlot(vector, channel, next)
             size == IF channel > Len(vector) THEN channel ELSE Len(vector)
  <2>1. next \in Entries
    BY <1>1, <1>7, DocumentFacts DEF PlaceSignal
  <2>2. path \in Paths /\ channel \in Nat
    BY <1>1, <1>7, <2>1, DocumentFacts DEF PlaceSignal, NextSignal
  <2>3. vector \in Seq(Entries \cup {0}) /\ slots' = [slots EXCEPT ![path] = new]
    BY <1>3, <1>7, <2>2 DEF Factories, PlaceSignal, NextSignal
  <2> HIDE DEF path, channel, vector
  <2>4. size \in Nat /\ Len(vector) \in Nat
    BY <2>2, <2>3
  <2>5. new = [c \in 1..size |-> IF c = channel THEN next
                                 ELSE IF c <= Len(vector) THEN vector[c] ELSE 0]
    BY DEF WithSlot
  <2> HIDE DEF size, new
  <2>6. \A c \in 1..size : c <= Len(vector) => vector[c] \in Entries \cup {0}
    BY <2>3, <2>4
  <2>7. new \in [1..size -> Entries \cup {0}]
    BY <2>1, <2>5, <2>6
  <2>8. new \in Factories
    BY <2>4, <2>7 DEF Factories
  <2>9. slots' \in [Paths -> Factories]
    BY <1>3, <2>3, <2>8
  <2>10. QED
    BY <1>2, <1>3, <1>7, <2>9 DEF PlaceSignal
<1>8. ASSUME NEW path \in Paths, SubmitLoadSignalFile(path) PROVE DataOK'
  <2>1. slots' \in [Paths -> Factories]
    BY <1>3, <1>8 DEF SubmitLoadSignalFile, Submit, Factories
  <2>2. QED
    BY <1>2, <1>3, <1>8, <2>1 DEF SubmitLoadSignalFile
<1>9. CASE get_sensor
  <2>1. ASSUME next <= Len(document.sensors)
        PROVE  document.sensors[next] \in Sensors
    BY <1>1, <2>1, DocumentFacts DEF Sensors
  <2>2. CASE document.sensors[next] \in built.sensors
    BY <1>4, <1>9, <2>2 DEF get_sensor
  <2>3. CASE document.sensors[next] \notin built.sensors
    <3>1. built' = [built EXCEPT !.sensors = @ \cup {document.sensors[next]}]
      BY <1>9, <2>3 DEF get_sensor
    <3>2. built' \in Projects
      BY <1>3, <1>9, <2>1, <3>1 DEF Projects, get_sensor
    <3>3. QED
      BY <1>2, <1>3, <1>9, <2>3, <3>2 DEF get_sensor
  <2>4. QED
    BY <2>2, <2>3
<1>10. CASE get_mapping
  <2> DEFINE sensor == document.mappings[next].sensor
  <2>1. PICK i \in Finds(document.mappings[next].signal, Len(document.signals)) :
            IF MayAssociate(i, sensor)
            THEN /\ built' = [built EXCEPT !.associations = @ \cup {<<i, sensor>>}]
                 /\ UNCHANGED <<running, slots, results>>
            ELSE Fail("error")
    BY <1>10 DEF get_mapping
  <2>2. CASE ~MayAssociate(i, sensor)
    BY <1>4, <2>1, <2>2
  <2>3. CASE MayAssociate(i, sensor)
    <3>1. i \in Entries
      BY <1>1, <2>1, <2>3, DocumentFacts DEF Finds, MayAssociate
    <3>2. sensor \in Sensors
      BY <1>3, <2>3 DEF MayAssociate, Projects
    <3>3. built' \in Projects
      BY <1>3, <2>1, <2>3, <3>1, <3>2 DEF Projects
    <3>4. QED
      BY <1>2, <1>3, <2>1, <2>3, <3>3
  <2>4. QED
    BY <2>2, <2>3
<1>11. CASE FinishProject
  <2> DEFINE x == [kind |-> "project", project |-> [built EXCEPT !.exists = TRUE]]
  <2>1. results' = Append(results, x)
    BY <1>11 DEF FinishProject
  <2>2. IsAnswer(x)
    BY <1>3 DEF Projects, IsAnswer
  <2> HIDE DEF x
  <2>3. QED
    BY <1>2, <1>3, <1>11, <2>1, <2>2 DEF FinishProject
<1>12. QED
  BY <1>5, <1>6, <1>7, <1>8, <1>9, <1>10, <1>11 DEF Deserialise

LEMMA LoadData ==
    ASSUME IInv, DataOK, Load
    PROVE  DataOK'
<1>1. document' = document /\ UNCHANGED <<native, slots, built, project, signals>>
      /\ document \in Documents /\ Task \in {Head(tasks)} /\ tasks # <<>> /\ running = TRUE
  BY DEF Load, CannotOpen, ReadChunk, ReadTooShort, TakeSignals, TooFewChannels, OpenFile,
         Loading, parser, main, IInv, ShapeOK, Task, DataOK
<1>2. ASSUME running' \in BOOLEAN, samples' \in [Entries -> Seq(Samples)],
             \/ results' = results
             \/ \E x : results' = Append(results, x) /\ IsAnswer(x)
      PROVE  DataOK'
  BY <1>1, <1>2, ResultsKeep, SameData DEF DataOK
<1>3. running \in BOOLEAN /\ samples \in [Entries -> Seq(Samples)]
  BY DEF DataOK
<1>4. CASE CannotOpen \/ ReadTooShort
  <2> DEFINE x == [kind |-> "error"]
  <2>1. results' = Append(results, x) /\ IsAnswer(x)
    BY <1>4 DEF CannotOpen, ReadTooShort, FileFails, IsAnswer
  <2> HIDE DEF x
  <2>2. QED
    BY <1>2, <1>3, <1>4, <2>1 DEF CannotOpen, ReadTooShort, FileFails
<1>5. ASSUME NEW channels \in 1..MaxChannels,
             TooFewChannels(channels) \/ \E frames \in FrameCounts : OpenFile(channels, frames)
      PROVE  DataOK'
  BY <1>2, <1>3, <1>5 DEF TooFewChannels, OpenFile
<1>6. CASE TakeSignals
  <2> DEFINE new == [i \in Owned(Task.factories) |-> samples[i]]
             x == [kind |-> "signals", signals |-> new]
  <2>1. results' = Append(results, x) /\ x.kind = "signals" /\ x.signals = new
    BY <1>6 DEF TakeSignals
  <2>2. wave # NoWave
    BY <1>6 DEF TakeSignals
  <2>3. Task.factories \in Factories
    BY <1>1, <2>2, ReadingFacts, VectorType
  <2>4. Owned(Task.factories) \subseteq Entries
    BY <2>3 DEF Factories, Owned
  <2>5. AreSignals(new)
    BY <1>3, <2>4 DEF AreSignals
  <2> HIDE DEF new, x
  <2>6. IsAnswer(x)
    BY <2>1, <2>5 DEF IsAnswer
  <2>7. QED
    BY <1>2, <1>3, <1>6, <2>1, <2>6 DEF TakeSignals
<1>7. CASE ReadChunk
  <2>1. wave # NoWave /\ wave.remaining > 0 /\ UNCHANGED <<running, results>>
    BY <1>7 DEF ReadChunk, NoWave
  <2>2. /\ wave.frames \in Nat /\ wave.remaining \in 0..wave.frames /\ Task.path \in Paths
        /\ wave.frames - wave.remaining \in Nat
    BY <2>1, ReadingFacts DEF IInv, ShapeOK
  <2>3. Count \in Nat /\ Count <= wave.remaining
    BY <2>1, <2>2, ChunkAssumption DEF Count
  <2>4. ASSUME NEW i \in Entries PROVE samples'[i] \in Seq(Samples)
    <3>1. samples'[i] = IF \E c \in 1..Channels : wave.channels[c] = i
                        THEN samples[i] \o Deinterleaved(CHOOSE c \in 1..Channels : wave.channels[c] = i)
                        ELSE samples[i]
      BY <1>7 DEF ReadChunk
    <3>2. ASSUME NEW c \in 1..Channels, wave.channels[c] = i
          PROVE  Deinterleaved(c) \in Seq(Samples)
      <4> DEFINE read == wave.frames - wave.remaining
      <4>1. Deinterleaved(c) = [k \in 1..Count |-> <<Task.path, c, read + k>>]
        BY <2>1, <2>3, <3>2, DeinterleavedFacts
      <4>2. c \in Nat \ {0} /\ \A k \in 1..Count : read + k \in Nat \ {0}
        BY <2>1, <2>2, <2>3 DEF IInv, WaveOK
      <4> HIDE DEF read
      <4>3. Deinterleaved(c) \in [1..Count -> Samples]
        BY <2>2, <4>1, <4>2 DEF Samples
      <4>4. QED
        BY <2>3, <4>3
    <3>3. samples[i] \in Seq(Samples)
      BY <1>3
    <3>4. CASE \E c \in 1..Channels : wave.channels[c] = i
      <4> DEFINE c == CHOOSE c \in 1..Channels : wave.channels[c] = i
      <4>1. c \in 1..Channels /\ wave.channels[c] = i
        BY <3>4
      <4> HIDE DEF c
      <4>2. Deinterleaved(c) \in Seq(Samples)
        BY <3>2, <4>1
      <4>3. samples'[i] = samples[i] \o Deinterleaved(c)
        BY <3>1, <3>4 DEF c
      <4>4. QED
        BY <3>3, <4>2, <4>3
    <3>5. QED
      BY <3>1, <3>3, <3>4
  <2>5. DOMAIN samples' = Entries /\ samples' = [i \in Entries |-> samples'[i]]
    BY <1>7 DEF ReadChunk
  <2>6. samples' \in [Entries -> Seq(Samples)]
    BY <2>4, <2>5
  <2>7. QED
    BY <1>2, <1>3, <2>1, <2>6
<1>8. QED
  BY <1>4, <1>5, <1>6, <1>7 DEF Load

LEMMA MainData ==
    ASSUME IInv, DataOK, Main
    PROVE  DataOK'
<1>1. /\ document' = document /\ UNCHANGED <<native, slots, built, samples>>
      /\ results # <<>> /\ results' = Tail(results) /\ running' \in BOOLEAN
      /\ project' = project \/ (Head(results).kind = "project" /\ project' = Head(results).project)
  BY DEF Main, ReceiveProject, ReceiveNull, ReceiveError, ReceiveSignals, Receive, parser,
         reader, main, DataOK
<1>2. IsAnswer(Head(results))
  <2> DEFINE S == {results[r] : r \in DOMAIN results}
  <2>1. results \in Seq(S)
    BY DEF IInv, ShapeOK
  <2> HIDE DEF S
  <2>2. 1 \in DOMAIN results /\ Head(results) = results[1]
    BY <1>1, <2>1
  <2>3. QED
    BY <2>2 DEF DataOK
<1>3. project' \in Projects
  BY <1>1, <1>2 DEF DataOK, IsAnswer
<1>4. AreSignals(signals')
  <2> DEFINE new == Head(results).signals
  <2>1. CASE ReceiveSignals /\ signals' # signals
    <3>1. AreSignals(new) /\ AreSignals(signals)
      BY <1>2, <2>1 DEF ReceiveSignals, Receive, IsAnswer, DataOK
    <3>2. signals' = [i \in DOMAIN signals \cup DOMAIN new |->
                         IF i \in DOMAIN new THEN new[i] ELSE signals[i]]
      BY <2>1 DEF ReceiveSignals
    <3> HIDE DEF new
    <3>3. QED
      BY <3>1, <3>2 DEF AreSignals
  <2>2. CASE signals' = signals
    BY <2>2 DEF DataOK
  <2>3. QED
    BY <2>1, <2>2 DEF Main, ReceiveProject, ReceiveNull, ReceiveError, main
<1>5. QED
  BY <1>1, <1>3, <1>4, ResultsKeep, SameData DEF DataOK

LEMMA NextData == IInv /\ DataOK /\ [Next]_vars => DataOK'
<1> SUFFICES ASSUME IInv, DataOK, [Next]_vars PROVE DataOK'
  OBVIOUS
<1>1. ASSUME NEW path \in Paths, SubmitUploaded(path) PROVE DataOK'
  <2>1. /\ document' = document /\ results' = results
        /\ UNCHANGED <<native, running, built, samples, project, signals>>
        /\ slots' = [slots EXCEPT ![path] = <<>>]
    BY <1>1 DEF SubmitUploaded, Submit, reader, main
  <2>2. slots' \in [Paths -> Factories]
    BY <2>1 DEF DataOK, Factories
  <2>3. QED
    BY <2>1, <2>2, ResultsKeep, SameData DEF DataOK
<1>2. CASE UNCHANGED vars
  BY <1>2, ResultsKeep, SameData DEF vars, parser, reader, main, DataOK
<1>3. QED
  BY <1>1, <1>2, DeserialiseData, LoadData, MainData DEF Next

\* The parts of the invariant give the types of the rest.
LEMMA Types == IInv /\ DataOK => TypeOK
<1> SUFFICES ASSUME IInv, DataOK PROVE TypeOK
  OBVIOUS
<1>1. document \in Documents
  BY DEF IInv, ShapeOK
<1>2. tasks \in Seq([path : Paths, factories : Factories])
  <2> DEFINE T == [path : Paths, factories : Seq(Nat)]
             U == [path : Paths, factories : Factories]
  <2>1. ASSUME NEW t \in 1..Len(tasks) PROVE tasks[t] \in U
    <3>1. tasks[t] \in T
      BY TaskTypes DEF IInv
    <3>2. tasks[t].factories \in Factories
      BY <1>1, VectorType DEF IInv, TasksOK
    <3>3. QED
      BY <3>1, <3>2
  <2>2. tasks \in Seq(T)
    BY DEF IInv, ShapeOK
  <2> HIDE DEF T, U
  <2>3. Len(tasks) \in Nat /\ tasks = [t \in 1..Len(tasks) |-> tasks[t]]
    BY <2>2
  <2>4. tasks \in [1..Len(tasks) -> U]
    BY <2>1, <2>3
  <2>5. tasks \in Seq(U)
    BY <2>3, <2>4
  <2>6. QED
    BY <2>5 DEF U
<1>3. /\ wave \in [channels : Factories, frames : FrameCounts \cup {0}, remaining : Nat]
      /\ wave.remaining <= wave.frames
  <2>1. CASE wave = NoWave
    <3>1. <<>> \in Factories
      BY DEF Factories
    <3>2. QED
      BY <2>1, <3>1 DEF NoWave
  <2>2. CASE wave # NoWave
    <3>1. /\ wave = [channels |-> wave.channels, frames |-> wave.frames,
                     remaining |-> wave.remaining]
          /\ wave.channels \in Seq(Nat) /\ Channels \in Nat
          /\ \A c \in 1..Channels :
                 wave.channels[c] = IF c <= Len(Task.factories) THEN Task.factories[c] ELSE 0
      BY <2>2 DEF IInv, WaveOK
    <3>2. wave.frames \in FrameCounts /\ wave.frames \in Nat /\ wave.remaining \in 0..wave.frames
      BY <2>2, ReadingFacts
    <3>3. Task.factories \in Seq(Entries \cup {0})
      BY <1>1, <2>2, ReadingFacts, VectorType DEF Factories
    <3>4. \A c \in 1..Channels : wave.channels[c] \in Entries \cup {0}
      BY <3>1, <3>3
    <3>5. Channels = Len(wave.channels) /\ wave.channels = [c \in 1..Len(wave.channels) |-> wave.channels[c]]
      BY <3>1 DEF Channels
    <3>6. wave.channels \in [1..Channels -> Entries \cup {0}]
      BY <3>4, <3>5
    <3>7. wave.channels \in Factories
      BY <3>1, <3>6 DEF Factories
    <3>8. QED
      BY <3>1, <3>2, <3>7
  <2>3. QED
    BY <2>1, <2>2
<1>4. QED
  BY <1>1, <1>2, <1>3 DEF TypeOK, IInv, ShapeOK, DataOK

\* The types of the deserialiser, the tasks and the project (TypeOK): factories, samples,
\* answers and signals are those of entries of the document
\* and of frames of their sound files.
THEOREM TypeCorrect == Spec => []TypeOK
<1>1. Init => DataOK
  BY InitData
<1>2. IInv /\ DataOK /\ [Next]_vars => DataOK'
  BY NextData
<1>3. IInv /\ DataOK => TypeOK
  BY Types
<1>4. QED
  BY <1>1, <1>2, <1>3, Invariance, PTL DEF Spec
==============================================================================
