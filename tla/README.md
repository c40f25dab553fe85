# EchoMap: a verification development

EchoMap (`src/src/`) is a C++ application, built for the desktop and, through Emscripten, for the
browser. The user selects a project file that describes sensors and the sound files recorded by
them; a worker thread loads the files and computes what the panels show of them: downsampled
waveforms and frequency spectra. This directory holds TLA+ models of the parts in which two threads,
callbacks, late results and the user's decisions meet, and of the algorithms that load, store and
downsample signals; the TLC configurations that check them; and TLAPS proofs of their safety, for
any number of threads, tasks, projects, files, signals and samples.

Paths below are relative to `src/src/`.

## 1. Inventory

### Threads and how the parts interact

There are two threads. The **main thread** runs frames (`EchoMap::render`): it handles the
notifications that were queued, receives the results of the worker, then draws the panels and the
modal popups, in which the user acts. The **computation thread** (`Worker::execute`) takes tasks
off one `ThreadSafeQueue` and posts results on another. In the browser, callbacks of file choosers
run on the main thread between two frames.

    panels, modals --notification--> EchoMap::notify_queue --handler--> project, unloaded_project
    EchoMap, panels --ITask--> Worker::task_queue --> execute --> Worker::result_queue
    Worker --callback--> glfwPostEmptyEvent --> main thread wakes up
    EchoMap::process_worker_results --WorkerResultDespatcher--> EchoMap, panels

### Components

| Component | State | Operations | What is hard | What makes it correct |
|---|---|---|---|---|
| `ThreadSafeQueue` (`signals/ThreadSafeQueue.hpp`) | deque, mutex, condition variable, stop token | produce, try_consume, wait_consume, empty, clear | interleaving of statements, lost and spurious wake-ups, a stop between a test and a sleep | every operation is atomic and returns; no value waits while a consumer sleeps |
| `Worker` (`signals/Worker.cpp`, `tasks/ITask.cpp`) | two queues, the job in hand | submit, try_get_result, clear, execute, destruction | clear races with the job in hand; a task submits tasks; a task throws; destruction with work left | each task answered exactly once, in order, or cleared; to clients on several threads every operation is one step; the destructor ends |
| Project loading and notifications (`EchoMap.cpp`, `LoadProjectTask`, `LoadSignalFileTask`) | notification queue, active and unloaded project | one handler per notification and per result | decisions handled a frame later; Cancel and a second selection race with loads; an exception half-way through a loop | a project is never loaded twice, brought back, or completed with files missing; the modal's pointer stays valid |
| `IndividualUploadModal`, `ErrorModal` (`panels/`) | a plain pointer to the unloaded project; whether the popup is to be opened | draw, Upload, Cancel, Continue, raise, Dismiss | two popups at one level; late and repeated file chooser answers | as long as a modal exists it can be answered |
| Event loop and graphics set-up (`EchoMap`, `App.cpp`, `SurfaceFactory`) | forced frames, pending events, the size of window, viewport and surface | construction, poll, wait, render, resize, destruction | going to sleep while a result is being posted; frames that are given up; a window that is hidden or resized at any time; a constructor that fails half-way | no result waits for a user event to be received; the surface has the size of the window; a window that is closed ends the program |
| `SignalDFTPanel` | cache of spectra by (signal, window, size), selection, sizes, bounds | draw and its five interactions, handle_completed_dft, change_active_project | a spectrum arrives after the selection or the project changed; a list of sizes that grows and shrinks under an index | bounds are those of what is visible; nothing computed twice; all shown in the end |
| `SignalWaveformPanel` | cache of downsampled signals, bounding box | draw, handle_downsampled_result, change_active_project | late results of a former project | each signal asked for once, all shown, what is plotted is in bounds |
| `ResultChannel`, `WorkerResultDespatcher` | observers and one consumer per result type | connect, despatch | an exception of one recipient | every observer sees each result, the consumer exactly once |
| `Project`, `BidirectionalUnorderedMapping` | sensors, signals, the mapping between their ids | add, emplace, erase, clear | the second map refuses what the first took; pairs are requested before their signals are there | the two maps are inverse to each other after every operation; what the file maps stays mapped |
| `ChannelMappingPanel`, `SensorGeometryPanel` | a half-made mapping; cached colours | draw, select, drag, change_active_project | caches outlive the project they were taken from | no edit refers to an object of another project; sensors get the colours that are shown |
| Action controllers (`actions/`, `web/module.js`) | bound slots, open choosers | bind, unbind, select, upload | answers after unbind, or never | an answer reaches a live application |
| `Object`, `IDAllocator` | a counter | construct, copy, move | allocation on both threads | identities are unique among live objects |
| `Signal` | samples, implicit or explicit times | emplace_sample, timing queries | a sample that is rejected half-way; a time that is accepted because it was expected | one time for each sample, later than that of the one before, although times are 32-bit floats |
| `SignalFactory` | the signal that is being built | emplace, take_signal, downsample (LTTB), load_wave_file | rounding of bucket sizes; times that change their baseline; chunks that end anywhere; gaps between channels | what is kept are samples of the source at their times, as many as asked for; a signal is a whole channel |
| `FrequencySpectrumFactory` | FFTW plans | create | sizes against lengths | never reads beyond the samples |
| `JSONDeserialiser`, `JSONSerialiser` | partly built project | deserialise_project, serialise_project | tasks are submitted before the document is known to be good; duplicate names and channels; two builds | all of the project or nothing; each file's signals all or none, once; what is saved can be loaded |
| `MenuPanel`, `ProjectPanel`, `Logger`, errors | nothing that anything else depends on | drawing, logging | – | – |

The hazards of this code, each at its line and with the properties that cover it, are listed in
`PROJECT.json` under `hazards`.

## 2. Plan

Order: what everything else rests on first, then upwards. All of it is done but step 8.

1. `AtomicQueue`, `ThreadSafeQueue`, `ThreadSafeQueueProofs`.
2. `TaskService`, `Worker` (over atomic queues, justified by 1), `WorkerProofs`.
3. `EchoMap` (over `TaskService`'s contract, justified by 2): loading a project, the two modals, both
   builds; `EchoMapProofs`.
4. `EventLoop`, composing the desktop application with `Worker`, from its constructor to its
   destructor; `EventLoopProofs`.
5. `PlottedSignals`, extended by `SignalDFTPanel` and by `SignalWaveformPanel`, composed in `SignalPanels`;
   `SignalPanelsProofs`, of all of them.
6. `InjectiveRelation`, `BidirectionalUnorderedMapping`; `Project`, `ChannelMappingPanel`,
   `SensorGeometryPanel`, composed in `ProjectEdits`; `ProjectEditsProofs`, of both.
7. `Signal`, `SignalFactory`, `SignalFactoryProofs`; `ProjectLoad`, and `ProjectFiles`, which
   implements it; `ProjectFilesProofs`.
8. Left: `ResultChannel` with several recipients that throw, and `bind`/`unbind`, if the program
   comes to use either (section 6 says why it does not yet).

Modules that are proved about declare no `RECURSIVE` operator, have one action per operation and
state invariants as conjunctions of named parts.

## 3. Modules and the code they stand for

`PROJECT.json` maps every definition to its lines. Definitions whose name has the form
`Operation_Variant` and whose comment begins with "Mutant:" are variants of an operation with a
plausible bug; each is used to show that a property fails when the code has that bug. They are not
part of the specification.

**`ThreadSafeQueue`** models the queue statement by statement for any set of threads: `Call`, `Lock`,
the statements of each body, `NotifyOne`, `WaitConsumeBlock` (releases the mutex and sleeps in one
step, as the standard says of `condition_variable_any::wait`), `SpuriousWake`, `RequestStop`,
`Unlock`. `pc[t]` is where thread `t` is, `slot[t]` its argument or return value. The C++ primitives
are external. **`AtomicQueue`** is what the class comment promises ("All operations are atomic"): each
call takes effect in one step between its invocation and its return. The refinement mapping puts the
effect at the last statement that touches the deque.

**`Worker`** has `execute` in the steps at which the owner can interleave: test of the stop token,
`wait_consume`, the refusal or start of the job, its end (a result or an `ErrorResult`), posting,
callback. Clients on several threads submit, poll and clear; a clear takes two steps, as in the code,
and other clients go on in between. The owner destroys the Worker. A running
job may submit another task. **`TaskService`** is what `Worker.hpp` promises: jobs are answered exactly
once, in the order of submission, and every operation is one step; a clear withdraws all but at most
the job in execution. The Worker keeps this promise as long as nobody clears (`Uncleared`), and does not
when somebody does (section 7). Nothing in the program clears, so the program has what is promised:
`ImplementsTaskService` is a property of `EventLoop`.

**`EchoMap`** has one action per handler, and `main` says where `EchoMap::render` is: draining
notifications (newest first, as `notify_queue.back()` does), the loop of `CompleteProjectLoad` file by
file, draining results, drawing the panels, the upload modal and the error modal. The callbacks of the
browser run only between two frames, because they run on the same thread. The Worker is taken as
`TaskService`. A file is mapped to a path (a number; `copyFileToEmscriptenFS` may give two copies the
same one, because it is made of the time in milliseconds), a project is its id, its unloaded files and
its loaded ones. `native` says which build it is: on the desktop
`LoadProjectTask` itself submits one task per file while it runs; in the browser the project comes
back with `unloaded_signals`. There is no file chooser on the desktop yet
(`NativeActionController.cpp` throws), so for that build the model shows what the loading code does
once a project is selected.

**`EventLoop`** instantiates `Worker` and lets the main thread act as its owner. The constructor goes
through its phases (`create_window`, `GetFramebufferSize`, `create_surface`, `request_adapter`,
`request_device`, `ConfigureSurface`, `setup_imgui`), while the computation thread runs already and the
window may be resized; `FailConstruction` is a `ConfigurationError`, which `main` catches, and
`AbandonConstruction` what ends the program at once. Then: `PollEvents` or `WaitEvents`,
`ReceiveResult` until the queue is empty, `handle_window_resize`, `Draw` - or a frame that is given up
because the window is hidden, the surface is lost or its texture is late - and the destructor, in two steps:
`Terminate` is its body and `StopWorker` begins the destruction of the members, and between the two the
computation thread still calls back. A frame may force further ones (`DrawPanels`), because a list in a
panel is open. The callback of the Worker posts an event, and so does whatever happens to the window. Sizes are numbers;
`Hidden` is the size 0.

**`SignalDFTPanel`**: the cache maps keys to absent, pending or success. One draw is one action: list
of sizes, at most one interaction of the user (window, size, scale, reset of the viewport or of the
cache), then the preview, which asks for every visible spectrum without a slot. A bounding box is the
set of spectra it was extended by. `create_frequency_spectrum` is what the factory refuses. Panning and
zooming are left out, and so are the numbers.

**`SignalWaveformPanel`**: the same for downsampled signals. This panel stores results it did not ask
for, the other does not. Both extend **`PlottedSignals`**, the active project with the signals that it has so
far; their own names are different. A bounding box is here the set of signals it was extended by
(lines 148 to 152 extend it by their coordinates). **`SignalPanels`** puts both into the frames of one program:
they get the same project and the same signals, the results that are theirs, and are drawn together.

**`BidirectionalUnorderedMapping`** has one step per map for each operation, because what can go wrong
is between the two: `EmplaceForward`, then `EmplaceReverse` or, when the value is taken or the second
map throws, `EmplaceRollback`; likewise the two erasures and `clear`. `call` is the operation that is
half done. **`InjectiveRelation`** is what the container promises: a set of pairs without a double key
or value that each operation changes as a whole or not at all. The refinement mapping reads the pairs
off `reverse_map`.

**`Project`** is the active project as the notifications edit it: signals, sensors with colours, and an
instance of the mapping. `NewProject` brings what `JSONDeserialiser` made of a file: all of its
mappings requested, and any part of its signals, because signals arrive one by one before and after it
becomes active. `observe_associations` shows the pairs of which both sides are there. Identities are
never used twice (`IDAllocator`). `BeginAddAssociation` and `EndAddAssociation` are one handler in two
steps; no other action is enabled between them. **`ChannelMappingPanel`** and **`SensorGeometryPanel`**
extend it by one panel each, without the path on which the panel of colours catches an exception
(`SensorGeometryPanel.cpp:77-84`), which no step here can throw; **`ProjectEdits`** puts them in the order of a frame: `notifications`,
`results`, `geometry`, `channels`. A pointer to a freed signal or sensor may be read as any identity
(`ReadId`), which is undefined behaviour in the code. A colour is packed to half as many levels
(`Packed`), so that the copy of the panel and the colour of the sensor are not the same thing.

**`Signal`** has the samples of a channel and their times as the code stores them: a baseline (an offset
and a distance) and, from the first unexpected time on, the distance of every sample from it.
`EmplaceTimed` and `RejectsTime` are the three cases of `emplace_time`, with its tolerance (`Epsilon`).
Times are integers that stand for 32-bit floats: up to `Exact` from zero all of them exist, and beyond it
only the multiples of `Spacing`, to which `Round` takes what `get_time_at_index` and `emplace_time` compute
from a baseline. So the samples of a long uniform signal come to have equal times, as they do
in the code. One thing is exact here that is not always so there: the distance of a time from
the baseline, and the sum of the two. In a downsampled signal the baseline is zero and both are exact;
elsewhere they may be off by a float step. `RejectSample` leaves the amplitude behind whose time was
refused, and `DiscardFactory` is the exception that passes through every caller.
**`SignalFactory`** builds a signal sample by sample, gives it away,
downsamples it (`Bucket`, `AverageRange` and `bucket_size` are the expressions of the code; which
sample of a bucket spans the largest triangle is any of them), or saves it and loads it again. A sample
is its index in the signal that was built, so that a copy can be compared with its source.

**`ProjectFiles`** reads a project file element by element. `slots` are the factories that the
deserialiser collects by file and channel; on the desktop `SubmitLoadSignalFile` hands them to tasks before
sensors and mappings are read, in the browser they wait in the project for `SubmitUploaded`. A task opens a sound file with
any number of channels and frames and reads it in chunks; a frame is `<<path, channel, index>>`.
`FailToParse` is every way in which a document can be refused, and `Abort` a failed assertion.
`serialise_project` is what would be written of the project at any moment. **`ProjectLoad`** is what all
that promises: nothing happens, or the project appears once with its sensors and mappings, and then
files arrive one after the other, each with all of its signals or none.

`MCEchoMap`, `MCSignalDFTPanel`, `MCSignalPanels`, `MCProjectEdits`, `MCSignalFactory` and
`MCProjectFiles` define the instances. The modules whose names end in `Proofs` hold the theorems.

## 4. Runs

| Run | Bounds | Shows |
|---|---|---|
| `queue` | 3 threads, 2 values, 4 calls and spurious wake-ups | no lost wake-up, front is what is popped, atomicity (refinement), every operation returns, also after a stop |
| `worker` | 4 tasks, any number of clients | no loss, at most one late answer after a clear and after a stop, every task answered, destruction ends |
| `echomap` | both builds, 2 selections of 3 project files (0, 1, 2 sound files), 3 uploads, 1 edit; tasks may fail or return null | the modal's pointer is valid, decisions are current, each file loaded once, a cancelled project stays out, signals follow their project, a completed load does not come to nothing but by an error or because another project took its place; a completed load ends |
| `eventloop` | 3 tasks, 2 forced frames at a time and at most 4, a window of 2 sizes or hidden | no stranded result, the surface follows the window, refinement of `TaskService`; every result is received, and once its window is to be closed the program ends |
| `panels` | 2 projects of a long and a short signal, 2 windows, 1 reset | bounds of spectra are of what is visible, their cache is of the active project, the selection exists, what is plotted is in bounds; the selected spectra and the waveforms appear |
| `project_edits` | 3 project files: two with 2 signals, 2 sensors and one mapped pair, one that maps a sensor twice; 4 colours | the mapping is one-to-one, what the file maps stays mapped, sensors get the colours that are shown |
| `signals` | 7 samples, times -1 to 4, 2 baselines (0 with no distance, -1 with a distance of 2), factors 1 to 5, tolerance 1, times exact up to 8 and multiples of 4 beyond | a time for each sample, points are samples at their times, no failure without two times in disorder, sound buckets, saved signals load |
| `project_files` | all documents of up to 2 signals (2 files, channels 0 to 2, or embedded) and of 3 signals of different names, with 5 kinds of sensors and mappings; sound files of up to 2 channels and 0 or 3 frames, chunks of 2; both builds | refinement of `ProjectLoad`, whole channels, what is saved can be loaded, every file answers |
| `echomap_modal`, `eventloop_drawn`, `dft_fits`, `project_edits_stale` | smaller, or the same | the four disagreements of section 7 that have a run |

Each module that runs states its type invariant; it is a theorem (`TypeCorrect`, section 5) and so not
among the properties of the runs. The same goes for `MutualExclusion`, `NoSleepAfterStop` (on which
`OperationsReturn` rests), `AsManyAsAsked` and `NoFileIsLost`.

Why the bounds are enough. In the queue three threads give a producer, a sleeping consumer and a third
that comes between them, which is what every lost wake-up and every torn pop needs; four calls allow a
stale element as well. In the worker four tasks allow one delivered, one posted, one in hand and one
queued at the same time; clients need no number, as all of their operations but a clear are one step. In `echomap` two selections allow an active or an unloaded project next to one
that is being loaded or waits to be received, three uploads allow a file that is uploaded twice next to
another; two files are what a loop that fails half-way needs. In `eventloop` two sizes are a resize, and
three tasks a result that is received, one that is posted while frames are drawn and one in hand.
In `panels` a project with one signal and another with one of a different length make the list of sizes
shrink and grow. `MaxUnderWay` bounds how much work the DFT panel may have under way before it asks again;
with 2 there are results that were asked for under two different selections, or by two projects. A project is made
active at most once. In `project_edits` a request can meet a free pair, a taken signal, a taken sensor,
and identities of a former project, and a project can be replaced between the two halves of a mapping
and between an edit of a colour and the next draw; four colours are two that look alike and two that do
not. In `signals` seven samples allow up to five buckets, of one and of more samples, with and without a
rest at the end; the times allow equal ones, ones out of order, ones within the tolerance and ones that the
baseline expects, and a uniform signal of seven samples goes far enough from zero for neighbours to have
equal times. In
`project_files` three signals allow two of one file next to another file, a gap before a channel and a
channel beyond the last; three frames are a full chunk and a shorter one.
The counters of the models (`MaxCalls`, `MaxTasks`, `MaxSelections`, `MaxUploads`, `MaxEdits`,
`MaxResets`, `MaxUnderWay`, `MaxForced`, `MaxSamples`, `MaxChannels`) are bounds of the model and appear as guards
only; `Cycle` is a default argument of the code (4) made small, and `ChunkFrames` a constant of the
code (8192) made small. Deadlock is checked where nothing may stop: in `panels`, `project_edits`, `signals` and the runs on the same modules; elsewhere the system may stop: all calls
made, the Worker destroyed, the files read, or the user doing nothing more.

**Fairness.** Threads are scheduled by the operating system, so every thread that can take a step
eventually does: weak fairness of a thread's steps; for the panels, of receiving results, of frames and of
the computation. A client need never clear. `std::mutex` promises
no fairness, but calls are finite in number, so contention ends. Jobs are assumed to end (they are
loops over finite data); they may fail. Nothing is assumed of the user or of a file chooser: no
property depends on a button that is pressed or an event that arrives. `ResultsAreReceived` needs no user
event, and `EveryFileAnswers` that the tasks of a project are worked on. `DestructionTerminates` and
`ClosingEndsProgram` assume that a destructor that has begun goes on and that the task in hand ends, the latter also that
the frame which is under way ends.

## 5. What is proved

By TLAPS, for every value of the constants.

`ThreadSafeQueueProofs` (any finite set of threads, any values, any number of calls, from the
assumptions that `None` is no value and `Nobody` no thread). The inductive invariant is `TypeOK`, `MutualExclusion`, `FrontStaysFront` and
`CallDiscipline`. None of the first three is inductive alone: that the front stays the front while a
consumer is between `front()` and `pop_front()` needs that nobody else is in a body, and this in turn
that only the owner of the mutex moves; `CallDiscipline` says which program points go with which
operation, without which the mapping to `AtomicQueue` would not know what a step means.
- `TypeCorrect`: `TypeOK`, at every statement of every operation.
- `MutexHolds`, `FrontHolds`, `StopHolds`: the three safety properties. `StopHolds` is what makes
  `~jthread` return: the request and the sleep exclude each other whichever comes first.
- `WakeupHolds`: `NoLostWakeup`, inductive given the invariant. While a consumer sleeps, `push_back` adds
  one value and one producer that has yet to notify, `notify_one` trades that producer for an awake
  consumer, and `pop_front` takes one value and at most one awake consumer. Only this theorem needs the
  set of threads to be finite, to count them.
- `Refinement`: `Spec => AtomicQueue!Spec`. Each statement is a stutter or the one effect of its call.
  It is why `Worker` may treat queue operations as single steps.

`WorkerProofs` (any number of tasks). The inductive invariant is `TypeOK`, `JobInHand` (there is a job
exactly between `wait_consume` and the posting), `OutcomeInv`, `OrderInv` (delivered, posted, in hand
and queued tasks, in that order, have increasing numbers, and all are below `submitted`) and `LateInv`.
- `TypeCorrect`: `TypeOK`.
- `OrderHolds`: `InOrder`, from `OrderInv` and a lemma on concatenations of increasing sequences.
- `LostHolds`: `NothingLost`. `LostInv` says that the tasks of the pipeline and the discarded ones
  are together those submitted, and apart; the induction needs the order to know that nothing occurs twice.
- `ClearHolds`: `ClearLeavesAtMostOne`. `ClearInv` says that between and after the two halves of a
  clear only the job in hand or the one result can be older than the mark.
- `LateHolds`: `AtMostOneLateResult`.
- `Refinement`: as long as nobody clears, every behaviour of `Spec` is one of `TaskService!Spec`.

`EventLoopProofs` (any number of tasks, any sizes). The properties speak of the main thread asleep, but what
allows it to sleep is decided earlier in the frame, so the invariant has a part for each phase: `Woken`
(from the end of `process_worker_results` on, a posted result has an event or its callback still to
come), `Fresh` (a change of the window after its size was
read is a pending event) and `Configured` (the surface has the viewport's size from its configuration on,
and a frame is drawn only with a size).
- `NoStrandedResultHolds`, `SurfaceFollowsWindowHolds`.
- `ComposedWorker`: `Spec => Worker!Spec`. Each step of the program is a step of the Worker's owner or
  thread, or leaves the Worker alone. The theorems of `WorkerProofs` therefore hold in the program, and
- `ServiceHolds` (`ImplementsTaskService`): `Spec => TaskService!Spec`, because no step of the program is a clear.
- `TasksAreAccountedForHolds` draws the conclusion: as the main thread never calls `Worker::clear`, every
  task that was submitted is queued, in execution or answered, once and in order, whether frames are given
  up, the window is closed or the constructor fails.
- `TypeCorrect`: `TypeOK` of the program, the Worker's included, which is cited from `WorkerProofs` as well.

`EchoMapProofs` (any project files, sound files, selections, uploads and edits, both builds). The
properties speak of notifications, of the modal and of files under way; what holds them together is
that the id of a project is in one place at a time: with the loader (`LoaderOK`), in a result
(`LoadedOK`), unloaded, active, or cancelled (`PlacesOK`). `FilesOK` says whose files can be under way:
of a project that was allocated and not cancelled, never of the one in the modal unless its Continue is
being handled, and in the browser never of one that has not been received. `OrderOK` orders results;
`ModalOK` and `QueueOK` say what the queued notifications know: edits name the active project, at most
one decision is queued and it names the project of the modal, and the queue is empty whenever results
move projects around - without which a decision could find another project than the one it was made
for. `OnceOK` says that a file is in one task, one result or one project, and that the loops of the
loader and of `CompleteProjectLoad` have submitted no file that they have left to do.
- `ModalOwnsUnloadedHolds`, `DecisionsAreCurrentHolds`, `EachFileLoadedOnceHolds`,
  `CancelledStaysOutHolds`, `SignalsFollowTheirProjectHolds`.
- `CompletedLoadGoesOnHolds`: `CompletedLoadGoesOn`, an action property. `LoadingOK` says that a project
  that waits to be completed has files, and that whatever the loop of `CompleteProjectLoad` has submitted
  so far has left a trace: a task, a result or an error. A project therefore stops being loaded only
  when it becomes active, when an error is shown, or when it is no longer the unloaded project (Cancel).
- `TypeCorrect`: `TypeOK`. That an id is one of `Ids` is a matter of counting (`IdsOK`): the ids that were
  allocated, the tasks that will load a project and the notifications that will submit one are together
  no more than the selections of the user. The counts are cardinalities, with a lemma for each way
  in which a queue grows or shrinks.

`SignalPanelsProofs` (any projects with finitely many signals, any sizes and windows, no two projects
with a signal in common). For the spectra the invariant is `CacheOK` (types) with
the three properties themselves: the bounds are right after a late result only because the cache was
emptied with the project and because a key that is visible and arrives extends them.
- `BoundsAreOfVisibleHolds`, `CacheIsOfActiveProjectHolds`, `SelectionIsAvailableHolds`.
- `PendingIsUnderWayHolds`: a slot that waits has its task or its result under way, or its task failed.
  This is the safety that `SpectrumAppears` rests on; it needs that the signals are finitely many, so
  that the order in which a draw submits its tasks leaves none out.

The panel of waveforms takes a result that no slot waits for, so what is stored is in bounds only because
`WaveformIInv` says it of every signal, of the project or not.
- `PlottableIsInBoundsHolds`, and `WaveformIsUnderWayHolds`, the counterpart of the above.
- `PanelsCompose`: `PanelsSpec => Spec /\ WaveformSpec`, so that the theorems of each panel hold of the program with both.
- `TypeCorrect`, `WaveformTypeCorrect`. For the spectra the list of sizes has to end with one that fits a signal.

`SignalFactoryProofs` (any samples, times, baselines and factors, any tolerance and any rounding; from
`FloatAssumption`, that the tolerance is no larger than what is exact). Lemmas say once what an emplaced sample
does (`Extends`: one more sample, at the time it was given or the expected one that is as good (`Recorded`),
and nothing before it moved) however the
times are stored, and bound the buckets with integer division. The invariant: `Numbered` (samples are in the
order in which they were built), `SteadyOK` (a time is the expected one, or it is
not near that and later than the time before), `Kept` (before a bucket, one sample of each earlier bucket is kept,
the last is not beyond its bucket, and the baseline is still zero) and `Loaded` (what is loaded has the baseline of what was saved). `Steady` is weaker than increasing
times, which the code does not ensure, and strong enough for `SavedSignalLoads`.
- `TypeCorrect`: `TypeOK`, of the signal that is built, of the one that is kept and of the downsampled one.
- `TimesArePairedHolds`, `PointsAreSamplesHolds`, `AsManyAsAskedHolds`, `FailsOnlyOnDisorderHolds`,
  `SavedSignalLoadsHolds`, `BucketsAreSoundHolds`: all that the run `signals` checks, and `AsManyAsAsked`.
  `FailsOnlyOnDisorder` speaks of times as they are computed: it excludes a failure for any other reason,
  and not that a recording of ordinary length has two equal times.

`ProjectEditsProofs` (any projects, signals, sensors, mappings and colours, if no identity is used by two
projects). It begins with the container alone, `Map`, an instance of `BidirectionalUnorderedMapping` with
any signals as its keys and any sensors as its values. `Inverse` says nothing
of a half-done operation, so the invariant adds `HalfDone`: in the middle of an emplace or of an erasure
by key the maps are inverse to each other but for one key, which the second does not know; in the
middle of an erasure by value, but for one value, which the first does not know; in the middle of a
clear the first is empty.
- `MapInverseHolds`, and `MapRefinement`: `Map!Spec => Map!ImplementsRelation`, where the relation is
  `InjectiveRelation!Spec`.

For the edits this invariant is used for each step but `NewProject`, of which `MapOfFacts` shows that a file without double mappings gives inverse maps.
`InProgress` says that an emplace is half done only inside its handler, `FileMapped` that the second map
has the pairs of the file: it only gains entries in free places.
- `TypeCorrect`: `TypeOK`; the identities that a panel keeps are of some project, not always the active one.
- `InverseHolds`: `Inverse` for the mapping of the active project.
- `FileMappingsHolds`: `FileMappingsHold`, also in the middle of an emplace, whose key is not one of the
  file's.
- `ColoursAgreeHolds`: `ColoursAgree`. `ColourQueue` says that the queue is empty when results are
  received and the panel is drawn, that it holds at most one edit of a colour, and that this one is for
  a sensor of the active project; without it the copies could be those of another project's queue.

`ProjectFilesProofs` (any project files, sound files, numbers of channels and frames, any size of a chunk,
both builds). From `DocumentsAssumption`: the parts of a document are sequences, its signals are of
a sound file or embedded, and their channels are natural numbers (channel 0 included, on which
the program stops). The factories of a sound file are in one place at a time - in a slot
(`SlotsOK`), in a task (`TasksOK`), in a result, or their signals are in the project (`ArrivedOK`) - and they are
everywhere the same: the signals that the document keeps of the file, each at the index of its channel
(`IsVectorOf`). While a file is read, `WaveOK` ties its channels to the first task, and `SamplesOK` gives
each signal the frames so far, `Frames(i, n)`, wherever a chunk ends; this is where interleaving and
deinterleaving have to be inverse to each other, with `%` and `\div`. `BuiltOK` follows the sensors and
mappings through the document and `ProjectOK` the one finished project.
- `SignalsAreWholeChannelsHolds`, `SavedProjectLoadsHolds` (the latter with `CHOOSE` of an order for
  each set that is written, which exists because a document is finite).
- `Refinement`: `Spec => ProjectLoad!Spec`. Receiving the project is `Appear`, receiving signals `Arrive`,
  or a stutter when the project failed; everything else is a stutter.
- `NoFileIsLostHolds`: once the signals of a document are read, each sound file has a slot (in the
  browser), a task, an error, a result or its signals in the project. Besides the invariant it needs
  `ProjectFirst`, that no signals overtake their project in the queue of results, for they would be thrown away.

- `TypeCorrect`: `TypeOK`. Besides the invariant it needs `DataOK`, which says the same of documents that
  are refused half-way, and of samples: each is of a sound file, of a channel and of a frame that are
  counted from one.

Lemmas about sequences (appending, tails, elements, concatenation) are stated once and cited by name.

Every safety property and every refinement that a run checks is so a theorem. Only model-checked is
what is temporal under fairness (`OperationsReturn`, `EveryTaskAnswered`, `DestructionTerminates`,
`CompletedLoadEnds`, `ResultsAreReceived`, `ClosingEndsProgram`, `SpectrumAppears`, `WaveformAppears`,
`EveryFileAnswers`). It is out of the prover's reach, as are `ENABLED` and induction over data. For
`CompletedLoadEnds` (`CompletedLoadGoesOnHolds`) and for the last three the theorems above prove that
nothing is lost on the way, and leave to TLC that it gets there.

The erasures and `clear` of the mapping have no caller in the program: no run reaches them and the proof
alone speaks of them.

## 6. What is not modelled, and why

The map of `PROJECT.json` covers less than a fifth of the lines of the repository, and it cannot cover much
more: a third of all lines is a font (`RobotoMedium.hpp`), and most of the rest are class declarations,
their documentation, tables of window functions and calls that draw. In particular:

- `WindowFunctions`, `FrequencySpectrum`, `FFTWBuffers` and FFTW: floating point. What the panel has to
  know of them is when a spectrum is refused and which sizes are allowed.
- The numbers on the screen: amplitudes, spectra, positions of sensors, panning and zooming. A position is
  handled as a colour is, but the panel keeps no copy of it.
- `ResultChannel` with several recipients: each channel has one subscriber in the program, so the order
  of observers and consumer and their exceptions make no difference to it.
- `bind` and `unbind` of the action controllers: in the browser `main` never destroys the controller,
  and on the desktop there is no chooser that could answer after `unbind`. That `unbind` disconnects
  one slot of two (`ActionControllerBase.hpp:106`) has no consequence until one of the two changes.
- `Object` and `IDAllocator`: an atomic counter of 64 bits. Identities are taken as unique. The only
  copies that the program makes are downsampled signals, which are found by the identity of their source.
- `SignalFactory::load_wave_file` for every channel of a file, and the comparisons of factories and
  sources: nothing in this tree calls them.
- Parsing of JSON and of sound files, GLFW, WebGPU and Dear ImGui, except for what is noted above of
  documents, frames, events, surfaces and popups; that a path which the user picks cannot be read is a task
  that fails. `MenuPanel`, `ProjectPanel`, `Logger`, the exception classes, wording and layout.
- In the browser the event loop belongs to Emscripten and never sleeps, so `EventLoop` is the desktop's.

## 7. Disagreements between the code and its words

Each with a counterexample that TLC finds:

- `echomap_modal`: the user is told to press Continue (`IndividualUploadModal.cpp:115`), but an error
  that is raised while the popup is open closes it for good, and no project with files to upload can be
  loaded any more.
- `eventloop_drawn`: forced frames "should always be rendered" (`EchoMap.hpp:100`), but a frame is counted
  before `render`, which may return without drawing (`EchoMap.cpp:107`, `GiveUp`). When the last of them
  is given up, because the surface is lost or its texture late, what they were forced for - a list that a
  panel has open, or a result that was just received - stays unseen until the user does something.
- `dft_fits`: `FrequencySpectrumFactory.cpp:97` asserts that a signal is at least as long as the
  transform; `SignalDFTPanel` asks for the selected size for every signal, the short ones too.
- `project_edits_stale`: a request is to name a project and a signal and a sensor that it has
  (`AddChannelMappingNotification.hpp:31`). `ChannelMappingPanel.cpp:64` keeps what was picked from the
  former project, which is then destroyed; with the other half picked from the new one, the pair is
  requested, is accepted, is never shown, and keeps its half of the new project from being mapped.

Met while modelling, visible in the modules, and not given a run of their own.

Loading:
- Notifications are said to be handled first come, first served (`EchoMap.hpp:94`); `EchoMap.cpp:497`
  takes the newest (`Newest`). Of two uploads for one file, the earlier one wins.
- `LoadProjectTask.hpp:47` promises an exception for a project that cannot be loaded;
  `JSONDeserialiser.cpp:509` returns null for a missing field, which `EchoMap.cpp:642` dereferences
  (`DereferenceNull`).
- A project that replaces another whose files are being loaded leaves these without a project; they are
  dropped when they arrive, with a warning in the log and nothing that the user sees (`EchoMap.cpp:644`, 661).
- A project with several files becomes active when the first is loaded (`EchoMap.cpp:672`), where the
  comment at line 592 says "once these tasks return" (`HandleLoadSignalFile`).
- The situation that the comment at `EchoMap.cpp:635` wonders about takes two selections before the first
  project is loaded; the second is dropped (`IgnoreLoadProject`).
- `ProjectSchema.json:221` calls a channel index zero-based; the code counts from one
  (`JSONDeserialiser.cpp:141`), and channel 0 is an access before the first slot (`OutOfBounds`).
- A project that names a channel which its sound file lacks fails an assertion
  (`SignalFactory.cpp:112`, `TooFewChannels`) in place of an error.
- A second signal for one channel of a file is an error on the desktop; in the browser it silently
  replaces the first (`Dropped`).
- Embedded signals are read and then dropped on the desktop, and fail an assertion in the browser
  (`SkipEmbedded`).
- The table of names keeps views of strings that the signals own (`JSONDeserialiser.cpp:130`), so that
  whether the name of a dropped signal is found is undefined (`Finds`).

Signals:
- `SignalFactory.hpp:152` promises that a downsampled signal has as many samples as were asked for; if the
  source has fewer, it has as many as that (`AsManyAsAsked`).
- The last samples of a signal are in no bucket of LTTB, because the size of a bucket is rounded down
  (`BucketsAreSound`).
- A time that the baseline expects is accepted without a look at the time before (`Signal.cpp:235`), so
  times need not increase, and such a signal cannot be downsampled (`FailsOnlyOnDisorder`).
- An ordinary recording may be refused for the same reason. From 256 seconds on, one step of a 32-bit float
  is 30.5 microseconds, more than the 22.7 between two samples at 44.1 kHz (`Signal.cpp:100-101`, `Round`), so
  neighbours have equal times. A uniform signal does not mind, but LTTB may keep two of them on either side of the end
  of a bucket, and `emplace_time` then throws (`Signal.cpp:259`). The run `signals` reaches this.
- A signal with times of its own that is saved and loaded may have times that differ by a float step,
  because the distance from the baseline is rounded when it is stored and again when it is added. In the extreme a
  time may be refused that was accepted before. `SavedSignalLoads` holds with these distances exact.
- `SignalFactory.hpp:69` asks for as many factories as the sound file has channels, or more; the assertion at
  `SignalFactory.cpp:112` asks for as many channels as there are factories, or more.
- `SignalFactory::operator<` compares a source with itself (`SignalFactory.cpp:57-58`), and
  `Signal::Source::operator<` (`Signal.cpp:28`) is no order: of (channel 1, path b) and (channel 2,
  path a) each is less than the other.
- The display name of a spectrum is always that of the Constant window
  (`FrequencySpectrumFactory::create_frequency_spectrum`).

The rest:
- All operations of `Worker` are said to be atomic, for clients on several threads (`Worker.hpp:40-41`).
  `clear` (`Worker.cpp:45-49`) empties the two queues one after the other (`ClearTasks`, `ClearResults`).
  With task 1 in execution and 2 queued, a clear empties the queue of tasks; task 1 submits 3 and is answered;
  the clear discards this answer. A clear in one step before 3 was submitted could not have
  discarded the answer to 1, and one afterwards would have withdrawn 3 as well. Nobody in the program clears.
- If the window is hidden while the application is constructed, the surface is configured with the
  size 0 by 0 (`EchoMap.cpp:68`, `ConfigureSurface`).
- `SurfaceFactory.cpp:77` throws a `runtime_error`, which `main` does not catch (`App.cpp:40`,
  `AbandonConstruction`).
- `ResultChannel.hpp:53` documents a `runtime_error` for a second consumer; a `logic_error` is thrown.
- `BidirectionalUnorderedMapping.hpp:108` says that `emplace` returns the end iterator when nothing was
  inserted; when the key is taken it returns the entry of that key (line 125). No caller uses it.
- `State::Failed` (`SignalDFTPanel.hpp:136`) is never set: a spectrum or a waveform whose task failed
  stays pending until the cache is reset or the project changes (`ComputeFails`).
- `SignalWaveformPanel` takes a late result of a former project and widens the bounding box of the new
  one by it (`handle_downsampled_result`).
