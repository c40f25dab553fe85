------------------------------- MODULE EchoMap -------------------------------
(***************************************************************************)
(* src/EchoMap.cpp: how a project file becomes the active project.         *)
(*                                                                         *)
(* The main thread runs frames (EchoMap::render): it drains the queue of   *)
(* notifications, drains the results of the Worker, then draws the panels, *)
(* the upload modal and the error modal, in which the user may press one   *)
(* button.  Between two frames the browser may run callbacks of file       *)
(* choosers, which queue notifications.  The computation thread works      *)
(* through the submitted tasks in order and posts one result for each      *)
(* (TaskService, which Worker is proved to implement).                     *)
(*                                                                         *)
(* Native: LoadProjectTask itself submits a task for every sound file of   *)
(* the project.  Browser: the project comes back with unloaded_signals,    *)
(* the upload modal asks the user for every file, and Continue submits     *)
(* the tasks.                                                              *)
(***************************************************************************)
EXTENDS Naturals, Sequences, FiniteSets

CONSTANTS ProjectFiles,   \* project files the user may select
          Externals,      \* paths of sound files that projects refer to
          SourcesOf,      \* the sound files that a project file refers to
          Builds,         \* FALSE: built for the browser, TRUE: for the desktop
          LoadEnds,       \* how LoadProjectTask may end
          MaxSelections,  \* bound: project files selected
          MaxUploads,     \* bound: file choosers opened from the modal
          MaxEdits        \* bound: edits of the active project

ASSUME SourcesAssumption == SourcesOf \in [ProjectFiles -> SUBSET Externals]
ASSUME BuildsAssumption == Builds \subseteq BOOLEAN
ASSUME EndsAssumption == LoadEnds \subseteq {"project", "error", "null"}
ASSUME BoundsAssumption == MaxSelections \in Nat /\ MaxUploads \in Nat /\ MaxEdits \in Nat

VARIABLES native,            \* built for the desktop, not for the browser
          main,              \* where EchoMap::render is, or "idle" between frames
          todo,              \* the files that the loop of CompleteProjectLoad has left
          notify_queue,      \* std::vector<Notification>
          project,           \* the active project
          unloaded_project,  \* the project that is being loaded
          upload_modal,      \* the project id of the upload modal, or None
          should_open,       \* its popup is to be opened at the next draw
          popup,             \* the popup that Dear ImGui has open
          is_raised,         \* the error modal is raised
          tasks,             \* tasks that the Worker has not answered, oldest first
          results,           \* results that the main thread has not received
          loader,            \* the project that LoadProjectTask is constructing
          ids,               \* project ids allocated so far
          choosers,          \* file choosers open for a file of a project
          selections, uploads, paths, edits,   \* counters
          cancelled          \* history: the projects whose load was cancelled

ui == <<upload_modal, should_open, popup, is_raised>>
held == <<project, unloaded_project, cancelled>>
worker == <<tasks, results, loader, ids>>
user == <<choosers, selections, uploads, paths, edits>>
vars == <<native, main, todo, notify_queue, held, ui, worker, user>>

None == 0
Ids == 1..MaxSelections

\* A path in the virtual file system, or None as long as nothing is mapped.
Paths == 1..MaxUploads

Mappings == UNION {[S -> Paths \cup {None}] : S \in SUBSET Externals}

Projects == [id : Ids, unloaded_signals : Mappings, signals : SUBSET Externals]
NoProject == [id |-> None, unloaded_signals |-> <<>>, signals |-> {}]

Notifications ==
    [kind : {"select"}, file : ProjectFiles]
    \cup [kind : {"complete", "cancel", "edit"}, id : Ids]
    \cup [kind : {"register"}, id : Ids, external : Externals, internal : Paths]

FileTasks == [kind : {"signals"}, id : Ids, external : Externals]
Tasks == [kind : {"project"}, file : ProjectFiles] \cup FileTasks
Results ==
    [kind : {"project"}, project : Projects \cup {NoProject}]
    \cup FileTasks
    \cup [kind : {"error"}]

Loaders == [id : Ids \cup {None}, todo : SUBSET Externals]
Idle == [id |-> None, todo |-> {}]

TypeOK ==
    /\ native \in Builds
    /\ main \in {"idle", "notifications", "completing", "results",
                 "panels", "modal", "error", "crashed"}
    /\ todo \subseteq Externals
    /\ notify_queue \in Seq(Notifications)
    /\ project \in Projects \cup {NoProject}
    /\ unloaded_project \in Projects \cup {NoProject}
    /\ upload_modal \in Ids \cup {None}
    /\ should_open \in BOOLEAN
    /\ popup \in {"none", "upload", "error"}
    /\ is_raised \in BOOLEAN
    /\ tasks \in Seq(Tasks)
    /\ results \in Seq(Results)
    /\ loader \in Loaders
    /\ ids \in 0..MaxSelections
    /\ choosers \in [Ids \X Externals -> Nat]
    /\ selections \in 0..MaxSelections
    /\ uploads \in 0..MaxUploads
    /\ paths \in 0..MaxUploads
    /\ edits \in 0..MaxEdits
    /\ cancelled \subseteq Ids

Init ==
    /\ native \in Builds
    /\ main = "idle"
    /\ todo = {}
    /\ notify_queue = <<>>
    /\ project = NoProject
    /\ unloaded_project = NoProject
    /\ upload_modal = None
    /\ should_open = FALSE
    /\ popup = "none"
    /\ is_raised = FALSE
    /\ tasks = <<>>
    /\ results = <<>>
    /\ loader = Idle
    /\ ids = 0
    /\ choosers = [c \in Ids \X Externals |-> 0]
    /\ selections = 0 /\ uploads = 0 /\ paths = 0 /\ edits = 0
    /\ cancelled = {}

Goto(from, to) ==
    /\ main = from
    /\ main' = to

Notify(n) == notify_queue' = Append(notify_queue, n)

------------------------------------------------------------------------------
(* Callbacks of the browser, on the main thread and between two frames *)

echomap_on_project_file_picked(file) == Notify([kind |-> "select", file |-> file])

echomap_on_register_vfs_mapping(id, external, internal) ==
    Notify([kind |-> "register", id |-> id, external |-> external, internal |-> internal])

SelectProject(file) ==
    /\ main = "idle"
    /\ selections < MaxSelections
    /\ selections' = selections + 1
    /\ echomap_on_project_file_picked(file)
    /\ UNCHANGED <<main, todo, held, ui, worker, choosers, uploads, paths, edits>>

\* Every call opens a chooser of its own, also for a file that has one already.
chooseFile(id, external) ==
    choosers' = [choosers EXCEPT ![<<id, external>>] = @ + 1]

\* The path is made of the name of the file and the time in milliseconds, so that
\* it may be that of the copy before; there are no more copies than uploads.
copyFileToEmscriptenFS ==
    /\ paths' \in {paths, paths + 1}
    /\ paths' \in Paths

\* The user chose a file and it has been copied; this can be long after the
\* modal was closed.  A chooser that is cancelled never answers.
AnswerChooser(id, external) ==
    /\ main = "idle"
    /\ choosers[<<id, external>>] > 0
    /\ choosers' = [choosers EXCEPT ![<<id, external>>] = @ - 1]
    /\ copyFileToEmscriptenFS
    /\ echomap_on_register_vfs_mapping(id, external, paths')
    /\ UNCHANGED <<main, todo, held, ui, worker, selections, uploads, edits>>

BeginFrame ==
    /\ Goto("idle", "notifications")
    /\ UNCHANGED <<todo, notify_queue, held, ui, worker, user>>

------------------------------------------------------------------------------
(* process_notifications: the last notification is handled and removed *)

Newest == notify_queue[Len(notify_queue)]
Older == SubSeq(notify_queue, 1, Len(notify_queue) - 1)

Handling(kind) ==
    /\ main = "notifications"
    /\ notify_queue # <<>>
    /\ Newest.kind = kind
    /\ notify_queue' = Older

HandleProjectSelected ==
    /\ Handling("select")
    /\ tasks' = Append(tasks, [kind |-> "project", file |-> Newest.file])
    /\ UNCHANGED <<main, todo, held, ui, results, loader, ids, user>>

\* verify_project: anything else is a warning in the log.
HandleRegisterVFSMapping ==
    /\ Handling("register")
    /\ unloaded_project' =
           IF /\ Newest.id = unloaded_project.id
              /\ Newest.external \in DOMAIN unloaded_project.unloaded_signals
           THEN [unloaded_project EXCEPT !.unloaded_signals[Newest.external] = Newest.internal]
           ELSE unloaded_project
    /\ UNCHANGED <<main, todo, project, cancelled, ui, worker, user>>

\* Mutant: only the modal is closed.
HandleCancelProjectLoad_KeepsProject ==
    /\ Handling("cancel")
    /\ IF Newest.id = unloaded_project.id
       THEN /\ upload_modal' = None
            /\ cancelled' = cancelled \cup {Newest.id}
       ELSE UNCHANGED <<upload_modal, cancelled>>
    /\ UNCHANGED <<main, todo, project, unloaded_project, should_open, popup, is_raised,
                   worker, user>>

HandleCancelProjectLoad ==
    /\ Handling("cancel")
    /\ IF Newest.id = unloaded_project.id
       THEN /\ upload_modal' = None
            /\ unloaded_project' = NoProject
            /\ cancelled' = cancelled \cup {Newest.id}
       ELSE UNCHANGED <<upload_modal, unloaded_project, cancelled>>
    /\ UNCHANGED <<main, todo, project, should_open, popup, is_raised, worker, user>>

\* Associations and sensors are out of sight here; what matters is whether
\* the notification finds its project.
HandleEdit ==
    /\ Handling("edit")
    /\ UNCHANGED <<main, todo, held, ui, worker, user>>

\* The notification stays on the queue while its loop runs.
HandleCompleteProjectLoad ==
    /\ main = "notifications"
    /\ notify_queue # <<>>
    /\ Newest.kind = "complete"
    /\ IF Newest.id = unloaded_project.id
       THEN /\ main' = "completing"
            /\ todo' = DOMAIN unloaded_project.unloaded_signals
            /\ UNCHANGED notify_queue
       ELSE /\ notify_queue' = Older
            /\ UNCHANGED <<main, todo>>
    /\ UNCHANGED <<held, ui, worker, user>>

\* Mutant: a task for every signal in place of one for every file.
SubmitSignalFile_PerSignal(external) ==
    /\ main = "completing"
    /\ external \in todo
    /\ tasks' = Append(tasks, [kind |-> "signals", id |-> unloaded_project.id,
                              external |-> external])
    /\ todo' \in {todo, todo \ {external}}
    /\ UNCHANGED <<main, notify_queue, held, ui, results, loader, ids, user>>

\* One turn of the loop over unloaded_signals, in some order of the paths.
\* A file without a mapping ends the loop by an exception.
SubmitSignalFile(external) ==
    /\ main = "completing"
    /\ external \in todo
    /\ IF unloaded_project.unloaded_signals[external] # None
       THEN /\ tasks' = Append(tasks, [kind |-> "signals", id |-> unloaded_project.id,
                                       external |-> external])
            /\ todo' = todo \ {external}
            /\ UNCHANGED <<main, notify_queue, is_raised>>
       ELSE /\ is_raised' = TRUE
            /\ todo' = {}
            /\ main' = "notifications"
            /\ notify_queue' = Older
            /\ UNCHANGED tasks
    /\ UNCHANGED <<held, upload_modal, should_open, popup, results, loader, ids, user>>

\* Mutant: the modal is not reset.
FinishComplete_KeepsModal ==
    /\ Goto("completing", "notifications")
    /\ todo = {}
    /\ notify_queue' = Older
    /\ UNCHANGED <<todo, held, ui, worker, user>>

FinishComplete ==
    /\ Goto("completing", "notifications")
    /\ todo = {}
    /\ upload_modal' = None
    /\ notify_queue' = Older
    /\ UNCHANGED <<todo, held, should_open, popup, is_raised, worker, user>>

\* Mutant: an if in place of the loop, so that notifications are left over.
NotificationsDone_LeavesSome ==
    /\ Goto("notifications", "results")
    /\ UNCHANGED <<todo, notify_queue, held, ui, worker, user>>

NotificationsDone ==
    /\ Goto("notifications", "results")
    /\ notify_queue = <<>>
    /\ UNCHANGED <<todo, notify_queue, held, ui, worker, user>>

------------------------------------------------------------------------------
(* process_worker_results *)

\* WorkerResultDespatcher: each kind of result has a channel, and each channel one
\* subscriber.
publish(kind) == Head(results).kind = kind

Receiving(kind) ==
    /\ main = "results"
    /\ results # <<>>
    /\ publish(kind)
    /\ results' = Tail(results)

\* A second project is ignored while the modal asks for the files of another.
IgnoreLoadProject ==
    /\ Receiving("project")
    /\ upload_modal # None
    /\ UNCHANGED <<main, todo, notify_queue, held, ui, tasks, loader, ids, user>>

HandleLoadProject ==
    LET loaded == Head(results).project
    IN  /\ Receiving("project")
        /\ upload_modal = None
        /\ loaded # NoProject
        /\ IF DOMAIN loaded.unloaded_signals # {}
           THEN /\ upload_modal' = loaded.id
                /\ should_open' = TRUE
                /\ unloaded_project' = loaded
                /\ UNCHANGED project
           ELSE /\ project' = loaded
                /\ UNCHANGED <<upload_modal, should_open, unloaded_project>>
        /\ UNCHANGED <<main, todo, notify_queue, cancelled, popup, is_raised,
                       tasks, loader, ids, user>>

\* new_project->unloaded_signals of a null pointer.
DereferenceNull ==
    /\ Receiving("project")
    /\ upload_modal = None
    /\ Head(results).project = NoProject
    /\ main' = "crashed"
    /\ UNCHANGED <<todo, notify_queue, held, ui, tasks, loader, ids, user>>

WithSignals(p, external) == [p EXCEPT !.signals = @ \cup {external}]

\* Mutant: only the active project is asked for.
HandleLoadSignalFile_ActiveOnly ==
    LET result == Head(results)
    IN  /\ Receiving("signals")
        /\ project' = IF result.id = project.id THEN WithSignals(project, result.external)
                      ELSE project
        /\ UNCHANGED <<main, todo, notify_queue, unloaded_project, cancelled, ui, tasks, loader,
                       ids, user>>

\* The signals go to the project they were loaded for, wherever it is; the
\* first ones of the unloaded project activate it.
HandleLoadSignalFile ==
    LET result == Head(results)
    IN  /\ Receiving("signals")
        /\ IF result.id = project.id
           THEN /\ project' = WithSignals(project, result.external)
                /\ UNCHANGED unloaded_project
           ELSE IF result.id = unloaded_project.id
           THEN /\ project' = WithSignals(unloaded_project, result.external)
                /\ unloaded_project' = NoProject
           ELSE UNCHANGED <<project, unloaded_project>>
        /\ UNCHANGED <<main, todo, notify_queue, cancelled, ui, tasks, loader, ids, user>>

\* Mutant: the error is only logged.
HandleError_Silent ==
    /\ Receiving("error")
    /\ UNCHANGED <<main, todo, notify_queue, held, ui, tasks, loader, ids, user>>

HandleError ==
    /\ Receiving("error")
    /\ is_raised' = TRUE
    /\ UNCHANGED <<main, todo, notify_queue, held, upload_modal, should_open, popup,
                   tasks, loader, ids, user>>

ResultsDone ==
    /\ Goto("results", "panels")
    /\ results = <<>>
    /\ UNCHANGED <<todo, notify_queue, held, ui, worker, user>>

------------------------------------------------------------------------------
(* Drawing.  Dear ImGui is external: it has at most one of these two popups *)
(* open, because both are opened at the same level and opening one closes   *)
(* the other; a modal is drawn only while its popup is open.                *)

\* The window is hidden or the surface was lost: nothing is drawn.
SkipDraw ==
    /\ Goto("panels", "idle")
    /\ UNCHANGED <<todo, notify_queue, held, ui, worker, user>>

DrawPanels ==
    /\ Goto("panels", "modal")
    /\ UNCHANGED <<todo, notify_queue, held, ui, worker, user>>

\* A sensor is moved or coloured, or a channel is mapped.
EditProject ==
    /\ Goto("panels", "modal")
    /\ project.id # None
    /\ edits < MaxEdits
    /\ edits' = edits + 1
    /\ Notify([kind |-> "edit", id |-> project.id])
    /\ UNCHANGED <<todo, held, ui, worker, choosers, selections, uploads, paths>>

\* The popup after OpenPopup and before any button.
UploadPopup == IF upload_modal # None /\ should_open THEN "upload" ELSE popup
UploadDrawn == upload_modal # None /\ UploadPopup = "upload"

DrawUploadModal ==
    /\ Goto("modal", "error")
    /\ popup' = UploadPopup
    /\ should_open' = (should_open /\ upload_modal = None)
    /\ UNCHANGED <<todo, notify_queue, held, upload_modal, is_raised, worker, user>>

PressUpload(external) ==
    /\ Goto("modal", "error")
    /\ UploadDrawn
    /\ external \in DOMAIN unloaded_project.unloaded_signals
    /\ uploads < MaxUploads
    /\ uploads' = uploads + 1
    /\ chooseFile(upload_modal, external)
    /\ popup' = "upload"
    /\ should_open' = FALSE
    /\ UNCHANGED <<todo, notify_queue, held, upload_modal, is_raised, worker,
                   selections, paths, edits>>

PressCancel ==
    /\ Goto("modal", "error")
    /\ UploadDrawn
    /\ Notify([kind |-> "cancel", id |-> upload_modal])
    /\ popup' = "none"
    /\ should_open' = FALSE
    /\ UNCHANGED <<todo, held, upload_modal, is_raised, worker, user>>

AllMapped(p) == \A e \in DOMAIN p.unloaded_signals : p.unloaded_signals[e] # None

PressContinue ==
    /\ Goto("modal", "error")
    /\ UploadDrawn
    /\ AllMapped(unloaded_project)
    /\ Notify([kind |-> "complete", id |-> upload_modal])
    /\ popup' = "none"
    /\ should_open' = FALSE
    /\ UNCHANGED <<todo, held, upload_modal, is_raised, worker, user>>

\* A raised error opens its popup in every frame.
DrawErrorModal ==
    /\ Goto("error", "idle")
    /\ popup' = IF is_raised THEN "error" ELSE popup
    /\ UNCHANGED <<todo, notify_queue, held, upload_modal, should_open, is_raised, worker, user>>

PressDismiss ==
    /\ Goto("error", "idle")
    /\ is_raised
    /\ is_raised' = FALSE
    /\ popup' = "none"
    /\ UNCHANGED <<todo, notify_queue, held, upload_modal, should_open, worker, user>>

------------------------------------------------------------------------------
(* The computation thread *)

Answering(kind) ==
    /\ main # "crashed"
    /\ tasks # <<>>
    /\ Head(tasks).kind = kind

Answer(result) ==
    /\ results' = Append(results, result)
    /\ tasks' = Tail(tasks)

\* LoadProjectTask: the file is read and the project is constructed.
StartLoadProject ==
    /\ Answering("project")
    /\ loader = Idle
    /\ ids' = ids + 1
    /\ loader' = [id |-> ids + 1, todo |-> IF native THEN SourcesOf[Head(tasks).file] ELSE {}]
    /\ UNCHANGED <<main, todo, notify_queue, held, ui, tasks, results, user>>

\* On the desktop it submits one task for every sound file.
SubmitSubtask(external) ==
    /\ Answering("project")
    /\ external \in loader.todo
    /\ tasks' = Append(tasks, [kind |-> "signals", id |-> loader.id, external |-> external])
    /\ loader' = [loader EXCEPT !.todo = @ \ {external}]
    /\ UNCHANGED <<main, todo, notify_queue, held, ui, results, ids, user>>

\* In the browser the files are left to be uploaded.
LoadedProject ==
    [id |-> loader.id,
     unloaded_signals |-> [e \in (IF native THEN {} ELSE SourcesOf[Head(tasks).file]) |-> None],
     signals |-> {}]

\* The sensors and the channel map come after the signals, so the task can
\* still fail: by an exception, or by a null project when a field is missing.
FinishLoadProject(end) ==
    /\ Answering("project")
    /\ loader # Idle
    /\ loader.todo = {}
    /\ Answer(CASE end = "project" -> [kind |-> "project", project |-> LoadedProject]
                [] end = "null" -> [kind |-> "project", project |-> NoProject]
                [] end = "error" -> [kind |-> "error"])
    /\ loader' = Idle
    /\ UNCHANGED <<main, todo, notify_queue, held, ui, ids, user>>

\* Mutant: a second computation thread takes whichever file is waiting.
LoadSignalFile_SecondThread ==
    /\ main # "crashed"
    /\ \E i \in DOMAIN tasks :
           /\ tasks[i].kind = "signals"
           /\ results' = Append(results, tasks[i])
           /\ tasks' = SubSeq(tasks, 1, i - 1) \o SubSeq(tasks, i + 1, Len(tasks))
    /\ UNCHANGED <<main, todo, notify_queue, held, ui, loader, ids, user>>

LoadSignalFile ==
    /\ Answering("signals")
    /\ \/ Answer(Head(tasks))
       \/ Answer([kind |-> "error"])
    /\ UNCHANGED <<main, todo, notify_queue, held, ui, loader, ids, user>>

------------------------------------------------------------------------------

Callbacks ==
    /\ \/ \E file \in ProjectFiles : SelectProject(file)
       \/ \E id \in Ids, external \in Externals : AnswerChooser(id, external)
    /\ UNCHANGED native

Frame ==
    /\ \/ BeginFrame
       \/ HandleProjectSelected \/ HandleRegisterVFSMapping \/ HandleCancelProjectLoad
       \/ HandleEdit \/ HandleCompleteProjectLoad
       \/ \E external \in Externals : SubmitSignalFile(external)
       \/ FinishComplete \/ NotificationsDone
       \/ IgnoreLoadProject \/ HandleLoadProject \/ DereferenceNull
       \/ HandleLoadSignalFile \/ HandleError \/ ResultsDone
       \/ SkipDraw \/ DrawPanels \/ EditProject
       \/ DrawUploadModal \/ PressCancel \/ PressContinue
       \/ \E external \in Externals : PressUpload(external)
       \/ DrawErrorModal \/ PressDismiss
    /\ UNCHANGED native

Computation ==
    /\ \/ StartLoadProject
       \/ \E external \in Externals : SubmitSubtask(external)
       \/ \E end \in LoadEnds : FinishLoadProject(end)
       \/ LoadSignalFile
    /\ UNCHANGED native

Next == Callbacks \/ Frame \/ Computation

Spec == Init /\ [][Next]_vars

(* Frames go on and the computation thread works.  Nothing is asked of the *)
(* user: no button is ever pressed for the sake of progress.               *)
FairSpec == Spec /\ WF_vars(Frame) /\ WF_vars(Computation)

------------------------------------------------------------------------------
(* Properties *)

InQueue(kind) == {i \in DOMAIN notify_queue : notify_queue[i].kind = kind}

FilesUnderWay(id) == {i \in DOMAIN tasks : tasks[i].kind = "signals" /\ tasks[i].id = id}
FilesLoaded(id) == {i \in DOMAIN results : results[i].kind = "signals" /\ results[i].id = id}

\* The modal keeps a plain pointer to the project it asks for
\* (IndividualUploadModal.hpp:77).  The project is alive and still the
\* unloaded one for as long as the modal exists, and none of its files can
\* come back and move it away before the modal is gone.
ModalOwnsUnloaded ==
    upload_modal # None =>
        /\ unloaded_project.id = upload_modal
        /\ main # "completing" => FilesUnderWay(upload_modal) \cup FilesLoaded(upload_modal) = {}

\* What the user decided in one frame is still meant for the same project when
\* the next frame handles it: edits for the active one, Cancel or Continue
\* for the one in the modal, at most one of them, and Continue only with every
\* file mapped.  So the refusal half-way through EchoMap.cpp:586-596, which
\* would leave some files submitted and others not, cannot happen.
DecisionsAreCurrent ==
    /\ \A i \in InQueue("edit") : notify_queue[i].id = project.id
    /\ \A i \in InQueue("complete") \cup InQueue("cancel") :
           notify_queue[i].id = upload_modal
    /\ Cardinality(InQueue("complete") \cup InQueue("cancel")) <= 1
    /\ InQueue("complete") # {} => AllMapped(unloaded_project)

\* Each sound file of a project is loaded at most once: it is in one task, in
\* one result or among the signals of the project.
EachFileLoadedOnce ==
    \A id \in Ids, e \in Externals :
        Cardinality({i \in FilesUnderWay(id) : tasks[i].external = e})
        + Cardinality({i \in FilesLoaded(id) : results[i].external = e})
        + (IF project.id = id /\ e \in project.signals THEN 1 ELSE 0) <= 1

\* "Cancelling the operation will abort the load and revert back to the
\* previously loaded project" (IndividualUploadModal.cpp:115): no late upload,
\* result or notification brings a cancelled project back.
CancelledStaysOut ==
    \A id \in cancelled :
        /\ id \notin {project.id, unloaded_project.id, upload_modal}
        /\ FilesUnderWay(id) \cup FilesLoaded(id) = {}

\* The signals of a project never arrive before the project, although they may
\* be submitted while it is still being constructed: the main thread would
\* drop them as meant for an unavailable project (EchoMap.cpp:660).
SignalsFollowTheirProject ==
    \A i \in DOMAIN results :
        results[i].kind = "signals" =>
            /\ loader.id # results[i].id
            /\ \A j \in (i + 1)..Len(results) :
                   results[j].kind = "project" => results[j].project.id # results[i].id

\* The user pressed Continue, and something is still to come of it.
StillLoading(id) ==
    /\ unloaded_project.id = id
    /\ \/ main = "completing"
       \/ FilesUnderWay(id) \cup FilesLoaded(id) # {}
       \/ \E i \in DOMAIN results : results[i].kind = "error"

\* A load that goes on does not just vanish: the step after which nothing is to come of
\* it any more makes the project the active one, raises an error, or puts another project
\* in its place, of which there is only a warning in the log (EchoMap.cpp:661).  So
\* Continue submits at least one task (EchoMap.cpp:586-596), and until then no result of
\* it is dropped (EchoMap.cpp:653-667).
CompletedLoadGoesOn ==
    [][\A id \in Ids :
           StillLoading(id) /\ ~StillLoading(id)' =>
               project'.id = id \/ is_raised' \/ unloaded_project'.id # id]_vars

\* A load that the user completes ends: the project becomes active, or an error
\* is raised for one of its files, or another project is being loaded in its
\* place.  Only the null project of DereferenceNull stops the program first.
CompletedLoadEnds ==
    \A id \in Ids :
        main = "completing" /\ unloaded_project.id = id
            ~> project.id = id \/ is_raised \/ unloaded_project.id # id \/ main = "crashed"

------------------------------------------------------------------------------
(* What the code tells the user, or its comments the reader, and does not do *)

\* IndividualUploadModal.cpp:115: "Upload all missing files to complete the
\* mapping, and press Continue."  So as long as the modal exists it is on the
\* screen, or under an error, or answered.
ModalCanBeAnswered ==
    main = "idle" /\ upload_modal # None =>
        \/ popup = "upload" \/ should_open \/ is_raised
        \/ InQueue("complete") \cup InQueue("cancel") # {}
==============================================================================
