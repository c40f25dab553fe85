---------------------------- MODULE EchoMapProofs ----------------------------
(***************************************************************************)
(* How a project file becomes the active project, for any number of        *)
(* project files, sound files, selections, uploads and edits, and for both *)
(* builds.                                                                 *)
(*                                                                         *)
(* The properties speak of the notifications, of the modal and of the      *)
(* sound files under way.  What holds them together is identity: the id of *)
(* a project is in one place at a time -- with the loader, in a result, in *)
(* unloaded_project, in project, or cancelled.                             *)
(***************************************************************************)
EXTENDS EchoMap, FiniteSetTheorems, FunctionTheorems, TLAPS

------------------------------------------------------------------------------
(* Types, where an id is any number *)

AnyProject == [id : Nat, unloaded_signals : Mappings, signals : SUBSET Externals]

Notes ==
    [kind : {"select"}, file : ProjectFiles]
    \cup [kind : {"complete", "cancel", "edit"}, id : Nat]
    \cup [kind : {"register"}, id : Nat, external : Externals, internal : Paths]

FileJobs == [kind : {"signals"}, id : Nat, external : Externals]
AnyTask == [kind : {"project"}, file : ProjectFiles] \cup FileJobs
AnyResult == [kind : {"project"}, project : AnyProject] \cup FileJobs \cup [kind : {"error"}]

TypesOK ==
    /\ native \in BOOLEAN
    /\ todo \subseteq Externals
    /\ notify_queue \in Seq(Notes)
    /\ project \in AnyProject
    /\ unloaded_project \in AnyProject
    /\ upload_modal \in Nat
    /\ tasks \in Seq(AnyTask)
    /\ results \in Seq(AnyResult)
    /\ loader \in [id : Nat, todo : SUBSET Externals]
    /\ ids \in Nat
    /\ paths \in Paths \cup {None}
    /\ cancelled \subseteq Nat

------------------------------------------------------------------------------
(* The inductive invariant *)

\* The loader constructs the project of the oldest task.
LoaderOK ==
    /\ loader.id = None => loader = Idle
    /\ loader.id # None => tasks # <<>> /\ Head(tasks).kind = "project" /\ loader.id <= ids
    /\ ~native => loader.todo = {}

\* Every id has been allocated and is in one place.
PlacesOK ==
    /\ project.id <= ids /\ unloaded_project.id <= ids
    /\ unloaded_project.id # None => project.id # unloaded_project.id
    /\ loader.id # None => loader.id \notin {project.id, unloaded_project.id} \cup cancelled
    /\ \A id \in cancelled : id # None /\ id <= ids /\ id \notin {project.id, unloaded_project.id}
    /\ unloaded_project.signals = {}

\* A project that was loaded and not yet received is nowhere else.
LoadedOK ==
    /\ \A i \in DOMAIN results :
           results[i].kind = "project" /\ results[i].project # NoProject =>
               /\ results[i].project.id # None /\ results[i].project.id <= ids
               /\ results[i].project.id \notin
                      {project.id, unloaded_project.id, loader.id} \cup cancelled
               /\ results[i].project.signals = {}
               /\ native => DOMAIN results[i].project.unloaded_signals = {}
    /\ \A i, j \in DOMAIN results :
           /\ i # j
           /\ results[i].kind = "project" /\ results[i].project # NoProject
           /\ results[j].kind = "project" /\ results[j].project # NoProject
           => results[i].project.id # results[j].project.id

\* The sound files that are under way belong to a project whose id was allocated and
\* not cancelled, and in the browser to one that was received before.
FileOK(x) ==
    /\ x.id # None /\ x.id <= ids /\ x.id \notin cancelled
    /\ upload_modal # None /\ main # "completing" => x.id # upload_modal
    /\ ~native =>
           /\ x.id # loader.id
           /\ \A i \in DOMAIN results :
                  results[i].kind = "project" /\ results[i].project # NoProject =>
                      x.id # results[i].project.id

FilesOK ==
    /\ \A i \in DOMAIN tasks : tasks[i].kind = "signals" => FileOK(tasks[i])
    /\ \A i \in DOMAIN results :
           results[i].kind = "signals" => FileOK(results[i]) /\ results[i].id # loader.id

OrderOK ==
    \A i, j \in DOMAIN results :
        /\ i < j
        /\ results[i].kind = "signals"
        /\ results[j].kind = "project" /\ results[j].project # NoProject
        => results[j].project.id # results[i].id

ModalOK == upload_modal # None => unloaded_project.id = upload_modal /\ ~native

IsDecision(n) == n.kind \in {"complete", "cancel"}

QueueOK ==
    /\ main \in {"results", "panels"} => notify_queue = <<>>
    /\ \A i \in DOMAIN notify_queue :
           /\ notify_queue[i].kind = "edit" => notify_queue[i].id = project.id
           /\ IsDecision(notify_queue[i]) =>
                  /\ notify_queue[i].id = upload_modal /\ upload_modal # None
                  /\ main # "modal"
           /\ notify_queue[i].kind = "complete" => AllMapped(unloaded_project)
    /\ \A i, j \in DOMAIN notify_queue :
           IsDecision(notify_queue[i]) /\ IsDecision(notify_queue[j]) => i = j
    /\ main = "completing" =>
           /\ notify_queue # <<>> /\ Newest.kind = "complete"
           /\ todo \subseteq DOMAIN unloaded_project.unloaded_signals

SameFile(x, y) == x.id = y.id /\ x.external = y.external

\* A sound file is under way once, or its signals are in the project, or its turn
\* is still to come.
OnceOK ==
    /\ \A i, j \in DOMAIN tasks :
           tasks[i].kind = "signals" /\ tasks[j].kind = "signals" /\ i # j =>
               ~SameFile(tasks[i], tasks[j])
    /\ \A i, j \in DOMAIN results :
           results[i].kind = "signals" /\ results[j].kind = "signals" /\ i # j =>
               ~SameFile(results[i], results[j])
    /\ \A i \in DOMAIN tasks, j \in DOMAIN results :
           tasks[i].kind = "signals" /\ results[j].kind = "signals" =>
               ~SameFile(tasks[i], results[j])
    /\ \A i \in DOMAIN tasks :
           tasks[i].kind = "signals" =>
               /\ tasks[i].id = project.id => tasks[i].external \notin project.signals
               /\ tasks[i].id = loader.id => tasks[i].external \notin loader.todo
               /\ main = "completing" /\ tasks[i].id = unloaded_project.id =>
                      tasks[i].external \notin todo
    /\ \A i \in DOMAIN results :
           results[i].kind = "signals" =>
               /\ results[i].id = project.id => results[i].external \notin project.signals
               /\ main = "completing" /\ results[i].id = unloaded_project.id =>
                      results[i].external \notin todo

IInv ==
    /\ TypesOK /\ LoaderOK /\ PlacesOK /\ LoadedOK /\ FilesOK /\ OrderOK
    /\ ModalOK /\ QueueOK /\ OnceOK

------------------------------------------------------------------------------
(* Sequences, index by index *)

LEMMA AppendIndex ==
    ASSUME NEW S, NEW s \in Seq(S), NEW x \in S
    PROVE  /\ Append(s, x) \in Seq(S) /\ Append(s, x) # <<>>
           /\ s # <<>> => Head(Append(s, x)) = Head(s)
           /\ s = <<>> => Head(Append(s, x)) = x
           /\ \A i \in DOMAIN Append(s, x) :
                  \/ i \in DOMAIN s /\ Append(s, x)[i] = s[i] /\ i < Len(s) + 1
                  \/ i = Len(s) + 1 /\ Append(s, x)[i] = x
           /\ Len(s) \in Nat
           /\ DOMAIN s = 1..Len(s)
  OBVIOUS

LEMMA TailIndex ==
    ASSUME NEW S, NEW s \in Seq(S), s # <<>>
    PROVE  /\ Tail(s) \in Seq(S)
           /\ Head(s) \in S /\ 1 \in DOMAIN s /\ Head(s) = s[1]
           /\ \A i \in DOMAIN Tail(s) :
                  i \in Nat /\ i + 1 \in DOMAIN s /\ i + 1 > 1 /\ Tail(s)[i] = s[i + 1]
  OBVIOUS

LEMMA FrontIndex ==
    ASSUME NEW S, NEW s \in Seq(S), s # <<>>
    PROVE  /\ SubSeq(s, 1, Len(s) - 1) \in Seq(S)
           /\ Len(s) \in DOMAIN s /\ s[Len(s)] \in S
           /\ \A i \in DOMAIN SubSeq(s, 1, Len(s) - 1) :
                  i \in DOMAIN s /\ i # Len(s) /\ SubSeq(s, 1, Len(s) - 1)[i] = s[i]
  OBVIOUS

LEMMA NoProjectType == NoProject \in AnyProject
<1>1. <<>> \in [{} -> Paths \cup {None}]
  OBVIOUS
<1>2. <<>> \in Mappings
  BY <1>1 DEF Mappings
<1>3. QED
  BY <1>2 DEF NoProject, AnyProject, None

LEMMA InitIInv == Init => IInv
<1> SUFFICES ASSUME Init PROVE IInv
  OBVIOUS
<1>1. TypesOK
  BY NoProjectType, BuildsAssumption DEF Init, TypesOK, Idle, None
<1>2. LoaderOK /\ PlacesOK /\ ModalOK
  BY DEF Init, LoaderOK, PlacesOK, ModalOK, Idle, None, NoProject
<1>3. LoadedOK /\ FilesOK /\ OrderOK /\ OnceOK
  BY DEF Init, LoadedOK, FilesOK, OrderOK, OnceOK
<1>4. QueueOK
  BY DEF Init, QueueOK
<1>5. QED
  BY <1>1, <1>2, <1>3, <1>4 DEF IInv

------------------------------------------------------------------------------
(* The steps of the user interface and of the browser *)

\* What the notifications and the drawing leave alone.
core == <<native, todo, project, unloaded_project, upload_modal, tasks, results, loader, ids,
          cancelled>>

CoreOK == LoaderOK /\ PlacesOK /\ LoadedOK /\ FilesOK /\ OrderOK /\ ModalOK /\ OnceOK

LEMMA CoreSame ==
    ASSUME CoreOK, UNCHANGED core,
           (main' = main) \/ (main # "completing" /\ main' # "completing")
    PROVE  CoreOK'
<1> USE DEF core
<1>1. LoaderOK' /\ PlacesOK' /\ ModalOK'
  BY DEF CoreOK, LoaderOK, PlacesOK, ModalOK
<1>2. LoadedOK' /\ OrderOK'
  BY DEF CoreOK, LoadedOK, OrderOK
<1>3. FilesOK'
  BY DEF CoreOK, FilesOK, FileOK
<1>4. OnceOK'
  BY DEF CoreOK, OnceOK
<1>5. QED
  BY <1>1, <1>2, <1>3, <1>4 DEF CoreOK

\* One more notification that is no decision, or the first one.
LEMMA NotifyStep ==
    ASSUME IInv, UNCHANGED core, NEW n \in Notes, Notify(n), paths' \in Paths \cup {None},
           main # "completing", main' \notin {"completing", "results", "panels"},
           n.kind = "edit" => n.id = project.id,
           IsDecision(n) => /\ n.id = upload_modal /\ upload_modal # None
                            /\ main = "modal" /\ main' # "modal",
           main' = "modal" => main = "panels",
           n.kind = "complete" => AllMapped(unloaded_project)
    PROVE  IInv'
<1>1. CoreOK'
  BY CoreSame DEF IInv, CoreOK
<1>2. notify_queue \in Seq(Notes) /\ notify_queue' = Append(notify_queue, n)
  BY DEF IInv, TypesOK, Notify
<1>3. TypesOK'
  BY <1>2, AppendIndex DEF IInv, TypesOK, core
<1>4. \A i \in DOMAIN notify_queue' :
          \/ i \in DOMAIN notify_queue /\ notify_queue'[i] = notify_queue[i]
          \/ i = Len(notify_queue) + 1 /\ notify_queue'[i] = n
  BY <1>2, AppendIndex
<1>5. main \in {"modal", "panels"} => \A i \in DOMAIN notify_queue : ~IsDecision(notify_queue[i])
  BY <1>2 DEF IInv, QueueOK
<1>6. UNCHANGED <<upload_modal, project, unloaded_project>>
  BY DEF core
<1>7. QueueOK'
  <2>1. ASSUME NEW i \in DOMAIN notify_queue'
        PROVE  /\ notify_queue'[i].kind = "edit" => notify_queue'[i].id = project.id
               /\ IsDecision(notify_queue'[i]) =>
                      /\ notify_queue'[i].id = upload_modal /\ upload_modal # None
                      /\ main' # "modal"
               /\ notify_queue'[i].kind = "complete" => AllMapped(unloaded_project)
    BY <1>4, <1>5 DEF IInv, QueueOK
  <2>2. ASSUME NEW i \in DOMAIN notify_queue', NEW j \in DOMAIN notify_queue',
               IsDecision(notify_queue'[i]), IsDecision(notify_queue'[j])
        PROVE  i = j
    BY <1>4, <1>5, <2>2 DEF IInv, QueueOK
  <2>3. QED
    BY <1>6, <2>1, <2>2 DEF QueueOK, IsDecision, AllMapped
<1>8. QED
  BY <1>1, <1>3, <1>7 DEF IInv, CoreOK

\* The frame goes on, and nobody notifies anybody.
LEMMA QuietStep ==
    ASSUME IInv, UNCHANGED core, UNCHANGED <<notify_queue, paths>>,
           main # "completing", main' # "completing",
           main' = "results" => notify_queue = <<>>,
           main' = "panels" => main = "results",
           main' = "modal" => main = "panels"
    PROVE  IInv'
<1>1. CoreOK'
  BY CoreSame DEF IInv, CoreOK
<1>2. TypesOK'
  BY DEF IInv, TypesOK, core
<1>3. QueueOK'
  BY DEF IInv, QueueOK, IsDecision, AllMapped, core
<1>4. QED
  BY <1>1, <1>2, <1>3 DEF IInv, CoreOK

LEMMA UserStep ==
    ASSUME IInv, UNCHANGED native,
           \/ BeginFrame \/ NotificationsDone \/ ResultsDone \/ SkipDraw \/ DrawPanels
           \/ DrawUploadModal \/ DrawErrorModal \/ PressDismiss
           \/ \E external \in Externals : PressUpload(external)
    PROVE  IInv'
<1> USE DEF core, Goto, held, ui, worker, user
<1>1. /\ UNCHANGED core /\ UNCHANGED <<notify_queue, paths>>
      /\ main # "completing" /\ main' # "completing"
      /\ main' = "results" => notify_queue = <<>>
      /\ main' = "panels" => main = "results"
      /\ main' = "modal" => main = "panels"
  <2>1. CASE BeginFrame \/ NotificationsDone \/ ResultsDone
    BY <2>1 DEF BeginFrame, NotificationsDone, ResultsDone
  <2>2. CASE SkipDraw \/ DrawPanels \/ DrawUploadModal
    BY <2>2 DEF SkipDraw, DrawPanels, DrawUploadModal
  <2>3. CASE DrawErrorModal \/ PressDismiss
    BY <2>3 DEF DrawErrorModal, PressDismiss
  <2>4. CASE \E external \in Externals : PressUpload(external)
    BY <2>4 DEF PressUpload, chooseFile
  <2>5. QED
    BY <2>1, <2>2, <2>3, <2>4
<1>2. QED
  BY <1>1, QuietStep

LEMMA CallbackStep ==
    ASSUME IInv, UNCHANGED native,
           \/ \E file \in ProjectFiles : SelectProject(file)
           \/ \E id \in Ids, external \in Externals : AnswerChooser(id, external)
           \/ EditProject \/ PressCancel \/ PressContinue
    PROVE  IInv'
<1> USE DEF core, Goto, held, ui, worker, user
<1>1. ASSUME NEW file \in ProjectFiles, SelectProject(file) PROVE IInv'
  <2> DEFINE n == [kind |-> "select", file |-> file]
  <2>1. n \in Notes /\ n.kind = "select" /\ ~IsDecision(n)
    BY DEF Notes, IsDecision
  <2>2. paths' \in Paths \cup {None} /\ UNCHANGED core /\ Notify(n) /\ main = "idle" /\ main' = main
    BY <1>1 DEF SelectProject, echomap_on_project_file_picked, IInv, TypesOK
  <2> HIDE DEF n, core
  <2>3. QED
    BY <2>1, <2>2, NotifyStep
<1>2. ASSUME NEW id \in Ids, NEW external \in Externals, AnswerChooser(id, external) PROVE IInv'
  <2> DEFINE n == [kind |-> "register", id |-> id, external |-> external, internal |-> paths']
  <2>1. paths' \in Paths /\ id \in Nat
    BY <1>2, BoundsAssumption DEF AnswerChooser, copyFileToEmscriptenFS, None, IInv, TypesOK, Ids
  <2>2. n \in Notes /\ n.kind = "register" /\ ~IsDecision(n)
    BY <2>1 DEF Notes, IsDecision
  <2>3. paths' \in Paths \cup {None} /\ UNCHANGED core /\ Notify(n) /\ main = "idle" /\ main' = main
    BY <1>2, <2>1 DEF AnswerChooser, echomap_on_register_vfs_mapping
  <2> HIDE DEF n, core
  <2>4. QED
    BY <2>2, <2>3, NotifyStep
<1>3. CASE EditProject
  <2> DEFINE n == [kind |-> "edit", id |-> project.id]
  <2>1. n \in Notes /\ n.kind = "edit" /\ ~IsDecision(n) /\ n.id = project.id
    BY DEF Notes, IsDecision, IInv, TypesOK, AnyProject
  <2>2. paths' \in Paths \cup {None} /\ UNCHANGED core /\ Notify(n) /\ main = "panels" /\ main' = "modal"
    BY <1>3 DEF EditProject, IInv, TypesOK
  <2> HIDE DEF n, core
  <2>3. QED
    BY <2>1, <2>2, NotifyStep
<1>4. CASE PressCancel
  <2> DEFINE n == [kind |-> "cancel", id |-> upload_modal]
  <2>1. n \in Notes /\ n.kind = "cancel" /\ n.id = upload_modal
    BY DEF Notes, IInv, TypesOK
  <2>2. /\ paths' \in Paths \cup {None} /\ UNCHANGED core /\ Notify(n) /\ main = "modal" /\ main' = "error"
        /\ upload_modal # None
    BY <1>4 DEF PressCancel, UploadDrawn, IInv, TypesOK
  <2> HIDE DEF n, core
  <2>3. QED
    BY <2>1, <2>2, NotifyStep
<1>5. CASE PressContinue
  <2> DEFINE n == [kind |-> "complete", id |-> upload_modal]
  <2>1. n \in Notes /\ n.kind = "complete" /\ n.id = upload_modal
    BY DEF Notes, IInv, TypesOK
  <2>2. /\ paths' \in Paths \cup {None} /\ UNCHANGED core /\ Notify(n) /\ main = "modal" /\ main' = "error"
        /\ upload_modal # None /\ AllMapped(unloaded_project)
    BY <1>5 DEF PressContinue, UploadDrawn, IInv, TypesOK
  <2> HIDE DEF n, core
  <2>3. QED
    BY <2>1, <2>2, NotifyStep
<1>6. QED
  BY <1>1, <1>2, <1>3, <1>4, <1>5

------------------------------------------------------------------------------
(* The steps that handle a notification *)

\* The newest notification is gone, and with it the decision if it was one.
LEMMA OlderQueue ==
    ASSUME IInv, notify_queue # <<>>, notify_queue' = Older,
           main' = "notifications", main \in {"notifications", "completing"},
           project' = project,
           \/ UNCHANGED <<upload_modal, unloaded_project>>
           \/ IsDecision(Newest)
           \/ upload_modal' = upload_modal /\ (AllMapped(unloaded_project) => AllMapped(unloaded_project)')
    PROVE  QueueOK' /\ notify_queue' \in Seq(Notes) /\ Newest \in Notes
<1>1. notify_queue \in Seq(Notes)
  BY DEF IInv, TypesOK
<1>2. /\ notify_queue' \in Seq(Notes) /\ Newest \in Notes
      /\ Len(notify_queue) \in DOMAIN notify_queue
      /\ \A i \in DOMAIN notify_queue' :
             /\ i \in DOMAIN notify_queue /\ i # Len(notify_queue)
             /\ notify_queue'[i] = notify_queue[i]
  BY <1>1, FrontIndex DEF Older, Newest
<1>3. ASSUME IsDecision(Newest), NEW i \in DOMAIN notify_queue'
      PROVE  ~IsDecision(notify_queue'[i]) /\ notify_queue'[i].kind # "complete"
  <2>1. i \in DOMAIN notify_queue /\ i # Len(notify_queue) /\ notify_queue'[i] = notify_queue[i]
    BY <1>2
  <2>2. ~IsDecision(notify_queue[i])
    BY <1>2, <1>3, <2>1 DEF IInv, QueueOK, Newest
  <2>3. QED
    BY <2>1, <2>2 DEF IsDecision
<1>4. ASSUME NEW i \in DOMAIN notify_queue'
      PROVE  /\ notify_queue'[i].kind = "edit" => notify_queue'[i].id = project'.id
             /\ IsDecision(notify_queue'[i]) =>
                    notify_queue'[i].id = upload_modal' /\ upload_modal' # None
             /\ notify_queue'[i].kind = "complete" => AllMapped(unloaded_project')
  <2>1. /\ i \in DOMAIN notify_queue /\ notify_queue'[i] = notify_queue[i]
        /\ notify_queue[i].kind = "edit" => notify_queue[i].id = project.id
        /\ IsDecision(notify_queue[i]) =>
               notify_queue[i].id = upload_modal /\ upload_modal # None
        /\ notify_queue[i].kind = "complete" => AllMapped(unloaded_project)
    BY <1>2 DEF IInv, QueueOK
  <2>2. CASE IsDecision(Newest)
    BY <1>3, <2>1, <2>2
  <2>3. CASE UNCHANGED <<upload_modal, unloaded_project>>
    BY <2>1, <2>3
  <2>4. CASE upload_modal' = upload_modal /\ (AllMapped(unloaded_project) => AllMapped(unloaded_project)')
    BY <2>1, <2>4
  <2>5. QED
    BY <2>2, <2>3, <2>4
<1>5. ASSUME NEW i \in DOMAIN notify_queue', NEW j \in DOMAIN notify_queue',
             IsDecision(notify_queue'[i]), IsDecision(notify_queue'[j])
      PROVE  i = j
  BY <1>2, <1>5 DEF IInv, QueueOK
<1>6. QueueOK'
  BY <1>4, <1>5 DEF QueueOK, IsDecision, AllMapped
<1>7. QED
  BY <1>2, <1>6

\* One more task: a project, or a file that is nowhere under way and whose turn is over.
LEMMA AppendTask ==
    ASSUME IInv, NEW t \in AnyTask, tasks' = Append(tasks, t),
           UNCHANGED <<native, project, unloaded_project, upload_modal, results, ids, cancelled>>,
           main' = main,
           loader' \in [id : Nat, todo : SUBSET Externals],
           loader'.id = loader.id, loader'.todo \subseteq loader.todo, todo' \subseteq todo,
           t.kind = "signals" =>
               /\ FileOK(t)
               /\ \A i \in DOMAIN tasks : tasks[i].kind = "signals" => ~SameFile(tasks[i], t)
               /\ \A i \in DOMAIN results : results[i].kind = "signals" => ~SameFile(results[i], t)
               /\ t.id = project.id => t.external \notin project.signals
               /\ t.id = loader.id => t.external \notin loader'.todo
               /\ main = "completing" /\ t.id = unloaded_project.id => t.external \notin todo'
    PROVE  CoreOK' /\ tasks' \in Seq(AnyTask)
<1>1. tasks \in Seq(AnyTask) /\ loader \in [id : Nat, todo : SUBSET Externals]
  BY DEF IInv, TypesOK
<1>2. /\ tasks' \in Seq(AnyTask) /\ tasks' # <<>>
      /\ tasks # <<>> => Head(tasks') = Head(tasks)
      /\ Len(tasks) \in Nat /\ DOMAIN tasks = 1..Len(tasks)
      /\ \A i \in DOMAIN tasks' :
             \/ i \in DOMAIN tasks /\ tasks'[i] = tasks[i] /\ i < Len(tasks) + 1
             \/ i = Len(tasks) + 1 /\ tasks'[i] = t
  BY <1>1, AppendIndex
<1>3. LoaderOK'
  <2>1. loader'.id = None => loader' = Idle
    BY <1>1 DEF IInv, LoaderOK, Idle
  <2>2. QED
    BY <1>2, <2>1 DEF IInv, LoaderOK
<1>4. PlacesOK' /\ ModalOK' /\ LoadedOK' /\ OrderOK'
  BY DEF IInv, PlacesOK, ModalOK, LoadedOK, OrderOK
<1>5. FilesOK'
  <2>1. \A x : FileOK(x) => FileOK(x)'
    BY DEF FileOK
  <2>2. ASSUME NEW i \in DOMAIN tasks', tasks'[i].kind = "signals" PROVE FileOK(tasks'[i])
    BY <1>2, <2>2 DEF IInv, FilesOK
  <2>3. \A i \in DOMAIN tasks' : tasks'[i].kind = "signals" => FileOK(tasks[i])'
    BY <2>2 DEF FileOK
  <2>4. \A i \in DOMAIN results :
            results[i].kind = "signals" => FileOK(results[i])' /\ results[i].id # loader'.id
    BY DEF IInv, FilesOK, FileOK
  <2>5. QED
    BY <2>3, <2>4 DEF FilesOK
<1>6. OnceOK'
  <2>1. ASSUME NEW i \in DOMAIN tasks', NEW j \in DOMAIN tasks',
               tasks'[i].kind = "signals", tasks'[j].kind = "signals", i # j
        PROVE  ~SameFile(tasks'[i], tasks'[j])
    BY <1>2, <2>1 DEF IInv, OnceOK, SameFile
  <2>2. ASSUME NEW i \in DOMAIN tasks', NEW j \in DOMAIN results,
               tasks'[i].kind = "signals", results[j].kind = "signals"
        PROVE  ~SameFile(tasks'[i], results[j])
    BY <1>2, <2>2 DEF IInv, OnceOK, SameFile
  <2>3. ASSUME NEW i \in DOMAIN tasks', tasks'[i].kind = "signals"
        PROVE  /\ tasks'[i].id = project.id => tasks'[i].external \notin project.signals
               /\ tasks'[i].id = loader.id => tasks'[i].external \notin loader'.todo
               /\ main = "completing" /\ tasks'[i].id = unloaded_project.id =>
                      tasks'[i].external \notin todo'
    BY <1>2, <2>3 DEF IInv, OnceOK
  <2>4. ASSUME NEW i \in DOMAIN results, results[i].kind = "signals"
        PROVE  /\ results[i].id = project.id => results[i].external \notin project.signals
               /\ main = "completing" /\ results[i].id = unloaded_project.id =>
                      results[i].external \notin todo'
    BY <2>4 DEF IInv, OnceOK
  <2>5. \A i, j \in DOMAIN results :
            results[i].kind = "signals" /\ results[j].kind = "signals" /\ i # j =>
                ~SameFile(results[i], results[j])
    BY DEF IInv, OnceOK
  <2>6. QED
    BY <2>1, <2>2, <2>3, <2>4, <2>5 DEF OnceOK, SameFile
<1>7. QED
  BY <1>2, <1>3, <1>4, <1>5, <1>6 DEF CoreOK

LEMMA ProjectSelectedStep ==
    ASSUME IInv, UNCHANGED native, HandleProjectSelected
    PROVE  IInv'
<1> DEFINE t == [kind |-> "project", file |-> Newest.file]
<1>1. /\ notify_queue # <<>> /\ Newest.kind = "select" /\ notify_queue' = Older
      /\ main = "notifications" /\ main' = main /\ tasks' = Append(tasks, t)
      /\ UNCHANGED <<native, todo, project, unloaded_project, upload_modal, results, loader, ids,
                     cancelled, paths>>
  BY DEF HandleProjectSelected, Handling, held, ui, user
<1>2. QueueOK' /\ notify_queue' \in Seq(Notes) /\ Newest \in Notes
  BY <1>1, OlderQueue
<1>3. t \in AnyTask /\ t.kind = "project"
  BY <1>1, <1>2 DEF Notes, AnyTask
<1> HIDE DEF t
<1>4. CoreOK' /\ tasks' \in Seq(AnyTask)
  <2>1. loader \in [id : Nat, todo : SUBSET Externals]
    BY DEF IInv, TypesOK
  <2>2. QED
    BY <1>1, <1>3, <2>1, AppendTask
<1>5. TypesOK'
  BY <1>1, <1>2, <1>4 DEF IInv, TypesOK
<1>6. QED
  BY <1>2, <1>4, <1>5 DEF IInv, CoreOK

LEMMA EditStep ==
    ASSUME IInv, UNCHANGED native, HandleEdit
    PROVE  IInv'
<1>1. /\ notify_queue # <<>> /\ notify_queue' = Older /\ main = "notifications" /\ main' = main
      /\ UNCHANGED core /\ UNCHANGED paths
  BY DEF HandleEdit, Handling, held, ui, worker, user, core
<1>2. QueueOK' /\ notify_queue' \in Seq(Notes)
  BY <1>1, OlderQueue DEF core
<1>3. CoreOK'
  BY <1>1, CoreSame DEF IInv, CoreOK
<1>4. TypesOK'
  BY <1>1, <1>2 DEF IInv, TypesOK, core
<1>5. QED
  BY <1>2, <1>3, <1>4 DEF IInv, CoreOK

\* A mapping is registered only where there is a path.
LEMMA RegisterStep ==
    ASSUME IInv, UNCHANGED native, HandleRegisterVFSMapping
    PROVE  IInv'
<1> DEFINE u == unloaded_project
<1>1. /\ notify_queue # <<>> /\ Newest.kind = "register" /\ notify_queue' = Older
      /\ main = "notifications" /\ main' = main
      /\ UNCHANGED <<native, todo, project, upload_modal, tasks, results, loader, ids,
                     cancelled, paths>>
      /\ unloaded_project' =
             IF Newest.id = u.id /\ Newest.external \in DOMAIN u.unloaded_signals
             THEN [u EXCEPT !.unloaded_signals[Newest.external] = Newest.internal] ELSE u
  BY DEF HandleRegisterVFSMapping, Handling, ui, worker, user
<1>2. Newest \in Notes
  BY <1>1, FrontIndex DEF IInv, TypesOK, Newest
<1>3. Newest.internal \in Paths
  BY <1>1, <1>2 DEF Notes
<1>4. /\ unloaded_project' \in AnyProject /\ unloaded_project'.id = u.id
      /\ unloaded_project'.signals = u.signals
      /\ AllMapped(u) => AllMapped(unloaded_project')
  <2>1. u \in AnyProject
    BY DEF IInv, TypesOK
  <2>2. PICK S \in SUBSET Externals : u.unloaded_signals \in [S -> Paths \cup {None}]
    BY <2>1 DEF AnyProject, Mappings
  <2> DEFINE f == u.unloaded_signals
             g == [f EXCEPT ![Newest.external] = Newest.internal]
  <2>3. g \in [S -> Paths \cup {None}] /\ g \in Mappings /\ DOMAIN g = DOMAIN f
    BY <1>3, <2>2 DEF Mappings
  <2>4. (\A e \in DOMAIN f : f[e] # None) => (\A e \in DOMAIN g : g[e] # None)
    BY <1>3, <2>2 DEF None, Paths
  <2>5. unloaded_project' = u \/ unloaded_project' = [u EXCEPT !.unloaded_signals = g]
    BY <1>1, <2>1
  <2>6. CASE unloaded_project' = u
    BY <2>1, <2>6
  <2>7. CASE unloaded_project' = [u EXCEPT !.unloaded_signals = g]
    <3> HIDE DEF g
    <3>1. /\ unloaded_project' \in AnyProject /\ unloaded_project'.id = u.id
          /\ unloaded_project'.signals = u.signals /\ unloaded_project'.unloaded_signals = g
      BY <2>1, <2>3, <2>7 DEF AnyProject
    <3>2. QED
      BY <2>3, <2>4, <3>1 DEF AllMapped
  <2>8. QED
    BY <2>5, <2>6, <2>7
<1>5. QueueOK' /\ notify_queue' \in Seq(Notes)
  BY <1>1, <1>4, OlderQueue DEF AllMapped
<1>6. LoaderOK' /\ PlacesOK' /\ ModalOK'
  BY <1>1, <1>4 DEF IInv, LoaderOK, PlacesOK, ModalOK
<1>7. LoadedOK' /\ OrderOK'
  BY <1>1, <1>4 DEF IInv, LoadedOK, OrderOK
<1>8. FilesOK' /\ OnceOK'
  BY <1>1, <1>4 DEF IInv, FilesOK, FileOK, OnceOK
<1>9. TypesOK'
  BY <1>1, <1>4, <1>5 DEF IInv, TypesOK
<1>10. QED
  BY <1>5, <1>6, <1>7, <1>8, <1>9 DEF IInv

\* A decision that is handled is about the project in the modal, none of whose
\* files is under way.
LEMMA DecisionFacts ==
    ASSUME IInv, notify_queue # <<>>, IsDecision(Newest)
    PROVE  /\ Newest.id = upload_modal /\ upload_modal # None
           /\ unloaded_project.id = upload_modal /\ ~native
           /\ Newest.kind = "complete" => AllMapped(unloaded_project)
           /\ main # "completing" =>
                  /\ \A i \in DOMAIN tasks : tasks[i].kind = "signals" => tasks[i].id # upload_modal
                  /\ \A i \in DOMAIN results :
                         results[i].kind = "signals" => results[i].id # upload_modal
<1>1. Len(notify_queue) \in DOMAIN notify_queue
  BY FrontIndex DEF IInv, TypesOK
<1>2. Newest.id = upload_modal /\ upload_modal # None
      /\ (Newest.kind = "complete" => AllMapped(unloaded_project))
  BY <1>1 DEF IInv, QueueOK, Newest
<1>3. QED
  BY <1>2 DEF IInv, ModalOK, FilesOK, FileOK

LEMMA CancelStep ==
    ASSUME IInv, UNCHANGED native, HandleCancelProjectLoad
    PROVE  IInv'
<1>1. /\ notify_queue # <<>> /\ Newest.kind = "cancel" /\ notify_queue' = Older
      /\ main = "notifications" /\ main' = main
      /\ UNCHANGED <<native, todo, project, tasks, results, loader, ids, paths>>
  BY DEF HandleCancelProjectLoad, Handling, worker, user
<1>2. IsDecision(Newest)
  BY <1>1 DEF IsDecision
<1>3. /\ Newest.id = upload_modal /\ upload_modal # None /\ unloaded_project.id = upload_modal
      /\ \A i \in DOMAIN tasks : tasks[i].kind = "signals" => tasks[i].id # upload_modal
      /\ \A i \in DOMAIN results : results[i].kind = "signals" => results[i].id # upload_modal
  BY <1>1, <1>2, DecisionFacts
<1>4. upload_modal' = None /\ unloaded_project' = NoProject /\ cancelled' = cancelled \cup {upload_modal}
  BY <1>3 DEF HandleCancelProjectLoad
<1>5. NoProject.id = None /\ NoProject.signals = {}
  BY DEF NoProject
<1>6. QueueOK' /\ notify_queue' \in Seq(Notes)
  BY <1>1, <1>2, OlderQueue
<1>7. LoaderOK' /\ ModalOK'
  BY <1>1, <1>4 DEF IInv, LoaderOK, ModalOK
<1>8. PlacesOK'
  BY <1>1, <1>3, <1>4, <1>5 DEF IInv, PlacesOK, TypesOK, None
<1>9. LoadedOK' /\ OrderOK'
  BY <1>1, <1>3, <1>4, <1>5 DEF IInv, LoadedOK, OrderOK
<1>10. FilesOK'
  BY <1>1, <1>3, <1>4 DEF IInv, FilesOK, FileOK
<1>11. OnceOK'
  BY <1>1 DEF IInv, OnceOK
<1>12. TypesOK'
  BY <1>1, <1>4, <1>6, NoProjectType DEF IInv, TypesOK, None
<1>13. QED
  BY <1>6, <1>7, <1>8, <1>9, <1>10, <1>11, <1>12 DEF IInv

\* The loop begins with a file for every one that is mapped, which are all.
LEMMA CompleteStep ==
    ASSUME IInv, UNCHANGED native, HandleCompleteProjectLoad
    PROVE  IInv'
<1>1. /\ notify_queue # <<>> /\ Newest.kind = "complete" /\ main = "notifications"
      /\ UNCHANGED <<native, project, unloaded_project, upload_modal, tasks, results, loader, ids,
                     cancelled, paths>>
  BY DEF HandleCompleteProjectLoad, held, ui, worker, user
<1>2. IsDecision(Newest)
  BY <1>1 DEF IsDecision
<1>3. /\ Newest.id = upload_modal /\ upload_modal # None /\ unloaded_project.id = upload_modal
      /\ \A i \in DOMAIN tasks : tasks[i].kind = "signals" => tasks[i].id # upload_modal
      /\ \A i \in DOMAIN results : results[i].kind = "signals" => results[i].id # upload_modal
  BY <1>1, <1>2, DecisionFacts
<1>4. /\ main' = "completing" /\ notify_queue' = notify_queue
      /\ todo' = DOMAIN unloaded_project.unloaded_signals
  BY <1>3 DEF HandleCompleteProjectLoad
<1>5. todo' \subseteq Externals
  BY <1>4 DEF IInv, TypesOK, AnyProject, Mappings
<1>6. TypesOK'
  BY <1>1, <1>4, <1>5 DEF IInv, TypesOK
<1>7. LoaderOK' /\ PlacesOK' /\ ModalOK'
  BY <1>1 DEF IInv, LoaderOK, PlacesOK, ModalOK
<1>8. LoadedOK' /\ OrderOK'
  BY <1>1 DEF IInv, LoadedOK, OrderOK
<1>9. FilesOK'
  BY <1>1, <1>4 DEF IInv, FilesOK, FileOK
<1>10. OnceOK'
  BY <1>1, <1>3 DEF IInv, OnceOK
<1>11. QueueOK'
  BY <1>1, <1>4 DEF IInv, QueueOK, Newest, IsDecision, AllMapped
<1>12. QED
  BY <1>6, <1>7, <1>8, <1>9, <1>10, <1>11 DEF IInv

\* Every file in the loop is mapped, so the exception is never thrown.
LEMMA SubmitSignalFileStep ==
    ASSUME IInv, UNCHANGED native, NEW external \in Externals, SubmitSignalFile(external)
    PROVE  IInv'
<1> DEFINE t == [kind |-> "signals", id |-> unloaded_project.id, external |-> external]
<1>1. main = "completing" /\ external \in todo
  BY DEF SubmitSignalFile
<1>2. /\ notify_queue # <<>> /\ Newest.kind = "complete"
      /\ todo \subseteq DOMAIN unloaded_project.unloaded_signals
  BY <1>1 DEF IInv, QueueOK
<1>3. IsDecision(Newest)
  BY <1>2 DEF IsDecision
<1>4. /\ upload_modal # None /\ unloaded_project.id = upload_modal /\ ~native
      /\ AllMapped(unloaded_project)
  BY <1>2, <1>3, DecisionFacts
<1>5. unloaded_project.unloaded_signals[external] # None
  BY <1>1, <1>2, <1>4 DEF AllMapped
<1>6. /\ tasks' = Append(tasks, t) /\ todo' = todo \ {external} /\ main' = main
      /\ UNCHANGED <<native, notify_queue, project, unloaded_project, upload_modal, results,
                     loader, ids, cancelled, paths>>
  BY <1>1, <1>5 DEF SubmitSignalFile, held, user
<1>7. /\ t \in AnyTask /\ t.id = unloaded_project.id /\ t.external = external
      /\ loader \in [id : Nat, todo : SUBSET Externals]
  BY DEF AnyTask, FileJobs, IInv, TypesOK, AnyProject
<1> HIDE DEF t
<1>8. FileOK(t)
  BY <1>1, <1>4, <1>7 DEF FileOK, IInv, PlacesOK, LoadedOK, LoaderOK
<1>9. /\ \A i \in DOMAIN tasks : tasks[i].kind = "signals" => ~SameFile(tasks[i], t)
      /\ \A i \in DOMAIN results : results[i].kind = "signals" => ~SameFile(results[i], t)
  BY <1>1, <1>7 DEF SameFile, IInv, OnceOK
<1>10. t.id # project.id /\ t.id # loader.id /\ t.external \notin todo'
  BY <1>4, <1>6, <1>7 DEF IInv, PlacesOK
<1>11. CoreOK' /\ tasks' \in Seq(AnyTask)
  BY <1>6, <1>7, <1>8, <1>9, <1>10, AppendTask
<1>12. QueueOK'
  BY <1>1, <1>6 DEF IInv, QueueOK, Newest, IsDecision, AllMapped
<1>13. TypesOK'
  BY <1>6, <1>11 DEF IInv, TypesOK
<1>14. QED
  BY <1>11, <1>12, <1>13 DEF IInv, CoreOK

LEMMA FinishCompleteStep ==
    ASSUME IInv, UNCHANGED native, FinishComplete
    PROVE  IInv'
<1>1. /\ main = "completing" /\ main' = "notifications" /\ upload_modal' = None
      /\ notify_queue' = Older
      /\ UNCHANGED <<native, todo, project, unloaded_project, tasks, results, loader, ids,
                     cancelled, paths>>
  BY DEF FinishComplete, Goto, held, worker, user
<1>2. notify_queue # <<>> /\ IsDecision(Newest)
  BY <1>1 DEF IInv, QueueOK, IsDecision
<1>3. QueueOK' /\ notify_queue' \in Seq(Notes)
  BY <1>1, <1>2, OlderQueue
<1>4. LoaderOK' /\ PlacesOK' /\ ModalOK'
  BY <1>1 DEF IInv, LoaderOK, PlacesOK, ModalOK
<1>5. LoadedOK' /\ OrderOK'
  BY <1>1 DEF IInv, LoadedOK, OrderOK
<1>6. FilesOK' /\ OnceOK'
  BY <1>1 DEF IInv, FilesOK, FileOK, OnceOK
<1>7. TypesOK'
  BY <1>1, <1>3 DEF IInv, TypesOK, None
<1>8. QED
  BY <1>3, <1>4, <1>5, <1>6, <1>7 DEF IInv

------------------------------------------------------------------------------
(* The steps that receive a result *)

\* The results that are left come after the one that is received.
LEMMA Received ==
    ASSUME IInv, results # <<>>, results' = Tail(results)
    PROVE  /\ results' \in Seq(AnyResult) /\ Head(results) \in AnyResult
           /\ 1 \in DOMAIN results /\ Head(results) = results[1]
           /\ \A i \in DOMAIN results' :
                  i \in Nat /\ i + 1 \in DOMAIN results /\ i + 1 > 1 /\ results'[i] = results[i + 1]
  BY TailIndex DEF IInv, TypesOK

\* What is left of the results is as it was, whoever gets the one that is received.
LEMMA OrderReceived ==
    ASSUME IInv, results # <<>>, results' = Tail(results)
    PROVE  OrderOK'
<1>1. \A i \in DOMAIN results' :
          i \in Nat /\ i + 1 \in DOMAIN results /\ results'[i] = results[i + 1]
  BY Received
<1>2. \A i, j \in DOMAIN results' : i < j => i + 1 < j + 1
  BY <1>1
<1>3. QED
  BY <1>1, <1>2 DEF IInv, OrderOK

\* A result that is received and changes no project.
LEMMA DropResult ==
    ASSUME IInv, results # <<>>, results' = Tail(results), main = "results", main' # "completing",
           UNCHANGED <<native, todo, project, unloaded_project, upload_modal, tasks, loader, ids,
                       cancelled>>
    PROVE  CoreOK' /\ results' \in Seq(AnyResult)
<1>1. /\ results' \in Seq(AnyResult)
      /\ \A i \in DOMAIN results' :
             i \in Nat /\ i + 1 \in DOMAIN results /\ results'[i] = results[i + 1]
  BY Received
<1>2. \A i, j \in DOMAIN results' : i # j => i + 1 # j + 1
  BY <1>1
<1>3. LoaderOK' /\ PlacesOK' /\ ModalOK'
  BY DEF IInv, LoaderOK, PlacesOK, ModalOK
<1>4. LoadedOK'
  BY <1>1, <1>2 DEF IInv, LoadedOK
<1>5. FilesOK'
  BY <1>1 DEF IInv, FilesOK, FileOK
<1>6. OnceOK'
  BY <1>1, <1>2 DEF IInv, OnceOK, SameFile
<1>7. QED
  BY <1>1, <1>3, <1>4, <1>5, <1>6, OrderReceived DEF CoreOK

LEMMA DropStep ==
    ASSUME IInv, UNCHANGED native, IgnoreLoadProject \/ HandleError \/ DereferenceNull
    PROVE  IInv'
<1>1. /\ results # <<>> /\ results' = Tail(results) /\ main = "results"
      /\ main' \in {"results", "crashed"}
      /\ UNCHANGED <<native, todo, notify_queue, project, unloaded_project, upload_modal, tasks,
                     loader, ids, cancelled, paths>>
  BY DEF IgnoreLoadProject, HandleError, DereferenceNull, Receiving, publish, held, ui, user
<1>2. CoreOK' /\ results' \in Seq(AnyResult)
  BY <1>1, DropResult
<1>3. notify_queue' = <<>>
  BY <1>1 DEF IInv, QueueOK
<1>4. QueueOK'
  BY <1>1, <1>3 DEF QueueOK
<1>5. TypesOK'
  BY <1>1, <1>2 DEF IInv, TypesOK
<1>6. QED
  BY <1>2, <1>4, <1>5 DEF IInv, CoreOK

\* A project that is received leaves the results for one of the two places.
LEMMA LoadProjectStep ==
    ASSUME IInv, UNCHANGED native, HandleLoadProject
    PROVE  IInv'
<1> DEFINE loaded == Head(results).project
<1>1. /\ results # <<>> /\ results' = Tail(results) /\ Head(results).kind = "project"
      /\ main = "results" /\ main' = main /\ upload_modal = None /\ loaded # NoProject
      /\ UNCHANGED <<native, todo, notify_queue, tasks, loader, ids, cancelled, paths>>
      /\ IF DOMAIN loaded.unloaded_signals # {}
         THEN upload_modal' = loaded.id /\ unloaded_project' = loaded /\ project' = project
         ELSE project' = loaded /\ UNCHANGED <<upload_modal, unloaded_project>>
  BY DEF HandleLoadProject, Receiving, publish, user
<1>2. /\ results' \in Seq(AnyResult) /\ Head(results) \in AnyResult
      /\ 1 \in DOMAIN results /\ Head(results) = results[1]
      /\ \A i \in DOMAIN results' :
             i \in Nat /\ i + 1 \in DOMAIN results /\ i + 1 > 1 /\ results'[i] = results[i + 1]
  BY <1>1, Received
<1>3. \A i \in DOMAIN results' : i + 1 # 1 /\ \A j \in DOMAIN results' : i # j => i + 1 # j + 1
  BY <1>2
<1>4. /\ loaded.id # None /\ loaded.id <= ids
      /\ loaded.id \notin {project.id, unloaded_project.id, loader.id} \cup cancelled
      /\ loaded.signals = {}
      /\ native => DOMAIN loaded.unloaded_signals = {}
  BY <1>1, <1>2 DEF IInv, LoadedOK
<1>5. \A i \in DOMAIN results' :
          results'[i].kind = "project" /\ results'[i].project # NoProject =>
              results'[i].project.id # loaded.id
  BY <1>1, <1>2, <1>3 DEF IInv, LoadedOK
<1>6. ~native =>
          /\ \A i \in DOMAIN tasks : tasks[i].kind = "signals" => tasks[i].id # loaded.id
          /\ \A i \in DOMAIN results : results[i].kind = "signals" => results[i].id # loaded.id
  BY <1>1, <1>2 DEF IInv, FilesOK, FileOK
<1>7. loaded \in AnyProject
  BY <1>1, <1>2 DEF AnyResult, FileJobs
<1> HIDE DEF loaded
<1>8. LoaderOK'
  BY <1>1 DEF IInv, LoaderOK
<1>9. ModalOK'
  BY <1>1, <1>4 DEF ModalOK
<1>10. PlacesOK'
  BY <1>1, <1>4 DEF IInv, PlacesOK
<1>11. LoadedOK'
  <2>1. ASSUME NEW i \in DOMAIN results', results'[i].kind = "project",
               results'[i].project # NoProject
        PROVE  /\ results'[i].project.id # None /\ results'[i].project.id <= ids
               /\ results'[i].project.id \notin
                      {project.id, unloaded_project.id, loader.id, loaded.id} \cup cancelled
               /\ results'[i].project.signals = {}
               /\ native => DOMAIN results'[i].project.unloaded_signals = {}
    BY <1>2, <1>5, <2>1 DEF IInv, LoadedOK
  <2>2. \A i, j \in DOMAIN results' :
            /\ i # j
            /\ results'[i].kind = "project" /\ results'[i].project # NoProject
            /\ results'[j].kind = "project" /\ results'[j].project # NoProject
            => results'[i].project.id # results'[j].project.id
    BY <1>2, <1>3 DEF IInv, LoadedOK
  <2>3. /\ project' \in {project, loaded} /\ unloaded_project' \in {unloaded_project, loaded}
        /\ UNCHANGED <<native, loader, ids, cancelled>>
    BY <1>1
  <2>4. QED
    BY <2>1, <2>2, <2>3 DEF LoadedOK
<1>12. FilesOK'
  BY <1>1, <1>2, <1>4, <1>6 DEF IInv, FilesOK, FileOK
<1>13. OnceOK'
  <2>1. \A i, j \in DOMAIN results' :
            results'[i].kind = "signals" /\ results'[j].kind = "signals" /\ i # j =>
                ~SameFile(results'[i], results'[j])
    BY <1>2, <1>3 DEF IInv, OnceOK, SameFile
  <2>2. \A i \in DOMAIN tasks, j \in DOMAIN results' :
            tasks[i].kind = "signals" /\ results'[j].kind = "signals" =>
                ~SameFile(tasks[i], results'[j])
    BY <1>2 DEF IInv, OnceOK, SameFile
  <2>3. project' = project \/ project'.signals = {}
    BY <1>1, <1>4
  <2>4. QED
    BY <1>1, <1>2, <2>1, <2>2, <2>3 DEF IInv, OnceOK, SameFile
<1>14. notify_queue' = <<>> /\ main' = "results"
  BY <1>1 DEF IInv, QueueOK
<1>15. QueueOK'
  BY <1>14 DEF QueueOK
<1>16. TypesOK'
  BY <1>1, <1>2, <1>7 DEF IInv, TypesOK, AnyProject
<1>17. QED
  BY <1>1, <1>8, <1>9, <1>10, <1>11, <1>12, <1>13, <1>15, <1>16, OrderReceived DEF IInv

LEMMA WithSignalsFacts ==
    ASSUME NEW q \in AnyProject, NEW external \in Externals
    PROVE  /\ WithSignals(q, external) \in AnyProject
           /\ WithSignals(q, external).id = q.id
           /\ WithSignals(q, external).signals = q.signals \cup {external}
<1> DEFINE more == q.signals \cup {external}
<1>1. more \in SUBSET Externals
  BY DEF AnyProject
<1>2. WithSignals(q, external) = [q EXCEPT !.signals = more]
  BY DEF WithSignals, AnyProject
<1> HIDE DEF more
<1>3. /\ WithSignals(q, external) \in AnyProject
      /\ WithSignals(q, external).id = q.id
      /\ WithSignals(q, external).signals = more
  BY <1>1, <1>2 DEF AnyProject
<1>4. QED
  BY <1>3 DEF more

\* The signals of a file reach the project they were loaded for, or none.
LEMMA LoadSignalFileResultStep ==
    ASSUME IInv, UNCHANGED native, HandleLoadSignalFile
    PROVE  IInv'
<1> DEFINE result == Head(results)
<1>1. /\ results # <<>> /\ results' = Tail(results) /\ result.kind = "signals"
      /\ main = "results" /\ main' = main
      /\ UNCHANGED <<native, todo, notify_queue, cancelled, upload_modal, tasks, loader, ids, paths>>
      /\ IF result.id = project.id
         THEN project' = WithSignals(project, result.external) /\ unloaded_project' = unloaded_project
         ELSE IF result.id = unloaded_project.id
         THEN /\ project' = WithSignals(unloaded_project, result.external)
              /\ unloaded_project' = NoProject
         ELSE UNCHANGED <<project, unloaded_project>>
  BY DEF HandleLoadSignalFile, Receiving, publish, ui, user
<1>2. /\ results' \in Seq(AnyResult) /\ result \in AnyResult
      /\ 1 \in DOMAIN results /\ result = results[1]
      /\ \A i \in DOMAIN results' :
             i \in Nat /\ i + 1 \in DOMAIN results /\ i + 1 > 1 /\ results'[i] = results[i + 1]
  BY <1>1, Received
<1>3. \A i \in DOMAIN results' : i + 1 # 1 /\ \A j \in DOMAIN results' : i # j => i + 1 # j + 1
  BY <1>2
<1>4. /\ result.external \in Externals /\ project \in AnyProject /\ unloaded_project \in AnyProject
      /\ result.id # None /\ result.id \notin cancelled /\ result.id # loader.id
      /\ upload_modal # None => result.id # upload_modal
  BY <1>1, <1>2 DEF AnyResult, FileJobs, IInv, TypesOK, FilesOK, FileOK
<1>5. /\ \A i \in DOMAIN results' :
             results'[i].kind = "signals" => ~SameFile(results'[i], result)
      /\ \A i \in DOMAIN tasks : tasks[i].kind = "signals" => ~SameFile(tasks[i], result)
  BY <1>1, <1>2, <1>3 DEF IInv, OnceOK, SameFile
<1> HIDE DEF result
<1>6. notify_queue' = <<>> /\ main' = "results"
  BY <1>1 DEF IInv, QueueOK
<1>7. QueueOK'
  BY <1>6 DEF QueueOK
<1>8. CASE result.id # project.id /\ result.id # unloaded_project.id
  <2>1. UNCHANGED <<project, unloaded_project>>
    BY <1>1, <1>8
  <2>2. CoreOK'
    BY <1>1, <2>1, DropResult
  <2>3. TypesOK'
    BY <1>1, <1>2, <2>1 DEF IInv, TypesOK
  <2>4. QED
    BY <1>7, <2>2, <2>3 DEF IInv, CoreOK
<1>9. CASE result.id = project.id \/ result.id = unloaded_project.id
  <2>1. /\ project' \in AnyProject /\ unloaded_project' \in AnyProject
        /\ project'.id = result.id
        /\ unloaded_project'.id \in {unloaded_project.id, None}
        /\ unloaded_project'.id # result.id
        /\ unloaded_project'.signals = {}
        /\ unloaded_project'.id # unloaded_project.id => result.id = unloaded_project.id
        /\ result.id = project.id => project'.signals = project.signals \cup {result.external}
        /\ result.id # project.id => project'.signals = {result.external}
    <3>1. NoProject.id = None /\ NoProject.signals = {} /\ unloaded_project.signals = {}
      BY DEF NoProject, IInv, PlacesOK
    <3>2. CASE result.id = project.id
      <4>1. unloaded_project.id # result.id
        BY <1>4, <3>2 DEF IInv, PlacesOK
      <4>2. QED
        BY <1>1, <1>4, <3>1, <3>2, <4>1, WithSignalsFacts
    <3>3. CASE result.id # project.id
      BY <1>1, <1>4, <1>9, <3>1, <3>3, NoProjectType, WithSignalsFacts
    <3>4. QED
      BY <3>2, <3>3
  <2>2. ModalOK'
    BY <1>1, <1>4, <2>1 DEF IInv, ModalOK
  <2>3. LoaderOK'
    BY <1>1 DEF IInv, LoaderOK
  <2>4. PlacesOK'
    <3>1. project'.id <= ids /\ unloaded_project'.id <= ids
      BY <1>9, <2>1 DEF IInv, PlacesOK, TypesOK, None
    <3>2. \A id \in cancelled : id # None /\ id <= ids /\ id \notin {project'.id, unloaded_project'.id}
      BY <1>4, <2>1 DEF IInv, PlacesOK
    <3>3. loader.id # None => loader.id \notin {project'.id, unloaded_project'.id} \cup cancelled
      BY <1>4, <2>1 DEF IInv, PlacesOK
    <3>4. QED
      BY <1>1, <2>1, <3>1, <3>2, <3>3 DEF PlacesOK
  <2>5. LoadedOK'
    <3>1. ASSUME NEW i \in DOMAIN results', results'[i].kind = "project",
                 results'[i].project # NoProject
          PROVE  /\ results'[i].project.id # None /\ results'[i].project.id <= ids
                 /\ results'[i].project.id \notin
                        {project.id, unloaded_project.id, loader.id} \cup cancelled
                 /\ results'[i].project.signals = {}
                 /\ native => DOMAIN results'[i].project.unloaded_signals = {}
      BY <1>2, <3>1 DEF IInv, LoadedOK
    <3>2. \A i, j \in DOMAIN results' :
              /\ i # j
              /\ results'[i].kind = "project" /\ results'[i].project # NoProject
              /\ results'[j].kind = "project" /\ results'[j].project # NoProject
              => results'[i].project.id # results'[j].project.id
      BY <1>2, <1>3 DEF IInv, LoadedOK
    <3>3. project'.id \in {project.id, unloaded_project.id}
      BY <1>9, <2>1
    <3>4. QED
      BY <1>1, <2>1, <3>1, <3>2, <3>3 DEF LoadedOK
  <2>6. FilesOK'
    BY <1>1, <1>2 DEF IInv, FilesOK, FileOK
  <2>7. OnceOK'
    <3>1. \A i, j \in DOMAIN results' :
              results'[i].kind = "signals" /\ results'[j].kind = "signals" /\ i # j =>
                  ~SameFile(results'[i], results'[j])
      BY <1>2, <1>3 DEF IInv, OnceOK, SameFile
    <3>2. \A i \in DOMAIN tasks, j \in DOMAIN results' :
              tasks[i].kind = "signals" /\ results'[j].kind = "signals" =>
                  ~SameFile(tasks[i], results'[j])
      BY <1>2 DEF IInv, OnceOK, SameFile
    <3>3. ASSUME NEW i \in DOMAIN tasks, tasks[i].kind = "signals"
          PROVE  /\ tasks[i].id = project'.id => tasks[i].external \notin project'.signals
                 /\ tasks[i].id = loader.id => tasks[i].external \notin loader.todo
      BY <1>5, <2>1, <3>3 DEF IInv, OnceOK, SameFile
    <3>4. ASSUME NEW i \in DOMAIN results', results'[i].kind = "signals"
          PROVE  results'[i].id = project'.id => results'[i].external \notin project'.signals
      BY <1>2, <1>5, <2>1, <3>4 DEF IInv, OnceOK, SameFile
    <3>5. \A i, j \in DOMAIN tasks :
              tasks[i].kind = "signals" /\ tasks[j].kind = "signals" /\ i # j =>
                  ~SameFile(tasks[i], tasks[j])
      BY DEF IInv, OnceOK
    <3>6. main' # "completing" /\ UNCHANGED <<tasks, loader>>
      BY <1>1
    <3>7. /\ \A i, j \in DOMAIN results' :
                 results'[i].kind = "signals" /\ results'[j].kind = "signals" /\ i # j =>
                     ~SameFile(results[i], results[j])'
          /\ \A i \in DOMAIN tasks, j \in DOMAIN results' :
                 tasks[i].kind = "signals" /\ results'[j].kind = "signals" =>
                     ~SameFile(tasks[i], results[j])'
          /\ \A i, j \in DOMAIN tasks :
                 tasks[i].kind = "signals" /\ tasks[j].kind = "signals" /\ i # j =>
                     ~SameFile(tasks[i], tasks[j])'
      BY <3>1, <3>2, <3>5, <3>6 DEF SameFile
    <3>8. QED
      BY <3>3, <3>4, <3>6, <3>7 DEF OnceOK
  <2>8. TypesOK'
    BY <1>1, <1>2, <2>1 DEF IInv, TypesOK
  <2>9. QED
    BY <1>1, <1>7, <2>2, <2>3, <2>4, <2>5, <2>6, <2>7, <2>8, OrderReceived DEF IInv
<1>10. QED
  BY <1>8, <1>9

------------------------------------------------------------------------------
(* The steps of the computation thread *)

\* The id of the new project is later than every one in use.
LEMMA StartLoadProjectStep ==
    ASSUME IInv, UNCHANGED native, StartLoadProject
    PROVE  IInv'
<1>1. /\ tasks # <<>> /\ Head(tasks).kind = "project" /\ loader = Idle
      /\ ids' = ids + 1 /\ loader'.id = ids + 1
      /\ loader' = [id |-> ids + 1, todo |-> IF native THEN SourcesOf[Head(tasks).file] ELSE {}]
      /\ UNCHANGED <<native, main, todo, notify_queue, project, unloaded_project, upload_modal,
                     tasks, results, cancelled, paths>>
  BY DEF StartLoadProject, Answering, held, ui, user
<1>2. Head(tasks) \in AnyTask
  BY <1>1, TailIndex DEF IInv, TypesOK
<1>3. Head(tasks).file \in ProjectFiles
  BY <1>1, <1>2 DEF AnyTask, FileJobs
<1>4. ids \in Nat
  BY DEF IInv, TypesOK
<1>5. loader' \in [id : Nat, todo : SUBSET Externals] /\ (~native => loader'.todo = {})
  BY <1>1, <1>3, <1>4, SourcesAssumption
<1>6. TypesOK'
  BY <1>1, <1>4, <1>5 DEF IInv, TypesOK
<1>7. LoaderOK'
  BY <1>1, <1>4, <1>5 DEF LoaderOK, None
<1>8. /\ project.id \in Nat /\ unloaded_project.id \in Nat /\ cancelled \subseteq Nat
      /\ \A i \in DOMAIN results :
             /\ results[i].kind = "project" => results[i].project.id \in Nat
             /\ results[i].kind = "signals" => results[i].id \in Nat
      /\ \A i \in DOMAIN tasks : tasks[i].kind = "signals" => tasks[i].id \in Nat
  <2>1. \A i \in DOMAIN results : results[i] \in AnyResult
    BY DEF IInv, TypesOK
  <2>2. \A i \in DOMAIN tasks : tasks[i] \in AnyTask
    BY DEF IInv, TypesOK
  <2>3. QED
    BY <2>1, <2>2 DEF IInv, TypesOK, AnyResult, AnyTask, AnyProject, FileJobs
<1>9. PlacesOK'
  <2>1. loader'.id \notin {project.id, unloaded_project.id} \cup cancelled
    BY <1>1, <1>4, <1>8 DEF IInv, PlacesOK
  <2>2. /\ project.id <= ids' /\ unloaded_project.id <= ids'
        /\ \A id \in cancelled : id <= ids'
    BY <1>1, <1>4, <1>8 DEF IInv, PlacesOK
  <2>3. QED
    BY <1>1, <2>1, <2>2 DEF IInv, PlacesOK
<1>10. \A i \in DOMAIN results :
          results[i].kind = "project" /\ results[i].project # NoProject =>
              results[i].project.id <= ids' /\ results[i].project.id # loader'.id
  BY <1>1, <1>4, <1>8 DEF IInv, LoadedOK
<1>11. LoadedOK' /\ OrderOK' /\ ModalOK'
  BY <1>1, <1>10 DEF IInv, LoadedOK, OrderOK, ModalOK
<1>12. /\ \A i \in DOMAIN results : results[i].kind = "signals" =>
              results[i].id <= ids' /\ results[i].id # loader'.id
       /\ \A i \in DOMAIN tasks : tasks[i].kind = "signals" =>
              tasks[i].id <= ids' /\ tasks[i].id # loader'.id
  BY <1>1, <1>4, <1>8 DEF IInv, FilesOK, FileOK
<1>13. FilesOK'
  BY <1>1, <1>12 DEF IInv, FilesOK, FileOK
<1>14. OnceOK'
  BY <1>1, <1>12 DEF IInv, OnceOK, SameFile
<1>15. QueueOK'
  BY <1>1 DEF IInv, QueueOK, IsDecision, AllMapped, Newest
<1>16. QED
  BY <1>6, <1>7, <1>9, <1>11, <1>13, <1>14, <1>15 DEF IInv

\* Only the desktop has files to submit here, and each leaves the loader's list.
LEMMA SubmitSubtaskStep ==
    ASSUME IInv, UNCHANGED native, NEW external \in Externals, SubmitSubtask(external)
    PROVE  IInv'
<1> DEFINE t == [kind |-> "signals", id |-> loader.id, external |-> external]
<1>1. /\ external \in loader.todo /\ tasks' = Append(tasks, t) /\ main' = main
      /\ loader' = [loader EXCEPT !.todo = @ \ {external}]
      /\ UNCHANGED <<native, todo, notify_queue, project, unloaded_project, upload_modal, results,
                     ids, cancelled, paths>>
  BY DEF SubmitSubtask, held, ui, user
<1>2. loader \in [id : Nat, todo : SUBSET Externals]
  BY DEF IInv, TypesOK
<1>3. /\ loader' \in [id : Nat, todo : SUBSET Externals] /\ loader'.id = loader.id
      /\ loader'.todo = loader.todo \ {external}
  BY <1>1, <1>2
<1>4. native /\ loader.id # None /\ upload_modal = None
  BY <1>1 DEF IInv, LoaderOK, ModalOK, Idle
<1>5. t \in AnyTask /\ t.id = loader.id /\ t.external = external
  BY <1>2 DEF AnyTask, FileJobs
<1> HIDE DEF t
<1>6. FileOK(t)
  BY <1>4, <1>5 DEF FileOK, IInv, LoaderOK, PlacesOK
<1>7. /\ \A i \in DOMAIN tasks : tasks[i].kind = "signals" => ~SameFile(tasks[i], t)
      /\ \A i \in DOMAIN results : results[i].kind = "signals" => ~SameFile(results[i], t)
  BY <1>1, <1>5 DEF SameFile, IInv, OnceOK, FilesOK
<1>8. t.id # project.id /\ t.id # unloaded_project.id /\ t.external \notin loader'.todo
  BY <1>3, <1>4, <1>5 DEF IInv, PlacesOK
<1>9. CoreOK' /\ tasks' \in Seq(AnyTask)
  BY <1>1, <1>3, <1>5, <1>6, <1>7, <1>8, AppendTask
<1>10. QueueOK'
  BY <1>1 DEF IInv, QueueOK, IsDecision, AllMapped, Newest
<1>11. TypesOK'
  BY <1>1, <1>3, <1>9 DEF IInv, TypesOK
<1>12. QED
  BY <1>9, <1>10, <1>11 DEF IInv, CoreOK

\* The oldest task is answered: a sound file by itself, the project of the loader by
\* that project, and either one by something that carries no id.
LEMMA AnswerStep ==
    ASSUME IInv, tasks # <<>>, NEW r \in AnyResult,
           tasks' = Tail(tasks), results' = Append(results, r), loader' = Idle, loader.todo = {},
           UNCHANGED <<native, main, todo, notify_queue, project, unloaded_project, upload_modal,
                       ids, cancelled, paths>>,
           r.kind = "signals" => r = Head(tasks) /\ loader = Idle,
           r.kind = "project" /\ r.project # NoProject =>
               /\ r.project.id = loader.id /\ loader.id # None /\ r.project.signals = {}
               /\ native => DOMAIN r.project.unloaded_signals = {}
    PROVE  IInv'
<1>1. tasks \in Seq(AnyTask) /\ results \in Seq(AnyResult)
  BY DEF IInv, TypesOK
<1>2. /\ tasks' \in Seq(AnyTask) /\ 1 \in DOMAIN tasks /\ Head(tasks) = tasks[1]
      /\ \A i \in DOMAIN tasks' :
             i \in Nat /\ i + 1 \in DOMAIN tasks /\ i + 1 > 1 /\ tasks'[i] = tasks[i + 1]
  BY <1>1, TailIndex
<1>3. \A i \in DOMAIN tasks' : i + 1 # 1 /\ \A j \in DOMAIN tasks' : i # j => i + 1 # j + 1
  BY <1>2
<1>4. /\ results' \in Seq(AnyResult) /\ Len(results) \in Nat /\ DOMAIN results = 1..Len(results)
      /\ \A i \in DOMAIN results' :
             \/ i \in DOMAIN results /\ results'[i] = results[i] /\ i < Len(results) + 1
             \/ i = Len(results) + 1 /\ results'[i] = r
  BY <1>1, AppendIndex
<1>5. loader'.id = None /\ loader'.todo = {} /\ loader' \in [id : Nat, todo : SUBSET Externals]
  BY DEF Idle, None
<1>6. TypesOK'
  BY <1>2, <1>4, <1>5 DEF IInv, TypesOK
<1>7. LoaderOK' /\ PlacesOK' /\ ModalOK'
  BY <1>5 DEF IInv, LoaderOK, PlacesOK, ModalOK
<1>8. QueueOK'
  BY DEF IInv, QueueOK, IsDecision, AllMapped, Newest
<1>9. LoadedOK'
  <2>1. ASSUME NEW i \in DOMAIN results', results'[i].kind = "project",
               results'[i].project # NoProject
        PROVE  /\ results'[i].project.id # None /\ results'[i].project.id <= ids
               /\ results'[i].project.id \notin {project.id, unloaded_project.id} \cup cancelled
               /\ results'[i].project.signals = {}
               /\ native => DOMAIN results'[i].project.unloaded_signals = {}
    BY <1>4, <2>1 DEF IInv, LoadedOK, LoaderOK, PlacesOK
  <2>2. \A i, j \in DOMAIN results' :
            /\ i # j
            /\ results'[i].kind = "project" /\ results'[i].project # NoProject
            /\ results'[j].kind = "project" /\ results'[j].project # NoProject
            => results'[i].project.id # results'[j].project.id
    BY <1>4 DEF IInv, LoadedOK
  <2>3. QED
    BY <1>5, <2>1, <2>2 DEF LoadedOK
<1>10. r.kind = "signals" => FileOK(r)
  BY <1>2 DEF IInv, FilesOK
<1>11. ASSUME NEW x, FileOK(x) PROVE FileOK(x)'
  <2>1. ~native => \A i \in DOMAIN results' :
            results'[i].kind = "project" /\ results'[i].project # NoProject =>
                x.id # results'[i].project.id
    BY <1>4, <1>11 DEF FileOK
  <2>2. QED
    BY <1>5, <1>11, <2>1 DEF FileOK
<1>12. FilesOK'
  <2>1. ASSUME NEW i \in DOMAIN tasks', tasks'[i].kind = "signals" PROVE FileOK(tasks'[i])
    BY <1>2, <2>1 DEF IInv, FilesOK
  <2>2. ASSUME NEW i \in DOMAIN results', results'[i].kind = "signals"
        PROVE  FileOK(results'[i]) /\ results'[i].id # None
    BY <1>4, <1>10, <2>2 DEF IInv, FilesOK, FileOK
  <2>3. \A i \in DOMAIN tasks' : tasks'[i].kind = "signals" => FileOK(tasks[i])'
    BY <1>11, <2>1 DEF FileOK
  <2>4. \A i \in DOMAIN results' : results'[i].kind = "signals" => FileOK(results[i])'
    BY <1>11, <2>2 DEF FileOK
  <2>5. QED
    BY <1>5, <2>2, <2>3, <2>4 DEF FilesOK
<1>13. OrderOK'
  <2>1. ASSUME NEW i \in DOMAIN results', NEW j \in DOMAIN results', i < j,
               results'[i].kind = "signals", results'[j].kind = "project",
               results'[j].project # NoProject
        PROVE  results'[j].project.id # results'[i].id
    <3>1. i \in DOMAIN results /\ results'[i] = results[i]
      BY <1>4, <2>1
    <3>2. results[i].id # loader.id
      BY <2>1, <3>1 DEF IInv, FilesOK
    <3>3. QED
      BY <1>4, <2>1, <3>1, <3>2 DEF IInv, OrderOK
  <2>2. QED
    BY <2>1 DEF OrderOK
<1>14. OnceOK'
  <2>1. r.kind = "signals" =>
            /\ \A i \in DOMAIN tasks' : tasks'[i].kind = "signals" => ~SameFile(tasks'[i], r)
            /\ \A i \in DOMAIN results : results[i].kind = "signals" =>
                   ~SameFile(results[i], r) /\ ~SameFile(r, results[i])
            /\ r.id = project.id => r.external \notin project.signals
            /\ main = "completing" /\ r.id = unloaded_project.id => r.external \notin todo
    BY <1>2, <1>3 DEF IInv, OnceOK, SameFile
  <2>2. \A i, j \in DOMAIN tasks' :
            tasks'[i].kind = "signals" /\ tasks'[j].kind = "signals" /\ i # j =>
                ~SameFile(tasks[i], tasks[j])'
    BY <1>2, <1>3 DEF IInv, OnceOK, SameFile
  <2>3. \A i, j \in DOMAIN results' :
            results'[i].kind = "signals" /\ results'[j].kind = "signals" /\ i # j =>
                ~SameFile(results[i], results[j])'
    <3>1. ASSUME NEW i \in DOMAIN results', NEW j \in DOMAIN results',
                 results'[i].kind = "signals", results'[j].kind = "signals", i # j
          PROVE  ~SameFile(results'[i], results'[j])
      <4>1. CASE i \in DOMAIN results /\ results'[i] = results[i]
        BY <1>4, <2>1, <3>1, <4>1 DEF IInv, OnceOK
      <4>2. CASE results'[i] = r /\ i = Len(results) + 1
        BY <1>4, <2>1, <3>1, <4>2
      <4>3. QED
        BY <1>4, <4>1, <4>2
    <3>2. QED
      BY <3>1 DEF SameFile
  <2>4. \A i \in DOMAIN tasks', j \in DOMAIN results' :
            tasks'[i].kind = "signals" /\ results'[j].kind = "signals" =>
                ~SameFile(tasks[i], results[j])'
    <3>1. ASSUME NEW i \in DOMAIN tasks', NEW j \in DOMAIN results',
                 tasks'[i].kind = "signals", results'[j].kind = "signals"
          PROVE  ~SameFile(tasks'[i], results'[j])
      BY <1>2, <1>4, <2>1, <3>1 DEF IInv, OnceOK
    <3>2. QED
      BY <3>1 DEF SameFile
  <2>5. ASSUME NEW i \in DOMAIN tasks', tasks'[i].kind = "signals"
        PROVE  /\ tasks'[i].id = project.id => tasks'[i].external \notin project.signals
               /\ main = "completing" /\ tasks'[i].id = unloaded_project.id =>
                      tasks'[i].external \notin todo
    BY <1>2, <2>5 DEF IInv, OnceOK
  <2>6. ASSUME NEW i \in DOMAIN results', results'[i].kind = "signals"
        PROVE  /\ results'[i].id = project.id => results'[i].external \notin project.signals
               /\ main = "completing" /\ results'[i].id = unloaded_project.id =>
                      results'[i].external \notin todo
    BY <1>4, <2>1, <2>6 DEF IInv, OnceOK
  <2>7. QED
    BY <1>5, <2>2, <2>3, <2>4, <2>5, <2>6 DEF OnceOK
<1>15. QED
  BY <1>6, <1>7, <1>8, <1>9, <1>12, <1>13, <1>14 DEF IInv

LEMMA FinishLoadProjectStep ==
    ASSUME IInv, UNCHANGED native, NEW end \in LoadEnds, FinishLoadProject(end)
    PROVE  IInv'
<1> DEFINE r == CASE end = "project" -> [kind |-> "project", project |-> LoadedProject]
                  [] end = "null" -> [kind |-> "project", project |-> NoProject]
                  [] end = "error" -> [kind |-> "error"]
<1>1. /\ tasks # <<>> /\ Head(tasks).kind = "project" /\ loader # Idle /\ loader.todo = {}
      /\ tasks' = Tail(tasks) /\ results' = Append(results, r) /\ loader' = Idle
      /\ UNCHANGED <<native, main, todo, notify_queue, project, unloaded_project, upload_modal,
                     ids, cancelled, paths>>
  BY DEF FinishLoadProject, Answering, Answer, held, ui, user
<1>2. loader.id # None /\ loader.id \in Nat
  BY <1>1 DEF IInv, LoaderOK, TypesOK
<1>3. Head(tasks) \in AnyTask
  BY <1>1, TailIndex DEF IInv, TypesOK
<1>4. SourcesOf[Head(tasks).file] \subseteq Externals
  BY <1>1, <1>3, SourcesAssumption DEF AnyTask, FileJobs
<1>5. /\ LoadedProject \in AnyProject /\ LoadedProject.id = loader.id
      /\ LoadedProject.signals = {}
      /\ native => DOMAIN LoadedProject.unloaded_signals = {}
  <2> DEFINE S == IF native THEN {} ELSE SourcesOf[Head(tasks).file]
             m == [e \in S |-> None]
  <2>1. S \in SUBSET Externals /\ m \in [S -> Paths \cup {None}] /\ DOMAIN m = S /\ (native => S = {})
    BY <1>4 DEF None
  <2>2. m \in Mappings
    BY <2>1 DEF Mappings
  <2>3. LoadedProject = [id |-> loader.id, unloaded_signals |-> m, signals |-> {}]
    BY DEF LoadedProject
  <2> HIDE DEF m
  <2>4. QED
    BY <1>2, <2>1, <2>2, <2>3 DEF AnyProject
<1>6. /\ r \in AnyResult /\ r.kind # "signals"
      /\ r.kind = "project" /\ r.project # NoProject => r.project = LoadedProject
  BY <1>5, NoProjectType, EndsAssumption DEF AnyResult
<1> HIDE DEF r
<1>7. QED
  BY <1>1, <1>2, <1>5, <1>6, AnswerStep

LEMMA LoadSignalFileStep ==
    ASSUME IInv, UNCHANGED native, LoadSignalFile
    PROVE  IInv'
<1>1. PICK r \in {Head(tasks), [kind |-> "error"]} :
          tasks' = Tail(tasks) /\ results' = Append(results, r)
  BY DEF LoadSignalFile, Answer
<1>2. /\ tasks # <<>> /\ Head(tasks).kind = "signals"
      /\ UNCHANGED <<native, main, todo, notify_queue, project, unloaded_project, upload_modal,
                     loader, ids, cancelled, paths>>
  BY DEF LoadSignalFile, Answering, held, ui, user
<1>3. loader = Idle /\ loader.todo = {}
  BY <1>2 DEF IInv, LoaderOK, Idle
<1>4. Head(tasks) \in AnyTask
  BY <1>2, TailIndex DEF IInv, TypesOK
<1>5. /\ r \in AnyResult /\ r.kind # "project"
      /\ r.kind = "signals" => r = Head(tasks)
  BY <1>2, <1>4 DEF AnyResult, AnyTask
<1>6. QED
  BY <1>1, <1>2, <1>3, <1>5, AnswerStep

------------------------------------------------------------------------------

LEMMA StutterStep ==
    ASSUME IInv, UNCHANGED vars
    PROVE  IInv'
<1>1. UNCHANGED core /\ UNCHANGED <<notify_queue, paths>> /\ main' = main
  BY DEF vars, held, ui, worker, user, core
<1>2. CoreOK'
  BY <1>1, CoreSame DEF IInv, CoreOK
<1>3. TypesOK' /\ QueueOK'
  BY <1>1 DEF IInv, TypesOK, QueueOK, IsDecision, AllMapped, Newest, core
<1>4. QED
  BY <1>2, <1>3 DEF IInv, CoreOK

LEMMA NextIInv == IInv /\ [Next]_vars => IInv'
<1> SUFFICES ASSUME IInv, [Next]_vars PROVE IInv'
  OBVIOUS
<1>1. CASE Callbacks
  BY <1>1, CallbackStep DEF Callbacks
<1>2. CASE Frame
  <2>1. UNCHANGED native
    BY <1>2 DEF Frame
  <2>2. CASE \E external \in Externals : SubmitSignalFile(external)
    BY <2>1, <2>2, SubmitSignalFileStep
  <2>3. CASE \/ HandleProjectSelected \/ HandleRegisterVFSMapping \/ HandleCancelProjectLoad
             \/ HandleEdit \/ HandleCompleteProjectLoad \/ FinishComplete
    BY <2>1, <2>3, ProjectSelectedStep, RegisterStep, CancelStep, EditStep, CompleteStep,
       FinishCompleteStep
  <2>4. CASE \/ IgnoreLoadProject \/ HandleLoadProject \/ DereferenceNull
             \/ HandleLoadSignalFile \/ HandleError
    BY <2>1, <2>4, DropStep, LoadProjectStep, LoadSignalFileResultStep
  <2>5. CASE \/ BeginFrame \/ NotificationsDone \/ ResultsDone \/ SkipDraw \/ DrawPanels
             \/ DrawUploadModal \/ DrawErrorModal \/ PressDismiss
             \/ \E external \in Externals : PressUpload(external)
    BY <2>1, <2>5, UserStep
  <2>6. CASE EditProject \/ PressCancel \/ PressContinue
    BY <2>1, <2>6, CallbackStep
  <2>7. QED
    BY <1>2, <2>2, <2>3, <2>4, <2>5, <2>6 DEF Frame
<1>3. CASE Computation
  BY <1>3, StartLoadProjectStep, SubmitSubtaskStep, FinishLoadProjectStep, LoadSignalFileStep
     DEF Computation
<1>4. CASE UNCHANGED vars
  BY <1>4, StutterStep
<1>5. QED
  BY <1>1, <1>2, <1>3, <1>4 DEF Next

\* In every behaviour of the program an id is in one place at a time, and a sound file
\* is under way at most once.
THEOREM Invariance == Spec => []IInv
<1>1. QED
  BY InitIInv, NextIInv, PTL DEF Spec

------------------------------------------------------------------------------
(* The properties *)

\* The modal never points at a project that is gone or that a late file could move
\* away (ModalOwnsUnloaded), for any number of projects, files and uploads.
THEOREM ModalOwnsUnloadedHolds == Spec => []ModalOwnsUnloaded
<1>1. IInv => ModalOwnsUnloaded
  <2> SUFFICES ASSUME IInv, upload_modal # None PROVE ModalOwnsUnloaded
    BY DEF ModalOwnsUnloaded
  <2>1. unloaded_project.id = upload_modal
    BY DEF IInv, ModalOK
  <2>2. ASSUME main # "completing"
        PROVE  FilesUnderWay(upload_modal) \cup FilesLoaded(upload_modal) = {}
    BY <2>2 DEF IInv, FilesOK, FileOK, FilesUnderWay, FilesLoaded
  <2>3. QED
    BY <2>1, <2>2 DEF ModalOwnsUnloaded
<1>2. QED
  BY <1>1, Invariance, PTL

LEMMA AtMostOne ==
    ASSUME NEW S, \A i, j \in S : i = j
    PROVE  Cardinality(S) = IF S = {} THEN 0 ELSE 1
<1>1. CASE S = {}
  BY <1>1, FS_EmptySet
<1>2. CASE S # {}
  <2>1. PICK i \in S : TRUE
    BY <1>2
  <2>2. S = {i}
    BY <2>1
  <2>3. QED
    BY <2>2, <1>2, FS_Singleton
<1>3. QED
  BY <1>1, <1>2

\* A decision of the user is handled for the project it was made for, once, and
\* Continue only with every file mapped (DecisionsAreCurrent).
THEOREM DecisionsAreCurrentHolds == Spec => []DecisionsAreCurrent
<1>1. IInv => DecisionsAreCurrent
  <2> SUFFICES ASSUME IInv PROVE DecisionsAreCurrent
    OBVIOUS
  <2> DEFINE D == InQueue("complete") \cup InQueue("cancel")
  <2>1. \A i \in D : i \in DOMAIN notify_queue /\ IsDecision(notify_queue[i])
    BY DEF InQueue, IsDecision
  <2>2. \A i, j \in D : i = j
    BY <2>1 DEF IInv, QueueOK
  <2>3. Cardinality(D) <= 1
    BY <2>2, AtMostOne
  <2>4. \A i \in D : notify_queue[i].id = upload_modal
    BY <2>1 DEF IInv, QueueOK
  <2>5. \A i \in InQueue("edit") : notify_queue[i].id = project.id
    BY DEF InQueue, IInv, QueueOK
  <2>6. InQueue("complete") # {} => AllMapped(unloaded_project)
    BY DEF InQueue, IInv, QueueOK
  <2>7. QED
    BY <2>3, <2>4, <2>5, <2>6 DEF DecisionsAreCurrent
<1>2. QED
  BY <1>1, Invariance, PTL

\* No sound file of a project is loaded twice (EachFileLoadedOnce), although the same
\* file can be asked for by several choosers and by several projects.
THEOREM EachFileLoadedOnceHolds == Spec => []EachFileLoadedOnce
<1>1. IInv => EachFileLoadedOnce
  <2> SUFFICES ASSUME IInv, NEW id \in Ids, NEW e \in Externals
               PROVE  Cardinality({i \in FilesUnderWay(id) : tasks[i].external = e})
                      + Cardinality({i \in FilesLoaded(id) : results[i].external = e})
                      + (IF project.id = id /\ e \in project.signals THEN 1 ELSE 0) <= 1
    BY DEF EachFileLoadedOnce
  <2> DEFINE A == {i \in FilesUnderWay(id) : tasks[i].external = e}
             B == {i \in FilesLoaded(id) : results[i].external = e}
  <2>1. \A i \in A : i \in DOMAIN tasks /\ tasks[i].kind = "signals" /\ tasks[i].id = id
                     /\ tasks[i].external = e
    BY DEF FilesUnderWay
  <2>2. \A i \in B : i \in DOMAIN results /\ results[i].kind = "signals" /\ results[i].id = id
                     /\ results[i].external = e
    BY DEF FilesLoaded
  <2> HIDE DEF A, B
  <2>3. (\A i, j \in A : i = j) /\ (\A i, j \in B : i = j)
    BY <2>1, <2>2 DEF IInv, OnceOK, SameFile
  <2>4. A = {} \/ B = {}
    BY <2>1, <2>2 DEF IInv, OnceOK, SameFile
  <2>5. project.id = id /\ e \in project.signals => A = {} /\ B = {}
    BY <2>1, <2>2 DEF IInv, OnceOK
  <2>6. /\ Cardinality(A) = IF A = {} THEN 0 ELSE 1
        /\ Cardinality(B) = IF B = {} THEN 0 ELSE 1
    BY <2>3, AtMostOne
  <2>7. Cardinality(A) + Cardinality(B)
        + (IF project.id = id /\ e \in project.signals THEN 1 ELSE 0) <= 1
    BY <2>4, <2>5, <2>6
  <2>8. QED
    BY <2>7 DEF A, B
<1>2. QED
  BY <1>1, Invariance, PTL

\* A project that was cancelled never comes back (CancelledStaysOut).
THEOREM CancelledStaysOutHolds == Spec => []CancelledStaysOut
<1>1. IInv => CancelledStaysOut
  <2> SUFFICES ASSUME IInv, NEW id \in cancelled
               PROVE  /\ id \notin {project.id, unloaded_project.id, upload_modal}
                      /\ FilesUnderWay(id) \cup FilesLoaded(id) = {}
    BY DEF CancelledStaysOut
  <2>1. id \notin {project.id, unloaded_project.id, upload_modal}
    BY DEF IInv, PlacesOK, ModalOK
  <2>2. FilesUnderWay(id) \cup FilesLoaded(id) = {}
    BY DEF IInv, FilesOK, FileOK, FilesUnderWay, FilesLoaded
  <2>3. QED
    BY <2>1, <2>2
<1>2. QED
  BY <1>1, Invariance, PTL

\* Signals are received after their project, although they may be submitted before it is
\* finished (SignalsFollowTheirProject).
THEOREM SignalsFollowTheirProjectHolds == Spec => []SignalsFollowTheirProject
<1>1. IInv => SignalsFollowTheirProject
  <2> SUFFICES ASSUME IInv, NEW i \in DOMAIN results, results[i].kind = "signals"
               PROVE  /\ loader.id # results[i].id
                      /\ \A j \in (i + 1)..Len(results) :
                             results[j].kind = "project" => results[j].project.id # results[i].id
    BY DEF SignalsFollowTheirProject
  <2>1. loader.id # results[i].id /\ results[i].id # None
    BY DEF IInv, FilesOK, FileOK
  <2>2. ASSUME NEW j \in (i + 1)..Len(results), results[j].kind = "project"
        PROVE  results[j].project.id # results[i].id
    <3>1. DOMAIN results = 1..Len(results) /\ Len(results) \in Nat
      BY DEF IInv, TypesOK
    <3>2. i \in Nat /\ j \in DOMAIN results /\ i < j
      BY <2>2, <3>1
    <3>3. CASE results[j].project = NoProject
      BY <2>1, <3>3 DEF NoProject
    <3>4. CASE results[j].project # NoProject
      BY <2>2, <3>2, <3>4 DEF IInv, OrderOK
    <3>5. QED
      BY <3>3, <3>4
  <2>3. QED
    BY <2>1, <2>2
<1>2. QED
  BY <1>1, Invariance, PTL

------------------------------------------------------------------------------
(* A load that goes on *)

\* Something of a project is with the computation thread, or an answer of that thread
\* waits to be received.
Trace(id) ==
    \/ \E i \in DOMAIN tasks : tasks[i].kind = "signals" /\ tasks[i].id = id
    \/ \E i \in DOMAIN results :
           \/ results[i].kind = "signals" /\ results[i].id = id
           \/ results[i].kind = "error"

LEMMA StillLoadingTrace ==
    ASSUME NEW id
    PROVE  StillLoading(id) <=> unloaded_project.id = id /\ (main = "completing" \/ Trace(id))
  BY DEF StillLoading, Trace, FilesUnderWay, FilesLoaded

LEMMA StillLoadingTracePrime ==
    ASSUME NEW id
    PROVE  StillLoading(id)' <=> unloaded_project'.id = id /\ (main' = "completing" \/ Trace(id)')
  BY DEF StillLoading, Trace, FilesUnderWay, FilesLoaded

LEMMA AppendKeeps ==
    ASSUME NEW S, NEW s \in Seq(S), NEW x \in S
    PROVE  /\ \A i \in DOMAIN s : i \in DOMAIN Append(s, x) /\ Append(s, x)[i] = s[i]
           /\ Len(s) + 1 \in DOMAIN Append(s, x) /\ Append(s, x)[Len(s) + 1] = x
  OBVIOUS

LEMMA TailKeeps ==
    ASSUME NEW S, NEW s \in Seq(S), s # <<>>, NEW i \in DOMAIN s, s[i] # Head(s)
    PROVE  \E j \in DOMAIN Tail(s) : Tail(s)[j] = s[i]
<1>1. i \in 1..Len(s) /\ i # 1 /\ Len(s) \in Nat
  OBVIOUS
<1>2. i - 1 \in DOMAIN Tail(s) /\ Tail(s)[i - 1] = s[i]
  BY <1>1
<1>3. QED
  BY <1>2

LEMMA MoreTasks ==
    ASSUME NEW id, Trace(id), tasks \in Seq(AnyTask), NEW t \in AnyTask,
           tasks' = Append(tasks, t), results' = results
    PROVE  Trace(id)'
  BY AppendKeeps DEF Trace

LEMMA NewTask ==
    ASSUME NEW t \in FileJobs, tasks \in Seq(AnyTask), tasks' = Append(tasks, t)
    PROVE  Trace(t.id)'
<1>1. t \in AnyTask /\ t.kind = "signals"
  BY DEF AnyTask, FileJobs
<1>2. Len(tasks) + 1 \in DOMAIN tasks' /\ tasks'[Len(tasks) + 1] = t
  BY <1>1, AppendKeeps
<1>3. QED
  BY <1>1, <1>2 DEF Trace

\* The computation thread answers every task that it takes.
LEMMA ComputationKeepsTrace ==
    ASSUME IInv, Computation, NEW id, Trace(id)
    PROVE  Trace(id)'
<1>1. tasks \in Seq(AnyTask) /\ results \in Seq(AnyResult)
  BY DEF IInv, TypesOK
<1>2. CASE StartLoadProject
  BY <1>2 DEF StartLoadProject, Trace
<1>3. ASSUME NEW external \in Externals, SubmitSubtask(external) PROVE Trace(id)'
  <2> DEFINE t == [kind |-> "signals", id |-> loader.id, external |-> external]
  <2>1. t \in AnyTask
    BY DEF IInv, TypesOK, AnyTask, FileJobs
  <2>2. tasks' = Append(tasks, t) /\ results' = results
    BY <1>3 DEF SubmitSubtask
  <2> HIDE DEF t
  <2>3. QED
    BY <1>1, <2>1, <2>2, MoreTasks
<1>4. ASSUME NEW r \in AnyResult, tasks # <<>>, Answer(r),
             \/ Head(tasks).kind = "project" \/ r = Head(tasks) \/ r.kind = "error"
      PROVE  Trace(id)'
  <2>1. /\ \A i \in DOMAIN results : i \in DOMAIN results' /\ results'[i] = results[i]
        /\ Len(results) + 1 \in DOMAIN results' /\ results'[Len(results) + 1] = r
    BY <1>1, <1>4, AppendKeeps DEF Answer
  <2>2. ASSUME NEW i \in DOMAIN tasks, tasks[i].kind = "signals", tasks[i].id = id
        PROVE  Trace(id)'
    <3>1. CASE tasks[i] = Head(tasks)
      <4>1. r = Head(tasks) \/ r.kind = "error"
        BY <1>4, <2>2, <3>1
      <4>2. QED
        BY <2>1, <2>2, <3>1, <4>1 DEF Trace
    <3>2. CASE tasks[i] # Head(tasks)
      <4>1. \E j \in DOMAIN tasks' : tasks'[j] = tasks[i]
        BY <1>1, <1>4, <3>2, TailKeeps DEF Answer
      <4>2. QED
        BY <2>2, <4>1 DEF Trace
    <3>3. QED
      BY <3>1, <3>2
  <2>3. QED
    BY <2>1, <2>2 DEF Trace
<1>5. ASSUME NEW end \in LoadEnds, FinishLoadProject(end) PROVE Trace(id)'
  <2> DEFINE r == CASE end = "project" -> [kind |-> "project", project |-> LoadedProject]
                    [] end = "null" -> [kind |-> "project", project |-> NoProject]
                    [] end = "error" -> [kind |-> "error"]
  <2>1. tasks # <<>> /\ Head(tasks).kind = "project" /\ Answer(r)
    BY <1>5 DEF FinishLoadProject, Answering
  <2>2. IInv'
    BY <1>5, FinishLoadProjectStep DEF Computation
  <2>3. results' = Append(results, r) /\ results' \in Seq(AnyResult)
    BY <2>1, <2>2 DEF Answer, IInv, TypesOK
  <2> HIDE DEF r
  <2>4. r \in AnyResult
    <3>1. Len(results) + 1 \in DOMAIN results' /\ results'[Len(results) + 1] = r
      BY <1>1, <2>3
    <3>2. QED
      BY <2>3, <3>1
  <2>5. QED
    BY <1>4, <2>1, <2>4
<1>6. CASE LoadSignalFile
  <2>1. tasks # <<>> /\ Head(tasks).kind = "signals"
        /\ (Answer(Head(tasks)) \/ Answer([kind |-> "error"]))
    BY <1>6 DEF LoadSignalFile, Answering
  <2>2. Head(tasks) \in AnyResult /\ [kind |-> "error"] \in AnyResult
    BY <1>1, <2>1, TailIndex DEF AnyTask, AnyResult
  <2>3. QED
    BY <1>4, <2>1, <2>2
<1>7. QED
  BY <1>2, <1>3, <1>5, <1>6 DEF Computation

\* What the main thread receives may be the last trace, but nothing else is lost.
LEMMA ReceivedTrace ==
    ASSUME IInv, NEW id, Trace(id), results # <<>>, results' = Tail(results), tasks' = tasks,
           Head(results).kind = "signals" => Head(results).id # id,
           Head(results).kind # "error"
    PROVE  Trace(id)'
<1>1. results \in Seq(AnyResult)
  BY DEF IInv, TypesOK
<1>2. ASSUME NEW i \in DOMAIN results,
             \/ results[i].kind = "signals" /\ results[i].id = id
             \/ results[i].kind = "error"
      PROVE  Trace(id)'
  <2>1. results[i] # Head(results)
    BY <1>2
  <2>2. \E j \in DOMAIN results' : results'[j] = results[i]
    BY <1>1, <2>1, TailKeeps
  <2>3. QED
    BY <1>2, <2>2 DEF Trace
<1>3. QED
  BY <1>2 DEF Trace

LEMMA SameTrace ==
    ASSUME NEW id, Trace(id), tasks' = tasks, results' = results
    PROVE  Trace(id)'
  BY DEF Trace

\* A project waits to be completed only if it has files, and what the loop has
\* submitted so far has left its trace.
LoadingOK ==
    /\ unloaded_project.id # None => DOMAIN unloaded_project.unloaded_signals # {}
    /\ main = "completing" =>
           todo = DOMAIN unloaded_project.unloaded_signals \/ Trace(unloaded_project.id)

LEMMA CompletingFacts ==
    ASSUME IInv, main = "completing"
    PROVE  unloaded_project.id # None /\ todo \subseteq DOMAIN unloaded_project.unloaded_signals
<1>1. notify_queue # <<>> /\ Newest.kind = "complete" /\ notify_queue \in Seq(Notes)
  BY DEF IInv, QueueOK, TypesOK
<1>2. Len(notify_queue) \in DOMAIN notify_queue
  BY <1>1, FrontIndex
<1>3. upload_modal # None
  BY <1>1, <1>2 DEF IInv, QueueOK, IsDecision, Newest
<1>4. QED
  BY <1>3 DEF IInv, ModalOK, QueueOK

LEMMA InitLoading == Init => LoadingOK
  BY DEF Init, LoadingOK, NoProject, None

\* The loop of CompleteProjectLoad: a file is submitted, or the load fails visibly.
LEMMA SubmitSignalFileTrace ==
    ASSUME IInv, NEW external \in Externals, SubmitSignalFile(external)
    PROVE  /\ unloaded_project' = unloaded_project
           /\ \/ Trace(unloaded_project.id)' /\ main' = main
              \/ is_raised' /\ main' = "notifications"
<1> DEFINE t == [kind |-> "signals", id |-> unloaded_project.id, external |-> external]
<1>1. unloaded_project' = unloaded_project
  BY DEF SubmitSignalFile, held
<1>2. CASE unloaded_project.unloaded_signals[external] # None
  <2>1. tasks' = Append(tasks, t) /\ main' = main
    BY <1>2 DEF SubmitSignalFile
  <2>2. tasks \in Seq(AnyTask) /\ t \in FileJobs /\ t.id = unloaded_project.id
    BY DEF IInv, TypesOK, AnyProject, FileJobs
  <2> HIDE DEF t
  <2>3. QED
    BY <1>1, <2>1, <2>2, NewTask
<1>3. CASE unloaded_project.unloaded_signals[external] = None
  BY <1>1, <1>3 DEF SubmitSignalFile
<1>4. QED
  BY <1>2, <1>3

LEMMA NextLoading == IInv /\ LoadingOK /\ [Next]_vars => LoadingOK'
<1> SUFFICES ASSUME IInv, LoadingOK, [Next]_vars PROVE LoadingOK'
  OBVIOUS
<1>1. CASE Callbacks \/ UNCHANGED vars
  <2>1. UNCHANGED <<unloaded_project, main, todo, tasks, results>>
    BY <1>1 DEF Callbacks, SelectProject, AnswerChooser, vars, held, worker
  <2>2. QED
    BY <2>1, SameTrace DEF LoadingOK
<1>2. CASE Computation
  <2>1. UNCHANGED <<unloaded_project, main, todo>>
    BY <1>2 DEF Computation, StartLoadProject, SubmitSubtask, FinishLoadProject, LoadSignalFile, held
  <2>2. QED
    BY <1>2, <2>1, ComputationKeepsTrace DEF LoadingOK
<1>3. ASSUME NEW external \in Externals, SubmitSignalFile(external) PROVE LoadingOK'
  BY <1>3, SubmitSignalFileTrace DEF LoadingOK
<1>4. CASE HandleRegisterVFSMapping
  <2>1. main = "notifications" /\ main' = main
    BY <1>4 DEF HandleRegisterVFSMapping, Handling
  <2>2. /\ unloaded_project'.id = unloaded_project.id
        /\ DOMAIN unloaded_project'.unloaded_signals = DOMAIN unloaded_project.unloaded_signals
    BY <1>4 DEF HandleRegisterVFSMapping, IInv, TypesOK, AnyProject
  <2>3. QED
    BY <2>1, <2>2 DEF LoadingOK
<1>5. CASE HandleCancelProjectLoad
  BY <1>5 DEF HandleCancelProjectLoad, Handling, LoadingOK, NoProject
<1>6. CASE HandleCompleteProjectLoad
  BY <1>6 DEF HandleCompleteProjectLoad, held, LoadingOK
<1>7. CASE HandleLoadProject \/ HandleLoadSignalFile
  BY <1>7 DEF HandleLoadProject, HandleLoadSignalFile, Receiving, LoadingOK, NoProject
<1>8. CASE \/ BeginFrame \/ HandleProjectSelected \/ HandleEdit \/ FinishComplete
           \/ NotificationsDone \/ IgnoreLoadProject \/ DereferenceNull \/ HandleError \/ ResultsDone
           \/ SkipDraw \/ DrawPanels \/ EditProject \/ DrawUploadModal \/ PressCancel
           \/ PressContinue \/ (\E external \in Externals : PressUpload(external))
           \/ DrawErrorModal \/ PressDismiss
  <2>1. unloaded_project' = unloaded_project /\ main' # "completing"
    BY <1>8
       DEF BeginFrame, HandleProjectSelected, HandleEdit, FinishComplete, NotificationsDone,
           IgnoreLoadProject, DereferenceNull, HandleError, ResultsDone, SkipDraw, DrawPanels,
           EditProject, DrawUploadModal, PressCancel, PressContinue, PressUpload, DrawErrorModal,
           PressDismiss, Goto, Handling, Receiving, held
  <2>2. QED
    BY <2>1 DEF LoadingOK
<1>9. QED
  BY <1>1, <1>2, <1>3, <1>4, <1>5, <1>6, <1>7, <1>8 DEF Next, Frame

LEMMA LoadGoesOnStep ==
    ASSUME IInv, LoadingOK, [Next]_vars, NEW id \in Ids, StillLoading(id), ~StillLoading(id)',
           unloaded_project'.id = id
    PROVE  project'.id = id \/ is_raised'
<1>1. /\ unloaded_project.id = id /\ main' # "completing" /\ ~Trace(id)'
      /\ main = "completing" \/ Trace(id)
  BY StillLoadingTrace, StillLoadingTracePrime
<1>2. CASE Callbacks \/ UNCHANGED vars
  <2>1. UNCHANGED <<main, tasks, results>>
    BY <1>2 DEF Callbacks, SelectProject, AnswerChooser, vars, held, worker
  <2>2. QED
    BY <1>1, <2>1, SameTrace
<1>3. CASE Computation
  <2>1. main' = main
    BY <1>3 DEF Computation, StartLoadProject, SubmitSubtask, FinishLoadProject, LoadSignalFile
  <2>2. QED
    BY <1>1, <1>3, <2>1, ComputationKeepsTrace
<1>4. ASSUME NEW external \in Externals, SubmitSignalFile(external)
      PROVE  project'.id = id \/ is_raised'
  BY <1>1, <1>4, SubmitSignalFileTrace
<1>5. CASE FinishComplete
  <2>1. main = "completing" /\ todo = {} /\ tasks' = tasks /\ results' = results
    BY <1>5 DEF FinishComplete, Goto, worker
  <2>2. Trace(id)
    BY <1>1, <2>1, CompletingFacts DEF LoadingOK
  <2>3. QED
    BY <1>1, <2>1, <2>2, SameTrace
<1>6. CASE HandleProjectSelected
  <2> DEFINE t == [kind |-> "project", file |-> Newest.file]
  <2>1. main # "completing" /\ tasks' = Append(tasks, t) /\ results' = results
    BY <1>6 DEF HandleProjectSelected, Handling
  <2>2. tasks \in Seq(AnyTask) /\ t \in AnyTask
    <3>1. Newest \in Notes /\ Newest.kind = "select"
      BY <1>6, FrontIndex DEF HandleProjectSelected, Handling, IInv, TypesOK, Newest
    <3>2. QED
      BY <3>1 DEF IInv, TypesOK, AnyTask, Notes
  <2> HIDE DEF t
  <2>3. QED
    BY <1>1, <2>1, <2>2, MoreTasks
<1>7. CASE IgnoreLoadProject \/ HandleLoadProject \/ DereferenceNull
  <2>1. /\ main = "results" /\ results # <<>> /\ Head(results).kind = "project"
        /\ results' = Tail(results) /\ tasks' = tasks
    BY <1>7 DEF IgnoreLoadProject, HandleLoadProject, DereferenceNull, Receiving, publish
  <2>2. QED
    BY <1>1, <2>1, ReceivedTrace
<1>8. CASE HandleLoadSignalFile
  <2>1. /\ main = "results" /\ results # <<>> /\ Head(results).kind = "signals"
        /\ results' = Tail(results) /\ tasks' = tasks
    BY <1>8 DEF HandleLoadSignalFile, Receiving, publish
  <2>2. Head(results).id = id
    BY <1>1, <2>1, ReceivedTrace
  <2>3. Head(results).external \in Externals
    BY <2>1, TailIndex DEF IInv, TypesOK, AnyResult, FileJobs
  <2>4. QED
    BY <1>1, <1>8, <2>2, <2>3, WithSignalsFacts DEF HandleLoadSignalFile, IInv, TypesOK
<1>9. CASE HandleError
  BY <1>9 DEF HandleError
<1>10. CASE \/ BeginFrame \/ HandleEdit \/ HandleRegisterVFSMapping \/ HandleCancelProjectLoad
            \/ HandleCompleteProjectLoad \/ NotificationsDone \/ ResultsDone
            \/ SkipDraw \/ DrawPanels \/ EditProject \/ DrawUploadModal \/ PressCancel
            \/ PressContinue \/ (\E external \in Externals : PressUpload(external))
            \/ DrawErrorModal \/ PressDismiss
  <2>1. main # "completing" /\ tasks' = tasks /\ results' = results
    BY <1>10
       DEF BeginFrame, HandleEdit, HandleRegisterVFSMapping, HandleCancelProjectLoad,
           HandleCompleteProjectLoad, NotificationsDone, ResultsDone, SkipDraw, DrawPanels,
           EditProject, DrawUploadModal, PressCancel, PressContinue, PressUpload, DrawErrorModal,
           PressDismiss, Goto, Handling, worker
  <2>2. QED
    BY <1>1, <2>1, SameTrace
<1>11. QED
  BY <1>2, <1>3, <1>4, <1>5, <1>6, <1>7, <1>8, <1>9, <1>10 DEF Next, Frame

\* A load that the user completed does not just vanish (CompletedLoadGoesOn): it ends in
\* the active project, an error, or another project in its place, for any number of files, selections and errors.
THEOREM CompletedLoadGoesOnHolds == Spec => CompletedLoadGoesOn
<1> DEFINE GoesOn == \A id \in Ids :
               StillLoading(id) /\ ~StillLoading(id)' =>
                   project'.id = id \/ is_raised' \/ unloaded_project'.id # id
<1>1. IInv /\ LoadingOK /\ [Next]_vars => [GoesOn]_vars
  BY LoadGoesOnStep
<1>2. Spec => []LoadingOK
  BY InitLoading, NextLoading, Invariance, PTL DEF Spec
<1>3. QED
  BY <1>1, <1>2, Invariance, PTL DEF Spec, CompletedLoadGoesOn
------------------------------------------------------------------------------
(* Types, and how many ids there are *)

CountIn(s, kind) == Cardinality({i \in DOMAIN s : s[i].kind = kind})

\* Every id is allocated for a selection of its own: of the notification or the task
\* that the selection has become, or of a task that was answered.
IdsOK ==
    ids + CountIn(tasks, "project") + CountIn(notify_queue, "select")
        <= selections + (IF loader = Idle THEN 0 ELSE 1)

ControlOK ==
    /\ native \in Builds
    /\ main \in {"idle", "notifications", "completing", "results",
                 "panels", "modal", "error", "crashed"}
    /\ should_open \in BOOLEAN
    /\ popup \in {"none", "upload", "error"}
    /\ is_raised \in BOOLEAN
    /\ choosers \in [Ids \X Externals -> Nat]
    /\ selections \in 0..MaxSelections
    /\ uploads \in 0..MaxUploads
    /\ edits \in 0..MaxEdits

\* No project is without an id but the one that is none.
NamesOK ==
    /\ project.id = None => project = NoProject
    /\ unloaded_project.id = None => unloaded_project = NoProject
    /\ \A i \in DOMAIN notify_queue :
           /\ notify_queue[i].kind = "register" => notify_queue[i].id \in Ids
           /\ notify_queue[i].kind = "edit" => notify_queue[i].id # None

LEMMA CountType ==
    ASSUME NEW S, NEW s \in Seq(S), NEW kind
    PROVE  /\ IsFiniteSet({i \in DOMAIN s : s[i].kind = kind})
           /\ CountIn(s, kind) \in Nat
<1> DEFINE I == {i \in DOMAIN s : s[i].kind = kind}
<1>1. Len(s) \in Nat /\ DOMAIN s = 1..Len(s)
  OBVIOUS
<1>2. IsFiniteSet(1..Len(s)) /\ I \in SUBSET (1..Len(s))
  BY <1>1, FS_Interval
<1>3. IsFiniteSet(I)
  BY <1>2, FS_Subset
<1>4. QED
  BY <1>3, FS_CardinalityType DEF CountIn

LEMMA CountAppend ==
    ASSUME NEW S, NEW s \in Seq(S), NEW x \in S, NEW kind
    PROVE  CountIn(Append(s, x), kind) =
               IF x.kind = kind THEN CountIn(s, kind) + 1 ELSE CountIn(s, kind)
<1> DEFINE I == {i \in DOMAIN s : s[i].kind = kind}
           J == {i \in DOMAIN Append(s, x) : Append(s, x)[i].kind = kind}
           n == Len(s) + 1
<1>1. n \notin I /\ IsFiniteSet(I)
  <2>1. n \notin I
    OBVIOUS
  <2>2. IsFiniteSet(I)
    BY CountType
  <2>3. QED
    BY <2>1, <2>2
<1>2. J = IF x.kind = kind THEN I \cup {n} ELSE I
  OBVIOUS
<1>3. Cardinality(I \cup {n}) = Cardinality(I) + 1
  BY <1>1, FS_AddElement
<1>4. QED
  BY <1>2, <1>3 DEF CountIn

\* Without its last element a sequence has one element less of the kind of that one.
LEMMA CountFront ==
    ASSUME NEW S, NEW s \in Seq(S), s # <<>>, NEW kind
    PROVE  CountIn(SubSeq(s, 1, Len(s) - 1), kind) =
               IF s[Len(s)].kind = kind THEN CountIn(s, kind) - 1 ELSE CountIn(s, kind)
<1> DEFINE t == SubSeq(s, 1, Len(s) - 1)
           I == {i \in DOMAIN s : s[i].kind = kind}
           J == {i \in DOMAIN t : t[i].kind = kind}
<1>1. IsFiniteSet(I)
  BY CountType
<1>2. Len(s) \in DOMAIN s /\ J = I \ {Len(s)}
  OBVIOUS
<1>3. Len(s) \in I <=> s[Len(s)].kind = kind
  BY <1>2
<1>4. Cardinality(I \ {Len(s)}) = IF Len(s) \in I THEN Cardinality(I) - 1 ELSE Cardinality(I)
  BY <1>1, FS_RemoveElement
<1>5. QED
  BY <1>2, <1>3, <1>4 DEF CountIn

LEMMA CountTail ==
    ASSUME NEW S, NEW s \in Seq(S), s # <<>>, NEW kind
    PROVE  CountIn(Tail(s), kind) =
               IF Head(s).kind = kind THEN CountIn(s, kind) - 1 ELSE CountIn(s, kind)
<1> DEFINE t == Tail(s)
           I == {i \in DOMAIN s : s[i].kind = kind}
           J == {i \in DOMAIN t : t[i].kind = kind}
           f == [j \in J |-> j + 1]
<1>1. IsFiniteSet(I) /\ IsFiniteSet(J)
  <2>1. t \in Seq(S)
    BY TailIndex
  <2> HIDE DEF t
  <2>2. IsFiniteSet(J)
    BY <2>1, CountType
  <2>3. IsFiniteSet(I)
    BY CountType
  <2>4. QED
    BY <2>2, <2>3
<1>2. /\ \A j \in DOMAIN t : j \in Nat /\ j + 1 \in DOMAIN s /\ j + 1 # 1 /\ t[j] = s[j + 1]
      /\ \A i \in DOMAIN s : i # 1 => i - 1 \in DOMAIN t /\ i - 1 \in Int /\ t[i - 1] = s[i]
      /\ DOMAIN s \subseteq Nat /\ 1 \in DOMAIN s /\ s[1] = Head(s)
  OBVIOUS
<1>3. f \in Bijection(J, I \ {1})
  <2>1. f \in [J -> I \ {1}]
    BY <1>2
  <2>2. \A j, k \in J : f[j] = f[k] => j = k
    BY <1>2
  <2>3. \A i \in I \ {1} : \E j \in J : f[j] = i
    <3> SUFFICES ASSUME NEW i \in I \ {1} PROVE \E j \in J : f[j] = i
      OBVIOUS
    <3>1. i - 1 \in J /\ (i - 1) + 1 = i
      BY <1>2
    <3>2. QED
      BY <3>1
  <2>4. QED
    BY <2>1, <2>2, <2>3, Fun_IsBij
<1>4. Cardinality(J) = Cardinality(I \ {1})
  BY <1>1, <1>3, FS_Bijection DEF ExistsBijection
<1>5. Cardinality(I \ {1}) = IF 1 \in I THEN Cardinality(I) - 1 ELSE Cardinality(I)
  BY <1>1, FS_RemoveElement
<1>6. QED
  BY <1>2, <1>4, <1>5 DEF CountIn

LEMMA InitBounds == Init => ControlOK /\ NamesOK /\ IdsOK
<1> SUFFICES ASSUME Init PROVE ControlOK /\ NamesOK /\ IdsOK
  OBVIOUS
<1>1. ControlOK
  <2>1. choosers \in [Ids \X Externals -> Nat]
    BY DEF Init
  <2>2. 0 \in 0..MaxSelections /\ 0 \in 0..MaxUploads /\ 0 \in 0..MaxEdits
    BY BoundsAssumption
  <2>3. QED
    BY <2>1, <2>2 DEF Init, ControlOK
<1>2. NamesOK
  BY DEF Init, NamesOK
<1>3. {i \in DOMAIN <<>> : <<>>[i].kind = "project"} = {}
      /\ {i \in DOMAIN <<>> : <<>>[i].kind = "select"} = {}
  OBVIOUS
<1>4. CountIn(<<>>, "project") = 0 /\ CountIn(<<>>, "select") = 0
  BY <1>3, FS_EmptySet DEF CountIn
<1>5. IdsOK
  BY <1>4 DEF Init, IdsOK
<1>6. QED
  BY <1>1, <1>2, <1>5

LEMMA NextControl ==
    ASSUME ControlOK, [Next]_vars
    PROVE  ControlOK'
<1> USE DEF ControlOK, Goto, held, ui, worker, user
<1>1. CASE Callbacks
  <2>1. ASSUME NEW id \in Ids, NEW external \in Externals, AnswerChooser(id, external)
        PROVE  choosers' \in [Ids \X Externals -> Nat]
    <3>1. choosers[<<id, external>>] \in Nat /\ choosers[<<id, external>>] > 0
      BY <2>1 DEF AnswerChooser
    <3>2. choosers[<<id, external>>] - 1 \in Nat
      BY <3>1
    <3>3. QED
      BY <2>1, <3>2 DEF AnswerChooser
  <2>2. ASSUME NEW id \in Ids, NEW external \in Externals, AnswerChooser(id, external)
        PROVE  ControlOK'
    BY <1>1, <2>1, <2>2 DEF Callbacks, AnswerChooser
  <2>3. ASSUME NEW file \in ProjectFiles, SelectProject(file) PROVE ControlOK'
    BY <1>1, <2>3, BoundsAssumption DEF Callbacks, SelectProject
  <2>4. QED
    BY <1>1, <2>2, <2>3 DEF Callbacks
<1>2. CASE Frame
  <2>1. UNCHANGED native
    BY <1>2 DEF Frame
  <2>2. CASE \/ HandleProjectSelected \/ HandleRegisterVFSMapping \/ HandleCancelProjectLoad
             \/ HandleEdit \/ HandleCompleteProjectLoad \/ FinishComplete
             \/ \E external \in Externals : SubmitSignalFile(external)
    BY <2>1, <2>2
       DEF HandleProjectSelected, HandleRegisterVFSMapping, HandleCancelProjectLoad, HandleEdit,
           HandleCompleteProjectLoad, FinishComplete, SubmitSignalFile, Handling
  <2>3. CASE \/ IgnoreLoadProject \/ HandleLoadProject \/ DereferenceNull
             \/ HandleLoadSignalFile \/ HandleError
    BY <2>1, <2>3
       DEF IgnoreLoadProject, HandleLoadProject, DereferenceNull, HandleLoadSignalFile,
           HandleError, Receiving
  <2>4. CASE BeginFrame \/ NotificationsDone \/ ResultsDone \/ SkipDraw \/ DrawPanels \/ EditProject
    BY <2>1, <2>4, BoundsAssumption
       DEF BeginFrame, NotificationsDone, ResultsDone, SkipDraw, DrawPanels, EditProject
  <2>5. CASE DrawUploadModal \/ PressCancel \/ PressContinue \/ DrawErrorModal \/ PressDismiss
    BY <2>1, <2>5
       DEF DrawUploadModal, PressCancel, PressContinue, DrawErrorModal, PressDismiss, UploadPopup
  <2>6. ASSUME NEW external \in Externals, PressUpload(external) PROVE ControlOK'
    <3> DEFINE c == <<upload_modal, external>>
    <3>1. choosers' = [choosers EXCEPT ![c] = @ + 1] /\ (c \in DOMAIN choosers => choosers[c] + 1 \in Nat)
      BY <2>6 DEF PressUpload, chooseFile
    <3> HIDE DEF c
    <3>2. choosers' \in [Ids \X Externals -> Nat]
      BY <3>1
    <3>3. uploads' \in 0..MaxUploads
      BY <2>6, BoundsAssumption DEF PressUpload
    <3>4. QED
      BY <2>1, <2>6, <3>2, <3>3 DEF PressUpload
  <2>7. QED
    BY <1>2, <2>2, <2>3, <2>4, <2>5, <2>6 DEF Frame
<1>3. CASE Computation
  BY <1>3 DEF Computation, StartLoadProject, SubmitSubtask, FinishLoadProject, LoadSignalFile
<1>4. CASE UNCHANGED vars
  BY <1>4 DEF vars
<1>5. QED
  BY <1>1, <1>2, <1>3, <1>4 DEF Next

\* A task for a sound file, or one that was answered, is no selection.
LEMMA NextIds ==
    ASSUME IInv, ControlOK, IdsOK, [Next]_vars
    PROVE  IdsOK'
<1> DEFINE p == CountIn(tasks, "project")
           s == CountIn(notify_queue, "select")
<1>1. /\ tasks \in Seq(AnyTask) /\ notify_queue \in Seq(Notes)
      /\ ids \in Nat /\ selections \in Nat /\ p \in Nat /\ s \in Nat
  <2>1. /\ tasks \in Seq(AnyTask) /\ notify_queue \in Seq(Notes)
        /\ ids \in Nat /\ selections \in Nat
    BY BoundsAssumption DEF IInv, TypesOK, ControlOK
  <2>2. p \in Nat
    BY <2>1, CountType
  <2>3. s \in Nat
    BY <2>1, CountType
  <2>4. QED
    BY <2>1, <2>2, <2>3
<1>2. ASSUME UNCHANGED <<ids, tasks, notify_queue, selections, loader>> PROVE IdsOK'
  BY <1>2 DEF IdsOK
<1>3. ASSUME NEW n \in Notes, Notify(n), UNCHANGED <<ids, tasks, loader>>,
             selections' = IF n.kind = "select" THEN selections + 1 ELSE selections
      PROVE  IdsOK'
  <2>1. CountIn(notify_queue', "select") = IF n.kind = "select" THEN s + 1 ELSE s
    BY <1>1, <1>3, CountAppend DEF Notify
  <2>2. QED
    BY <1>1, <1>3, <2>1 DEF IdsOK
<1>4. ASSUME notify_queue # <<>>
      PROVE  CountIn(Older, "select") = IF Newest.kind = "select" THEN s - 1 ELSE s
  BY <1>1, <1>4, CountFront DEF Older, Newest
<1>5. ASSUME NEW t \in AnyTask, UNCHANGED <<ids, selections>>, tasks' = Append(tasks, t),
             \/ /\ t.kind = "project"
                /\ notify_queue # <<>> /\ notify_queue' = Older /\ Newest.kind = "select"
                /\ UNCHANGED loader
             \/ /\ t.kind # "project" /\ UNCHANGED notify_queue
                /\ loader = Idle <=> loader' = Idle
      PROVE  IdsOK'
  <2>1. CountIn(tasks', "project") = IF t.kind = "project" THEN p + 1 ELSE p
    BY <1>1, <1>5, CountAppend
  <2>2. QED
    BY <1>1, <1>4, <1>5, <2>1 DEF IdsOK
<1>6. ASSUME notify_queue # <<>>, notify_queue' = Older, UNCHANGED <<ids, tasks, selections, loader>>
      PROVE  IdsOK'
  BY <1>1, <1>4, <1>6 DEF IdsOK
<1>7. CASE Callbacks
  <2>1. ASSUME NEW file \in ProjectFiles, SelectProject(file) PROVE IdsOK'
    <3> DEFINE n == [kind |-> "select", file |-> file]
    <3>1. n \in Notes /\ n.kind = "select"
      BY DEF Notes
    <3>2. Notify(n) /\ UNCHANGED <<ids, tasks, loader>> /\ selections' = selections + 1
      BY <2>1 DEF SelectProject, echomap_on_project_file_picked, worker
    <3> HIDE DEF n
    <3>3. QED
      BY <1>3, <3>1, <3>2
  <2>2. ASSUME NEW id \in Ids, NEW external \in Externals, AnswerChooser(id, external)
        PROVE  IdsOK'
    <3> DEFINE n == [kind |-> "register", id |-> id, external |-> external, internal |-> paths']
    <3>1. n \in Notes /\ n.kind # "select"
      BY <2>2, BoundsAssumption DEF Notes, Ids, AnswerChooser, copyFileToEmscriptenFS
    <3>2. Notify(n) /\ UNCHANGED <<ids, tasks, loader, selections>>
      BY <2>2 DEF AnswerChooser, echomap_on_register_vfs_mapping, worker
    <3> HIDE DEF n
    <3>3. QED
      BY <1>3, <3>1, <3>2
  <2>3. QED
    BY <1>7, <2>1, <2>2 DEF Callbacks
<1>8. CASE EditProject \/ PressCancel \/ PressContinue
  <2>1. PICK n \in Notes : n.kind # "select" /\ Notify(n)
    <3>1. CASE EditProject
      <4> DEFINE n == [kind |-> "edit", id |-> project.id]
      <4>1. n \in Notes /\ n.kind # "select"
        BY DEF Notes, IInv, TypesOK, AnyProject
      <4>2. Notify(n)
        BY <3>1 DEF EditProject
      <4>3. QED
        BY <4>1, <4>2
    <3>2. ASSUME NEW kind \in {"cancel", "complete"}, Notify([kind |-> kind, id |-> upload_modal])
          PROVE  \E n \in Notes : n.kind # "select" /\ Notify(n)
      <4> DEFINE n == [kind |-> kind, id |-> upload_modal]
      <4>1. n \in Notes /\ n.kind # "select"
        BY DEF Notes, IInv, TypesOK
      <4>2. QED
        BY <3>2, <4>1
    <3>3. QED
      BY <1>8, <3>1, <3>2 DEF PressCancel, PressContinue
  <2>2. UNCHANGED <<ids, tasks, loader, selections>>
    BY <1>8 DEF EditProject, PressCancel, PressContinue, worker, user
  <2>3. QED
    BY <1>3, <2>1, <2>2
<1>9. CASE HandleProjectSelected
  <2> DEFINE t == [kind |-> "project", file |-> Newest.file]
  <2>1. /\ notify_queue # <<>> /\ Newest.kind = "select" /\ notify_queue' = Older
        /\ tasks' = Append(tasks, t) /\ UNCHANGED <<ids, loader, selections>>
    BY <1>9 DEF HandleProjectSelected, Handling, user
  <2>2. Newest \in Notes
    BY <1>1, <2>1, FrontIndex DEF Newest
  <2>3. t \in AnyTask /\ t.kind = "project"
    BY <2>1, <2>2 DEF Notes, AnyTask
  <2> HIDE DEF t
  <2>4. QED
    BY <1>5, <2>1, <2>3
<1>10. CASE \/ HandleRegisterVFSMapping \/ HandleCancelProjectLoad \/ HandleEdit
            \/ HandleCompleteProjectLoad
  <2>1. /\ UNCHANGED <<ids, tasks, selections, loader>>
        /\ UNCHANGED notify_queue \/ (notify_queue # <<>> /\ notify_queue' = Older)
    BY <1>10 DEF HandleRegisterVFSMapping, HandleCancelProjectLoad, HandleEdit,
                 HandleCompleteProjectLoad, Handling, worker, user
  <2>2. QED
    BY <1>2, <1>6, <2>1
<1>11. CASE FinishComplete \/ \E external \in Externals : SubmitSignalFile(external)
  <2>1. main = "completing" /\ notify_queue # <<>>
    BY <1>11 DEF FinishComplete, SubmitSignalFile, Goto, IInv, QueueOK
  <2>2. \/ /\ UNCHANGED <<ids, tasks, selections, loader>>
           /\ notify_queue' = Older
        \/ /\ UNCHANGED <<ids, notify_queue, selections, loader>>
           /\ \E external \in Externals :
                  tasks' = Append(tasks, [kind |-> "signals", id |-> unloaded_project.id,
                                          external |-> external])
    BY <1>11 DEF FinishComplete, SubmitSignalFile, worker, user
  <2>3. ASSUME NEW external \in Externals, UNCHANGED <<ids, notify_queue, selections, loader>>,
               tasks' = Append(tasks, [kind |-> "signals", id |-> unloaded_project.id,
                                       external |-> external])
        PROVE  IdsOK'
    <3> DEFINE t == [kind |-> "signals", id |-> unloaded_project.id, external |-> external]
    <3>1. t \in AnyTask /\ t.kind # "project" /\ tasks' = Append(tasks, t)
      BY <2>3 DEF IInv, TypesOK, AnyProject, AnyTask, FileJobs
    <3> HIDE DEF t
    <3>2. QED
      BY <1>5, <2>3, <3>1
  <2>4. QED
    BY <1>6, <2>1, <2>2, <2>3
<1>12. CASE \/ IgnoreLoadProject \/ HandleLoadProject \/ DereferenceNull
            \/ HandleLoadSignalFile \/ HandleError
  BY <1>2, <1>12 DEF IgnoreLoadProject, HandleLoadProject, DereferenceNull,
                     HandleLoadSignalFile, HandleError, Receiving, user
<1>13. CASE \/ BeginFrame \/ NotificationsDone \/ ResultsDone \/ SkipDraw \/ DrawPanels
            \/ DrawUploadModal \/ DrawErrorModal \/ PressDismiss
            \/ \E external \in Externals : PressUpload(external)
  BY <1>2, <1>13 DEF BeginFrame, NotificationsDone, ResultsDone, SkipDraw, DrawPanels,
                     DrawUploadModal, DrawErrorModal, PressDismiss, PressUpload, worker, user
<1>14. CASE StartLoadProject
  <2>1. /\ loader = Idle /\ loader'.id = ids + 1 /\ ids' = ids + 1
        /\ UNCHANGED <<tasks, notify_queue, selections>>
    BY <1>14 DEF StartLoadProject, user
  <2>2. loader' # Idle
    BY <1>1, <2>1 DEF Idle, None
  <2>3. QED
    BY <1>1, <2>1, <2>2 DEF IdsOK
<1>15. ASSUME NEW external \in Externals, SubmitSubtask(external) PROVE IdsOK'
  <2> DEFINE t == [kind |-> "signals", id |-> loader.id, external |-> external]
  <2>1. t \in AnyTask /\ t.kind # "project"
    BY DEF IInv, TypesOK, AnyTask, FileJobs
  <2>2. /\ tasks' = Append(tasks, t) /\ UNCHANGED <<ids, notify_queue, selections>>
        /\ external \in loader.todo /\ loader' = [loader EXCEPT !.todo = @ \ {external}]
    BY <1>15 DEF SubmitSubtask, user
  <2>3. loader # Idle /\ loader' # Idle
    <3>1. loader.id # None
      BY <2>2 DEF IInv, LoaderOK, Idle
    <3>2. loader'.id = loader.id
      BY <2>2 DEF IInv, TypesOK
    <3>3. QED
      BY <3>1, <3>2 DEF Idle
  <2> HIDE DEF t
  <2>4. QED
    BY <1>5, <2>1, <2>2, <2>3
<1>16. ASSUME tasks # <<>>, tasks' = Tail(tasks), UNCHANGED <<ids, notify_queue, selections>>,
              IF Head(tasks).kind = "project" THEN loader' = Idle ELSE loader' = loader
       PROVE  IdsOK'
  <2>1. CountIn(tasks', "project") = IF Head(tasks).kind = "project" THEN p - 1 ELSE p
    BY <1>1, <1>16, CountTail
  <2>2. QED
    BY <1>1, <1>16, <2>1 DEF IdsOK
<1>17. CASE LoadSignalFile \/ \E end \in LoadEnds : FinishLoadProject(end)
  BY <1>16, <1>17 DEF LoadSignalFile, FinishLoadProject, Answering, Answer, user
<1>18. CASE UNCHANGED vars
  BY <1>2, <1>18 DEF vars, worker, user
<1>19. QED
  BY <1>7, <1>8, <1>9, <1>10, <1>11, <1>12, <1>13, <1>14, <1>15, <1>17, <1>18
     DEF Next, Frame, Computation

LEMMA NextNames ==
    ASSUME IInv, NamesOK, [Next]_vars
    PROVE  NamesOK'
<1> DEFINE Registered(q) == \A i \in DOMAIN q :
               /\ q[i].kind = "register" => q[i].id \in Ids
               /\ q[i].kind = "edit" => q[i].id # None
           Named(x) == x.id = None => x = NoProject
<1>1. Registered(notify_queue) /\ Named(project) /\ Named(unloaded_project)
  BY DEF NamesOK
<1>2. notify_queue \in Seq(Notes) /\ results \in Seq(AnyResult)
      /\ project \in AnyProject /\ unloaded_project \in AnyProject
  BY DEF IInv, TypesOK
<1>3. notify_queue # <<>> => Registered(Older) /\ Newest \in Notes
                             /\ (Newest.kind = "register" => Newest.id \in Ids)
  BY <1>1, <1>2, FrontIndex DEF Older, Newest
<1>4. ASSUME NEW n \in Notes, n.kind = "register" => n.id \in Ids,
             n.kind = "edit" => n.id # None
      PROVE  Registered(Append(notify_queue, n))
  BY <1>1, <1>2, <1>4, AppendIndex
<1>5. ASSUME Registered(notify_queue'), Named(project'), Named(unloaded_project') PROVE NamesOK'
  BY <1>5 DEF NamesOK, NoProject, None
<1>6. \A id \in Ids : id # None
  BY DEF Ids, None
<1> HIDE DEF Registered
<1>7. CASE Callbacks
  <2>1. UNCHANGED <<project, unloaded_project>>
    BY <1>7 DEF Callbacks, SelectProject, AnswerChooser, held
  <2>2. ASSUME NEW file \in ProjectFiles, SelectProject(file) PROVE Registered(notify_queue')
    <3> DEFINE n == [kind |-> "select", file |-> file]
    <3>1. n \in Notes /\ n.kind \notin {"register", "edit"}
      BY DEF Notes
    <3>2. notify_queue' = Append(notify_queue, n)
      BY <2>2 DEF SelectProject, echomap_on_project_file_picked, Notify
    <3> HIDE DEF n
    <3>3. QED
      BY <1>4, <3>1, <3>2
  <2>3. ASSUME NEW id \in Ids, NEW external \in Externals, AnswerChooser(id, external)
        PROVE  Registered(notify_queue')
    <3> DEFINE n == [kind |-> "register", id |-> id, external |-> external, internal |-> paths']
    <3>1. n \in Notes /\ n.kind = "register" /\ n.id \in Ids
      BY <2>3, BoundsAssumption DEF Notes, Ids, AnswerChooser, copyFileToEmscriptenFS
    <3>2. notify_queue' = Append(notify_queue, n)
      BY <2>3 DEF AnswerChooser, echomap_on_register_vfs_mapping, Notify
    <3> HIDE DEF n
    <3>3. QED
      BY <1>4, <3>1, <3>2
  <2>4. QED
    BY <1>1, <1>5, <1>7, <2>1, <2>2, <2>3 DEF Callbacks
<1>8. CASE EditProject \/ PressCancel \/ PressContinue
  <2>1. UNCHANGED <<project, unloaded_project>>
    BY <1>8 DEF EditProject, PressCancel, PressContinue, held
  <2>2. ASSUME NEW kind \in {"edit", "cancel", "complete"}, NEW id \in Nat,
               kind = "edit" => id # None,
               notify_queue' = Append(notify_queue, [kind |-> kind, id |-> id])
        PROVE  Registered(notify_queue')
    <3> DEFINE n == [kind |-> kind, id |-> id]
    <3>1. n \in Notes /\ n.kind # "register" /\ (n.kind = "edit" => n.id # None)
      BY <2>2 DEF Notes
    <3> HIDE DEF n
    <3>2. Registered(Append(notify_queue, n))
      BY <1>4, <3>1
    <3>3. QED
      BY <2>2, <3>2 DEF n
  <2>3. project.id \in Nat /\ upload_modal \in Nat
    BY DEF IInv, TypesOK, AnyProject
  <2>4. Registered(notify_queue')
    BY <1>8, <2>2, <2>3 DEF EditProject, PressCancel, PressContinue, Notify
  <2>5. QED
    BY <1>1, <1>5, <2>1, <2>4
<1>9. CASE HandleRegisterVFSMapping
  <2>1. /\ notify_queue # <<>> /\ notify_queue' = Older /\ Newest.kind = "register"
        /\ project' = project
    BY <1>9 DEF HandleRegisterVFSMapping, Handling
  <2>2. CASE unloaded_project' = unloaded_project
    BY <1>1, <1>3, <1>5, <2>1, <2>2
  <2>3. CASE unloaded_project' # unloaded_project
    <3>1. Newest.id = unloaded_project.id /\ unloaded_project'.id = unloaded_project.id
      BY <1>2, <1>9, <2>3 DEF HandleRegisterVFSMapping, AnyProject
    <3>2. QED
      BY <1>1, <1>3, <1>5, <1>6, <2>1, <3>1
  <2>4. QED
    BY <2>2, <2>3
<1>10. CASE \/ HandleProjectSelected \/ HandleEdit \/ HandleCompleteProjectLoad
            \/ HandleCancelProjectLoad
  <2>1. /\ project' = project /\ unloaded_project' \in {unloaded_project, NoProject}
        /\ notify_queue' = notify_queue \/ (notify_queue # <<>> /\ notify_queue' = Older)
    BY <1>10 DEF HandleProjectSelected, HandleEdit, HandleCompleteProjectLoad,
                 HandleCancelProjectLoad, Handling, held
  <2>2. QED
    BY <1>1, <1>3, <1>5, <2>1
<1>11. CASE FinishComplete \/ \E external \in Externals : SubmitSignalFile(external)
  <2>1. notify_queue # <<>>
    BY <1>11 DEF FinishComplete, SubmitSignalFile, Goto, IInv, QueueOK
  <2>2. /\ UNCHANGED <<project, unloaded_project>>
        /\ notify_queue' = notify_queue \/ notify_queue' = Older
    BY <1>11 DEF FinishComplete, SubmitSignalFile, held
  <2>3. QED
    BY <1>1, <1>3, <1>5, <2>1, <2>2
<1>12. CASE HandleLoadProject
  <2>1. /\ results # <<>> /\ Head(results).kind = "project" /\ Head(results).project # NoProject
        /\ project' \in {project, Head(results).project}
        /\ unloaded_project' \in {unloaded_project, Head(results).project}
        /\ notify_queue' = notify_queue
    BY <1>12 DEF HandleLoadProject, Receiving, publish
  <2>2. 1 \in DOMAIN results /\ Head(results) = results[1]
    BY <1>2, <2>1, TailIndex
  <2>3. Head(results).project.id # None
    BY <2>1, <2>2 DEF IInv, LoadedOK
  <2>4. QED
    BY <1>1, <1>5, <2>1, <2>3
<1>13. CASE HandleLoadSignalFile
  <2>1. /\ results # <<>> /\ Head(results).kind = "signals" /\ notify_queue' = notify_queue
        /\ \/ UNCHANGED <<project, unloaded_project>>
           \/ /\ project' = WithSignals(project, Head(results).external)
              /\ Head(results).id = project.id
              /\ unloaded_project' = unloaded_project
           \/ /\ project' = WithSignals(unloaded_project, Head(results).external)
              /\ Head(results).id = unloaded_project.id
              /\ unloaded_project' = NoProject
    BY <1>13 DEF HandleLoadSignalFile, Receiving, publish
  <2>2. 1 \in DOMAIN results /\ Head(results) = results[1]
    BY <1>2, <2>1, TailIndex
  <2>3. Head(results).id # None
    BY <2>1, <2>2 DEF IInv, FilesOK, FileOK
  <2>4. \A x \in AnyProject : WithSignals(x, Head(results).external).id = x.id
    BY DEF WithSignals, AnyProject
  <2>5. QED
    BY <1>1, <1>2, <1>5, <2>1, <2>3, <2>4
<1>14. CASE \/ IgnoreLoadProject \/ DereferenceNull \/ HandleError \/ Computation \/ UNCHANGED vars
            \/ BeginFrame \/ NotificationsDone \/ ResultsDone \/ SkipDraw \/ DrawPanels
            \/ DrawUploadModal \/ DrawErrorModal \/ PressDismiss
            \/ \E external \in Externals : PressUpload(external)
  <2>1. UNCHANGED <<notify_queue, project, unloaded_project>>
    <3>1. CASE IgnoreLoadProject \/ DereferenceNull \/ HandleError \/ UNCHANGED vars
      BY <3>1 DEF IgnoreLoadProject, DereferenceNull, HandleError, vars, held
    <3>2. CASE Computation
      BY <3>2 DEF Computation, StartLoadProject, SubmitSubtask, FinishLoadProject,
                  LoadSignalFile, held
    <3>3. CASE BeginFrame \/ NotificationsDone \/ ResultsDone \/ SkipDraw \/ DrawPanels
      BY <3>3 DEF BeginFrame, NotificationsDone, ResultsDone, SkipDraw, DrawPanels, held
    <3>4. CASE \/ DrawUploadModal \/ DrawErrorModal \/ PressDismiss
               \/ \E external \in Externals : PressUpload(external)
      BY <3>4 DEF DrawUploadModal, DrawErrorModal, PressDismiss, PressUpload, held
    <3>5. QED
      BY <1>14, <3>1, <3>2, <3>3, <3>4
  <2>2. QED
    BY <1>1, <1>5, <2>1
<1>15. QED
  BY <1>7, <1>8, <1>9, <1>10, <1>11, <1>12, <1>13, <1>14 DEF Next, Frame

\* A project is being constructed for a task that has not been answered, so there are no
\* more ids than selections.
LEMMA IdsBound ==
    ASSUME IInv, ControlOK, IdsOK
    PROVE  ids <= selections /\ ids \in 0..MaxSelections
<1> DEFINE p == CountIn(tasks, "project")
           s == CountIn(notify_queue, "select")
<1>1. /\ tasks \in Seq(AnyTask) /\ notify_queue \in Seq(Notes)
      /\ ids \in Nat /\ selections \in 0..MaxSelections
  BY DEF IInv, TypesOK, ControlOK
<1>2. p \in Nat
  BY <1>1, CountType
<1>3. s \in Nat
  BY <1>1, CountType
<1>4. loader # Idle => p > 0
  <2>1. SUFFICES ASSUME loader # Idle PROVE p > 0
    OBVIOUS
  <2>2. tasks # <<>> /\ Head(tasks).kind = "project"
    BY <2>1 DEF IInv, LoaderOK
  <2>3. CountIn(Tail(tasks), "project") = p - 1
    BY <1>1, <2>2, CountTail
  <2>4. Tail(tasks) \in Seq(AnyTask)
    BY <1>1, <2>2, TailIndex
  <2>5. CountIn(Tail(tasks), "project") \in Nat
    BY <2>4, CountType
  <2>6. QED
    BY <1>2, <2>3, <2>5
<1>5. QED
  BY <1>1, <1>2, <1>3, <1>4, BoundsAssumption DEF IdsOK

LEMMA SeqOf ==
    ASSUME NEW S, NEW T, NEW s \in Seq(S), \A i \in DOMAIN s : s[i] \in T
    PROVE  s \in Seq(T)
  OBVIOUS

LEMMA Types ==
    ASSUME IInv, ControlOK, NamesOK, IdsOK
    PROVE  TypeOK
<1>1. ids \in 0..MaxSelections
  BY IdsBound
<1>2. \A id \in Nat : id # None /\ id <= ids => id \in Ids
  BY <1>1, BoundsAssumption DEF Ids, None
<1>3. /\ project \in AnyProject /\ unloaded_project \in AnyProject /\ upload_modal \in Nat
      /\ notify_queue \in Seq(Notes) /\ tasks \in Seq(AnyTask) /\ results \in Seq(AnyResult)
      /\ loader \in [id : Nat, todo : SUBSET Externals] /\ cancelled \subseteq Nat
  BY DEF IInv, TypesOK
<1>4. \A x \in AnyProject : x.id # None /\ x.id <= ids => x \in Projects
  BY <1>2 DEF AnyProject, Projects
<1>5. project \in Projects \cup {NoProject} /\ unloaded_project \in Projects \cup {NoProject}
  BY <1>3, <1>4 DEF IInv, PlacesOK, NamesOK
<1>6. upload_modal \in Ids \cup {None}
  BY <1>2, <1>3 DEF IInv, PlacesOK, ModalOK
<1>7. cancelled \subseteq Ids
  BY <1>2, <1>3 DEF IInv, PlacesOK
<1>8. loader \in Loaders
  BY <1>2, <1>3 DEF IInv, LoaderOK, Loaders, Idle
<1>9. tasks \in Seq(Tasks)
  <2>1. ASSUME NEW i \in DOMAIN tasks PROVE tasks[i] \in Tasks
    <3>1. tasks[i] \in AnyTask
      BY <1>3
    <3>2. CASE tasks[i] \in FileJobs
      BY <1>2, <3>2 DEF FileJobs, FileTasks, Tasks, IInv, FilesOK, FileOK
    <3>3. QED
      BY <3>1, <3>2 DEF AnyTask, Tasks
  <2>2. QED
    BY <1>3, <2>1, SeqOf
<1>10. results \in Seq(Results)
  <2>1. ASSUME NEW i \in DOMAIN results PROVE results[i] \in Results
    <3>1. results[i] \in AnyResult
      BY <1>3
    <3>2. CASE results[i] \in FileJobs
      BY <1>2, <3>2 DEF FileJobs, FileTasks, Results, IInv, FilesOK, FileOK
    <3>3. CASE results[i] \in [kind : {"project"}, project : AnyProject]
      <4>1. results[i].project \in Projects \cup {NoProject}
        BY <1>4, <3>3 DEF IInv, LoadedOK
      <4>2. QED
        BY <3>3, <4>1 DEF Results
    <3>4. QED
      BY <3>1, <3>2, <3>3 DEF AnyResult, Results
  <2>2. QED
    BY <1>3, <2>1, SeqOf
<1>11. notify_queue \in Seq(Notifications)
  <2>1. ASSUME NEW i \in DOMAIN notify_queue PROVE notify_queue[i] \in Notifications
    <3>1. notify_queue[i] \in Notes
      BY <1>3
    <3>2. CASE notify_queue[i].kind = "edit"
      <4>1. notify_queue[i].id = project.id /\ notify_queue[i].id # None
        BY <3>2 DEF IInv, QueueOK, NamesOK
      <4>2. notify_queue[i].id \in Ids
        BY <1>2, <1>3, <4>1 DEF AnyProject, IInv, PlacesOK
      <4>3. QED
        BY <3>1, <3>2, <4>2 DEF Notes, Notifications
    <3>3. CASE IsDecision(notify_queue[i])
      <4>1. notify_queue[i].id \in Ids
        BY <1>6, <3>3 DEF IInv, QueueOK
      <4>2. QED
        BY <3>1, <3>3, <4>1 DEF IsDecision, Notes, Notifications
    <3>4. CASE notify_queue[i].kind = "register"
      <4>1. notify_queue[i].id \in Ids
        BY <3>4 DEF NamesOK
      <4>2. QED
        BY <3>1, <3>4, <4>1 DEF Notes, Notifications
    <3>5. QED
      BY <3>1, <3>2, <3>3, <3>4 DEF Notes, Notifications, IsDecision
  <2>2. QED
    BY <1>3, <2>1, SeqOf
<1>12. paths \in 0..MaxUploads /\ todo \subseteq Externals
  BY BoundsAssumption DEF IInv, TypesOK, Paths, None
<1>13. QED
  BY <1>1, <1>5, <1>6, <1>7, <1>8, <1>9, <1>10, <1>11, <1>12 DEF TypeOK, ControlOK

Bounds == ControlOK /\ NamesOK /\ IdsOK

\* The types of the program (TypeOK): whatever is queued, under way, active, unloaded or
\* cancelled has an id that was allocated for a selection of its own.
THEOREM TypeCorrect == Spec => []TypeOK
<1>1. IInv /\ Bounds /\ [Next]_vars => Bounds'
  BY NextControl, NextNames, NextIds DEF Bounds
<1>2. Spec => []Bounds
  BY <1>1, InitBounds, Invariance, PTL DEF Spec, Bounds
<1>3. IInv /\ Bounds => TypeOK
  BY Types DEF Bounds
<1>4. QED
  BY <1>2, <1>3, Invariance, PTL
==============================================================================
