--------------------------- MODULE EventLoopProofs ---------------------------
(***************************************************************************)
(* The safety of the event loop, for every number of tasks and every set   *)
(* of window sizes.  The properties speak of the main thread asleep; the   *)
(* inductive invariant says what has to hold in each phase of a frame so   *)
(* that it may go to sleep at its end.                                     *)
(***************************************************************************)
EXTENDS EventLoop, TLAPS

\* The sizes, the only types the argument needs.
SizesOK ==
    /\ framebuffer \in Sizes \cup {Hidden}
    /\ viewport \in Sizes \cup {Hidden}

\* From the end of process_worker_results on, whoever posts a result wakes the
\* main thread, or has done so.
Woken ==
    main \in {"resize", "draw", "events"} /\ result_queue # <<>> =>
        event \/ pc = "callback"

\* A change of the window after the viewport was read is a pending event.
Fresh ==
    main \in {"draw", "events"} /\ framebuffer # Hidden /\ ~event =>
        framebuffer = viewport

Configured ==
    /\ main \in {"imgui", "process", "resize", "draw", "events", "destructor"} =>
           surface = viewport
    /\ main = "draw" => viewport \in Sizes

IInv == SizesOK /\ Woken /\ Fresh /\ Configured

------------------------------------------------------------------------------

LEMMA InitIInv == Init => IInv
  BY DEF Init, IInv, SizesOK, Woken, Fresh, Configured

LEMMA ConstructStep == IInv /\ Construct => IInv'
  BY DEF IInv, SizesOK, Woken, Fresh, Configured, Construct, create_window,
         AbandonConstruction, GetFramebufferSize, create_surface, request_adapter, request_device,
         FailConstruction, ConfigureSurface, configure_surface, setup_imgui, Goto, graphics,
         worker

\* Polling and waiting take the events, and the results are looked at next.
LEMMA EventStep == IInv /\ (PollEvents \/ WaitEvents \/ UserEvent) => IInv'
<1> SUFFICES ASSUME IInv, PollEvents \/ WaitEvents \/ UserEvent PROVE IInv'
  OBVIOUS
<1> USE DEF IInv, SizesOK, Woken, Fresh, Configured, graphics, worker
<1>1. CASE PollEvents
  BY <1>1 DEF PollEvents, TakeEvents, Goto
<1>2. CASE WaitEvents
  BY <1>2 DEF WaitEvents, TakeEvents, Goto
<1>3. CASE UserEvent
  BY <1>3 DEF UserEvent
<1>4. QED
  BY <1>1, <1>2, <1>3

LEMMA RenderStep == IInv /\ Render => IInv'
<1> SUFFICES ASSUME IInv, Render PROVE IInv'
  OBVIOUS
<1> USE DEF IInv, SizesOK, Woken, Fresh, Configured, graphics, worker
<1>1. CASE ReceiveResult
  BY <1>1 DEF ReceiveResult
<1>2. CASE ProcessDone
  BY <1>2 DEF ProcessDone, Goto
<1>3. CASE HiddenWindow
  BY <1>3 DEF HiddenWindow, GiveUp
<1>4. CASE handle_window_resize
  BY <1>4 DEF handle_window_resize, configure_surface, Goto
<1>5. CASE LostSurface
  BY <1>5 DEF LostSurface, GiveUp, configure_surface
<1>6. CASE LateTexture
  BY <1>6 DEF LateTexture, GiveUp
<1>7. CASE Draw
  BY <1>7 DEF Draw, DrawPanels, DrawFrame, Goto
<1>8. CASE DrawAndSubmit
  BY <1>8 DEF DrawAndSubmit, DrawPanels, DrawFrame, Goto, Worker!Submit, Worker!thread
<1>9. QED
  BY <1>1, <1>2, <1>3, <1>4, <1>5, <1>6, <1>7, <1>8 DEF Render

LEMMA DestructionStep == IInv /\ (LeaveLoop \/ Terminate \/ StopWorker \/ JoinWorker) => IInv'
<1> SUFFICES ASSUME IInv, LeaveLoop \/ Terminate \/ StopWorker \/ JoinWorker PROVE IInv'
  OBVIOUS
<1> USE DEF IInv, SizesOK, Woken, Fresh, Configured, graphics, worker, Goto
<1>1. CASE LeaveLoop
  BY <1>1 DEF LeaveLoop
<1>2. CASE Terminate
  BY <1>2 DEF Terminate
<1>3. CASE StopWorker
  BY <1>3 DEF StopWorker
<1>4. CASE JoinWorker
  BY <1>4 DEF JoinWorker
<1>5. QED
  BY <1>1, <1>2, <1>3, <1>4

\* The computation thread leaves the window alone.  A result is there no earlier
\* than its callback is due, and nothing else happens on the thread before that.
LEMMA ThreadStep == IInv /\ (Compute \/ Callback \/ SubmitSubtask) => IInv'
<1> SUFFICES ASSUME IInv, Compute \/ Callback \/ SubmitSubtask PROVE IInv'
  OBVIOUS
<1>1. Woken'
  <2>1. CASE Worker!PostResult /\ UNCHANGED main
    BY <2>1 DEF Worker!PostResult, Woken
  <2>2. CASE Callback
    BY <2>2 DEF Callback, Woken
  <2>3. CASE SubmitSubtask
    BY <2>3 DEF SubmitSubtask, Worker!SubmitSubtask, Worker!thread, IInv, Woken
  <2>4. CASE Compute /\ ~Worker!PostResult
    <3>1. UNCHANGED <<result_queue, main, event>> /\ pc # "callback"
      BY <2>4 DEF Compute, Worker!LoopTest, Worker!WaitConsume, Worker!WaitInterrupted,
                  Worker!StartWork, Worker!RefuseWork, Worker!FinishWork
    <3>2. QED
      BY <3>1 DEF IInv, Woken
  <2>5. QED
    BY <2>1, <2>2, <2>3, <2>4 DEF Compute
<1>2. (SizesOK /\ Fresh /\ Configured)'
  BY DEF IInv, SizesOK, Fresh, Configured, Compute, Callback, SubmitSubtask,
         graphics
<1>3. QED
  BY <1>1, <1>2 DEF IInv

LEMMA NextIInv == IInv /\ [Next]_vars => IInv'
<1> SUFFICES ASSUME IInv, [Next]_vars PROVE IInv'
  OBVIOUS
<1>1. CASE UNCHANGED vars
  BY <1>1 DEF vars, worker, graphics, IInv, SizesOK, Woken, Fresh, Configured
<1>2. CASE Next
  BY <1>2, ConstructStep, EventStep, RenderStep, DestructionStep, ThreadStep DEF Next, Loop
<1>3. QED
  BY <1>1, <1>2

\* What every phase of a frame leaves for the next one (EchoMap.cpp:104-115).
THEOREM Invariance == Spec => []IInv
  BY InitIInv, NextIInv, PTL DEF Spec

------------------------------------------------------------------------------

\* No result is left for the user to wake the main thread for, whatever number
\* of tasks there is: EchoMap::EchoMap gives the Worker a callback that posts
\* an event, and process_worker_results drains the queue after each wake-up.
THEOREM NoStrandedResultHolds == Spec => []NoStrandedResult
<1>1. IInv => NoStrandedResult
  BY DEF IInv, Woken, NoStrandedResult, Asleep
<1>2. QED
  BY <1>1, Invariance, PTL

\* The surface has the size of the window whenever the main thread sleeps or
\* draws, for any sizes: handle_window_resize and configure_surface.
THEOREM SurfaceFollowsWindowHolds == Spec => []SurfaceFollowsWindow
<1>1. IInv => SurfaceFollowsWindow
  <2> SUFFICES ASSUME IInv PROVE SurfaceFollowsWindow
    OBVIOUS
  <2>1. viewport # Unconfigured
    BY SizesAssumption DEF IInv, SizesOK, Hidden, Unconfigured
  <2>2. QED
    BY <2>1 DEF IInv, Fresh, Configured, SurfaceFollowsWindow, Asleep
<1>2. QED
  BY <1>1, Invariance, PTL

------------------------------------------------------------------------------
(* The Worker in the program: what the main thread and the computation     *)
(* thread do is what the module Worker says of an owner and a thread, so   *)
(* its theorems hold of the composition.                                   *)

WorkerTheorems == INSTANCE WorkerProofs

LEMMA OtherSteps ==
    UNCHANGED worker => UNCHANGED Worker!vars
  BY DEF worker, Worker!vars, Worker!thread, Worker!history

LEMMA ConstructWorker == Construct => [Worker!Next]_(Worker!vars)
  BY OtherSteps DEF Construct, create_window, AbandonConstruction, GetFramebufferSize,
         create_surface, request_adapter, request_device, FailConstruction, ConfigureSurface,
         setup_imgui, Worker!Next, Worker!Owner

LEMMA EventWorker == PollEvents \/ WaitEvents \/ UserEvent => UNCHANGED Worker!vars
  BY OtherSteps DEF PollEvents, WaitEvents, TakeEvents, UserEvent

LEMMA RenderWorker == Render => [Worker!Next]_(Worker!vars)
  BY OtherSteps DEF Render, ReceiveResult, ProcessDone, HiddenWindow, GiveUp,
         handle_window_resize, LostSurface, LateTexture, Draw, DrawPanels, DrawAndSubmit,
         Worker!Next, Worker!Owner

LEMMA DestructionWorker == LeaveLoop \/ Terminate \/ StopWorker \/ JoinWorker => [Worker!Next]_(Worker!vars)
  BY OtherSteps DEF LeaveLoop, Terminate, StopWorker, JoinWorker, Worker!Next, Worker!Owner

LEMMA ThreadWorker == Compute \/ Callback \/ SubmitSubtask => Worker!Next
  BY DEF Compute, Callback, SubmitSubtask, Worker!Next, Worker!Thread

\* Every step of the program is one of the Worker or none of its business.
THEOREM ComposedWorker == Spec => Worker!Spec
<1>1. Init => Worker!Init
  BY DEF Init
<1>2. [Next]_vars => [Worker!Next]_(Worker!vars)
  <2>1. UNCHANGED vars => UNCHANGED Worker!vars
    BY OtherSteps DEF vars
  <2>2. QED
    BY <2>1, ConstructWorker, EventWorker, RenderWorker, DestructionWorker, ThreadWorker
       DEF Next, Loop
<1>3. QED
  BY <1>1, <1>2, PTL DEF Spec, Worker!Spec

\* The main thread never calls Worker::clear.
Uncleared == discarded = {} /\ owner # "clearing"

LEMMA NeverCleared == Spec => []Uncleared
<1>1. Init => Uncleared
  BY DEF Init, Worker!Init, Uncleared
<1>2. Uncleared /\ [Next]_vars => Uncleared'
  <2> SUFFICES ASSUME Uncleared, [Next]_vars PROVE Uncleared'
    OBVIOUS
  <2> USE DEF Uncleared
  <2>1. CASE UNCHANGED vars
    BY <2>1 DEF vars, worker
  <2>2. CASE Construct
    BY <2>2 DEF Construct, create_window, AbandonConstruction, GetFramebufferSize,
           create_surface, request_adapter, request_device, FailConstruction,
           ConfigureSurface, setup_imgui, worker, Worker!RequestStop, Worker!history
  <2>3. CASE PollEvents \/ WaitEvents \/ UserEvent
    BY <2>3 DEF PollEvents, WaitEvents, TakeEvents, UserEvent, worker
  <2>4. CASE Render
    BY <2>4 DEF Render, ReceiveResult, ProcessDone, HiddenWindow, GiveUp,
           handle_window_resize, LostSurface, LateTexture, Draw, DrawAndSubmit, DrawPanels, DrawFrame, worker,
           Worker!TryGetResult, Worker!Submit, Worker!history
  <2>5. CASE LeaveLoop \/ Terminate \/ StopWorker \/ JoinWorker
    BY <2>5 DEF LeaveLoop, Terminate, StopWorker, JoinWorker, worker, Worker!RequestStop, Worker!Join,
           Worker!history
  <2>6. CASE Compute \/ Callback \/ SubmitSubtask
    BY <2>6 DEF Compute, Callback, SubmitSubtask, Worker!LoopTest, Worker!WaitConsume,
           Worker!WaitInterrupted, Worker!StartWork, Worker!RefuseWork, Worker!FinishWork,
           Worker!PostResult, Worker!Callback, Worker!SubmitSubtask, Worker!history
  <2>7. QED
    BY <2>1, <2>2, <2>3, <2>4, <2>5, <2>6 DEF Next, Loop
<1>3. QED
  BY <1>1, <1>2, PTL DEF Spec

\* The theorems name the definitions of the Worker by the instance they come through.
LEMMA SameInit == Worker!Init => WorkerTheorems!Init
  BY DEF Worker!Init, WorkerTheorems!Init, Worker!NoTask, WorkerTheorems!NoTask

LEMMA SameOwner == Worker!Owner => WorkerTheorems!Owner
  BY DEF Worker!Owner, WorkerTheorems!Owner, Worker!InUse, WorkerTheorems!InUse, Worker!Submit, WorkerTheorems!Submit,
         Worker!Produce, WorkerTheorems!Produce, Worker!TryGetResult,
         WorkerTheorems!TryGetResult, Worker!ClearTasks, WorkerTheorems!ClearTasks,
         Worker!ClearResults, WorkerTheorems!ClearResults, Worker!RequestStop,
         WorkerTheorems!RequestStop, Worker!Join, WorkerTheorems!Join, Worker!Elements,
         WorkerTheorems!Elements, Worker!TasksOf, WorkerTheorems!TasksOf, Worker!thread,
         WorkerTheorems!thread, Worker!history, WorkerTheorems!history

LEMMA SameThread == Worker!Thread \/ Worker!SubmitSubtask =>
                    WorkerTheorems!Thread \/ WorkerTheorems!SubmitSubtask
  BY DEF Worker!Thread, WorkerTheorems!Thread, Worker!NoTask, WorkerTheorems!NoTask, Worker!LoopTest, WorkerTheorems!LoopTest,
         Worker!WaitConsume, WorkerTheorems!WaitConsume, Worker!WaitInterrupted,
         WorkerTheorems!WaitInterrupted, Worker!StartWork, WorkerTheorems!StartWork,
         Worker!RefuseWork, WorkerTheorems!RefuseWork, Worker!FinishWork,
         WorkerTheorems!FinishWork, Worker!PostResult, WorkerTheorems!PostResult,
         Worker!Callback, WorkerTheorems!Callback, Worker!SubmitSubtask,
         WorkerTheorems!SubmitSubtask, Worker!Outcomes, WorkerTheorems!Outcomes,
         Worker!Produce, WorkerTheorems!Produce, Worker!thread, WorkerTheorems!thread,
         Worker!history, WorkerTheorems!history

LEMMA SameSpec == Worker!Spec => WorkerTheorems!Spec
<1>1. [Worker!Next]_(Worker!vars) => [WorkerTheorems!Next]_(WorkerTheorems!vars)
  BY SameOwner, SameThread DEF Worker!vars, WorkerTheorems!vars, Worker!thread, WorkerTheorems!thread,
         Worker!history, WorkerTheorems!history, Worker!Next, WorkerTheorems!Next
<1>2. QED
  BY SameInit, <1>1, PTL DEF Worker!Spec, WorkerTheorems!Spec

\* In the program every task that was submitted, by the main thread or by another
\* task, is queued, in execution or answered, and never twice: a frame that is
\* given up, a window that is closed and a constructor that fails lose none.
TasksAreAccountedFor ==
    /\ Worker!Elements(Worker!Pipeline) = 1..submitted
    /\ Worker!InOrder

THEOREM TasksAreAccountedForHolds == Spec => []TasksAreAccountedFor
<1>1. Worker!Spec => []WorkerTheorems!NothingLost /\ []WorkerTheorems!InOrder
  BY MaxTasksAssumption, SameSpec, WorkerTheorems!LostHolds, WorkerTheorems!OrderHolds
<1>2. Uncleared /\ WorkerTheorems!NothingLost /\ WorkerTheorems!InOrder => TasksAreAccountedFor
  BY DEF Uncleared, TasksAreAccountedFor, Worker!NothingLost, WorkerTheorems!NothingLost, Worker!InOrder,
         WorkerTheorems!InOrder, Worker!Pipeline, WorkerTheorems!Pipeline,
         Worker!Elements, WorkerTheorems!Elements, Worker!Executing,
         WorkerTheorems!Executing, Worker!NoTask, WorkerTheorems!NoTask
<1>3. QED
  BY <1>1, <1>2, ComposedWorker, NeverCleared, PTL

\* Every name of a task service that comes through the theorems is that of the Worker.
LEMMA SameService == WorkerTheorems!ImplementsTaskService => ImplementsTaskService
<1>1. WorkerTheorems!Service!Init => Worker!Service!Init
  BY DEF WorkerTheorems!Service!Init, Worker!Service!Init, WorkerTheorems!Executing,
         Worker!Executing, WorkerTheorems!NoTask, Worker!NoTask
<1>2. [WorkerTheorems!Service!Next]_(WorkerTheorems!Service!vars) =>
          [Worker!Service!Next]_(Worker!Service!vars)
  BY DEF WorkerTheorems!Service!Next, Worker!Service!Next, WorkerTheorems!Service!vars,
         Worker!Service!vars, WorkerTheorems!Service!Submit, Worker!Service!Submit,
         WorkerTheorems!Service!Answer, Worker!Service!Answer, WorkerTheorems!Service!Deliver,
         Worker!Service!Deliver, WorkerTheorems!Service!Clear, Worker!Service!Clear,
         WorkerTheorems!Executing, Worker!Executing, WorkerTheorems!NoTask, Worker!NoTask,
         WorkerTheorems!Tasks, Worker!Tasks, WorkerTheorems!Outcomes, Worker!Outcomes
<1>3. QED
  BY <1>1, <1>2, PTL DEF ImplementsTaskService, Worker!ImplementsTaskService,
         WorkerTheorems!ImplementsTaskService, Worker!Service!Spec, WorkerTheorems!Service!Spec

\* In the program the Worker is the atomic service that Worker.hpp documents, for any
\* number of tasks and whatever the main thread and its frames do: it never clears.
THEOREM ServiceHolds == Spec => ImplementsTaskService
<1>1. Worker!Spec /\ []WorkerTheorems!Uncleared => WorkerTheorems!ImplementsTaskService
  BY MaxTasksAssumption, SameSpec, WorkerTheorems!Refinement
<1>2. Uncleared => WorkerTheorems!Uncleared
  BY DEF Uncleared, WorkerTheorems!Uncleared
<1>3. QED
  BY <1>1, <1>2, ComposedWorker, NeverCleared, SameService, PTL

------------------------------------------------------------------------------
(* Types *)

LEMMA WorkerTypes == Spec => []Worker!TypeOK
<1>1. WorkerTheorems!IInv => Worker!TypeOK
  BY DEF WorkerTheorems!IInv, WorkerTheorems!TypeOK, Worker!TypeOK, WorkerTheorems!Tasks,
         Worker!Tasks, WorkerTheorems!Results, Worker!Results, WorkerTheorems!Outcomes,
         Worker!Outcomes, WorkerTheorems!NoTask, Worker!NoTask
<1>2. Worker!Spec => []WorkerTheorems!IInv
  BY MaxTasksAssumption, SameSpec, WorkerTheorems!Safety
<1>3. QED
  BY <1>1, <1>2, ComposedWorker, PTL

\* Forced frames stay within their bound, and only some actions count them.
LEMMA ForcedFrames == forced_frames \in 0..MaxForced /\ [Next]_vars => forced_frames' \in 0..MaxForced
<1> SUFFICES ASSUME forced_frames \in 0..MaxForced, [Next]_vars
             PROVE  forced_frames' \in 0..MaxForced
  OBVIOUS
<1>1. increment_forced_frames => forced_frames' \in 0..MaxForced
  BY CycleAssumption DEF increment_forced_frames
<1>2. CASE PollEvents
  <2>1. forced_frames > 0 /\ forced_frames' = forced_frames - 1
    BY <1>2 DEF PollEvents
  <2>2. QED
    BY <2>1, CycleAssumption
<1>3. CASE UNCHANGED forced_frames
  BY <1>3
<1>4. increment_forced_frames \/ PollEvents \/ UNCHANGED forced_frames
  BY DEF vars, Next, Loop, Construct, create_window, AbandonConstruction, GetFramebufferSize,
         create_surface, request_adapter, request_device, FailConstruction, ConfigureSurface,
         setup_imgui, WaitEvents, Render, ReceiveResult, ProcessDone, HiddenWindow, GiveUp,
         handle_window_resize, LostSurface, LateTexture, Draw, DrawAndSubmit, DrawPanels,
         LeaveLoop, Terminate, StopWorker, JoinWorker, UserEvent, Compute, Callback,
         SubmitSubtask, forced, TakeEvents
<1>5. QED
  BY <1>1, <1>2, <1>3, <1>4

LEMMA NextTypes == TypeOK /\ [Next]_vars /\ Worker!TypeOK' => TypeOK'
<1> SUFFICES ASSUME TypeOK, [Next]_vars, Worker!TypeOK' PROVE TypeOK'
  OBVIOUS
<1> DEFINE Rest == /\ main \in {"window", "construct", "surface", "adapter", "device",
                                "configure", "imgui", "process", "resize", "draw", "events",
                                "destructor", "members", "terminated", "gone"}
                   /\ event \in BOOLEAN
                   /\ should_close \in BOOLEAN
                   /\ framebuffer \in Sizes \cup {Hidden}
                   /\ viewport \in Sizes \cup {Hidden}
                   /\ surface \in Sizes \cup {Hidden, Unconfigured}
                   /\ undrawn \in BOOLEAN
<1>1. Rest /\ forced_frames' \in 0..MaxForced
  BY ForcedFrames DEF TypeOK
<1>2. Rest'
  <2> USE <1>1 DEF Goto, graphics, forced
  <2>1. CASE UNCHANGED vars
    BY <2>1 DEF vars
  <2>2. CASE Construct
    BY <2>2 DEF Construct, create_window, AbandonConstruction, GetFramebufferSize,
           create_surface, request_adapter, request_device, FailConstruction, ConfigureSurface,
           configure_surface, setup_imgui
  <2>3. CASE PollEvents \/ WaitEvents \/ UserEvent
    BY <2>3 DEF PollEvents, WaitEvents, TakeEvents, UserEvent
  <2>4. CASE ReceiveResult \/ ProcessDone
    BY <2>4 DEF ReceiveResult, ProcessDone, increment_forced_frames
  <2>5. CASE HiddenWindow \/ handle_window_resize \/ LostSurface \/ LateTexture
    BY <2>5 DEF HiddenWindow, handle_window_resize, LostSurface, LateTexture, GiveUp,
           configure_surface
  <2>6. CASE Draw \/ DrawAndSubmit
    BY <2>6 DEF Draw, DrawAndSubmit, DrawPanels, DrawFrame, increment_forced_frames
  <2>7. CASE LeaveLoop \/ Terminate \/ StopWorker \/ JoinWorker
    BY <2>7 DEF LeaveLoop, Terminate, StopWorker, JoinWorker
  <2>8. CASE Compute \/ Callback \/ SubmitSubtask
    BY <2>8 DEF Compute, Callback, SubmitSubtask
  <2>9. QED
    BY <2>1, <2>2, <2>3, <2>4, <2>5, <2>6, <2>7, <2>8 DEF Next, Loop, Render
<1>3. QED
  BY <1>1, <1>2 DEF TypeOK

\* The state of the composed program has the types that the modules declare, that of
\* the Worker included.
THEOREM TypeCorrect == Spec => []TypeOK
<1>1. Init /\ Worker!TypeOK => TypeOK
  <2>1. 0 \in 0..MaxForced
    BY CycleAssumption
  <2>2. QED
    BY <2>1 DEF Init, TypeOK
<1>2. QED
  BY <1>1, WorkerTypes, NextTypes, PTL DEF Spec
==============================================================================
