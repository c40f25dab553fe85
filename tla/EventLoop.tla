------------------------------ MODULE EventLoop ------------------------------
(***************************************************************************)
(* EchoMap on the desktop, composed with the Worker: the constructor,      *)
(* run_event_loop with its frames, and the destructor.                     *)
(*                                                                         *)
(* The main thread sleeps in glfwWaitEvents until GLFW has an event.  The  *)
(* only thing that wakes it for a result is the callback of the Worker,    *)
(* which posts an empty event from the computation thread after the result *)
(* was posted.  Panels ask for frames that are drawn without any event     *)
(* (increment_forced_frames).                                              *)
(*                                                                         *)
(* GLFW is external: an event that is posted while nobody waits stays      *)
(* pending, and polling or waiting takes all pending events at once.       *)
(* WebGPU is external, too: whether the surface has a texture for a frame  *)
(* is up to it.  The size of the window changes at any time, and it is an  *)
(* event when it does.                                                     *)
(***************************************************************************)
EXTENDS Integers, Sequences

CONSTANTS MaxTasks,    \* bound: how many tasks are ever submitted
          Cycle,       \* the default count of increment_forced_frames
          MaxForced,   \* bound: how many frames are forced at a time
          Sizes        \* the sizes of the window, but for Hidden

ASSUME MaxTasksAssumption == MaxTasks \in Nat
ASSUME CycleAssumption == Cycle \in Nat \ {0} /\ MaxForced \in Nat
ASSUME SizesAssumption == Sizes \subseteq Nat \ {0}

VARIABLES task_queue, result_queue, pc, job, outcome, stop, owner, submitted,
          delivered, discarded, mark, late   \* the Worker's
VARIABLES main,            \* where run_event_loop or the destructor is
          event,           \* GLFW has pending events
          should_close,    \* glfwWindowShouldClose
          forced_frames,   \* EchoMap::forced_frames
          framebuffer,     \* what glfwGetFramebufferSize returns
          viewport,        \* viewport_width and viewport_height
          surface,         \* the size the surface is configured with, or Unconfigured
          undrawn          \* history: frames were forced and none was drawn since

Worker == INSTANCE Worker

worker == <<task_queue, result_queue, pc, job, outcome, stop, owner, submitted,
            delivered, discarded, mark, late>>
graphics == <<viewport, surface>>
forced == <<forced_frames, undrawn>>
vars == <<worker, main, event, should_close, forced, framebuffer, graphics>>

Hidden == 0
Unconfigured == -1

TypeOK ==
    /\ Worker!TypeOK
    /\ main \in {"window", "construct", "surface", "adapter", "device", "configure", "imgui",
                 "process", "resize", "draw", "events", "destructor", "members", "terminated",
                 "gone"}
    /\ event \in BOOLEAN
    /\ should_close \in BOOLEAN
    /\ forced_frames \in 0..MaxForced
    /\ framebuffer \in Sizes \cup {Hidden}
    /\ viewport \in Sizes \cup {Hidden}
    /\ surface \in Sizes \cup {Hidden, Unconfigured}
    /\ undrawn \in BOOLEAN

Init ==
    /\ Worker!Init
    /\ main = "window"
    /\ event = FALSE
    /\ should_close = FALSE
    /\ forced_frames = 0
    /\ framebuffer \in Sizes
    /\ viewport = Hidden
    /\ surface = Unconfigured
    /\ undrawn = FALSE

Goto(from, to) ==
    /\ main = from
    /\ main' = to

increment_forced_frames ==
    /\ forced_frames + Cycle <= MaxForced
    /\ forced_frames' = forced_frames + Cycle
    /\ undrawn' = TRUE

------------------------------------------------------------------------------
(* The constructor *)

\* The first member; the Worker and its thread come after it.
create_window ==
    /\ Goto("window", "construct")
    /\ UNCHANGED <<worker, event, should_close, forced, framebuffer, graphics>>

\* Without a window, or without a surface for it, the program ends at once: the first
\* before there is a thread to stop, the second by an exception that main does not
\* catch, so that it is up to the implementation whether any destructor is run.
AbandonConstruction ==
    /\ main \in {"window", "surface"}
    /\ main' = "gone"
    /\ UNCHANGED <<worker, event, should_close, forced, framebuffer, graphics>>

GetFramebufferSize ==
    /\ Goto("construct", "surface")
    /\ viewport' = framebuffer
    /\ UNCHANGED <<worker, event, should_close, forced, framebuffer, surface>>

create_surface ==
    /\ Goto("surface", "adapter")
    /\ UNCHANGED <<worker, event, should_close, forced, framebuffer, graphics>>

\* WaitAnyOnly: the answer to a request comes while it is waited for or, after the
\* time-out, never.
request_adapter ==
    /\ Goto("adapter", "device")
    /\ UNCHANGED <<worker, event, should_close, forced, framebuffer, graphics>>

request_device ==
    /\ Goto("device", "configure")
    /\ UNCHANGED <<worker, event, should_close, forced, framebuffer, graphics>>

\* A request fails or takes too long, or Dear ImGui fails: ConfigurationError.
\* The destructor is not run, but those of the members are.
FailConstruction ==
    /\ main \in {"adapter", "device", "imgui"}
    /\ main' = "terminated"
    /\ Worker!RequestStop
    /\ UNCHANGED <<event, should_close, forced, framebuffer, graphics>>

configure_surface(size) == surface' = size

\* The size may be 0 if the window was hidden.
ConfigureSurface ==
    /\ Goto("configure", "imgui")
    /\ configure_surface(viewport)
    /\ UNCHANGED <<worker, event, should_close, forced, framebuffer, viewport>>

\* run_event_loop renders a frame before it waits for the first time.
setup_imgui ==
    /\ Goto("imgui", "process")
    /\ UNCHANGED <<worker, event, should_close, forced, framebuffer, graphics>>

------------------------------------------------------------------------------
(* The main thread *)

\* The mouse, the keyboard or the window system, at any time; the window may be
\* hidden, shown or resized.
UserEvent ==
    /\ main \notin {"window", "gone"}
    /\ event' = TRUE
    /\ framebuffer' \in Sizes \cup {Hidden}
    /\ UNCHANGED <<worker, main, should_close, forced, graphics>>

\* An event may be the request to close the window.
TakeEvents ==
    /\ event' = FALSE
    /\ \/ UNCHANGED should_close
       \/ event /\ should_close' = TRUE
    /\ UNCHANGED <<worker, undrawn, framebuffer, graphics>>

\* glfwPollEvents, when frames are forced.
PollEvents ==
    /\ Goto("events", "process")
    /\ ~should_close
    /\ forced_frames > 0
    /\ forced_frames' = forced_frames - 1
    /\ TakeEvents

\* glfwWaitEvents returns only when there is an event.
WaitEvents ==
    /\ Goto("events", "process")
    /\ ~should_close
    /\ forced_frames = 0
    /\ event
    /\ TakeEvents
    /\ UNCHANGED forced_frames

\* process_worker_results: SignalDFTPanel::handle_completed_dft asks for forced_frames,
\* the handlers of other results do not, and an exception of a handler is only logged.
ReceiveResult ==
    /\ main = "process"
    /\ Worker!TryGetResult
    /\ \/ Head(result_queue).outcome = "result" /\ increment_forced_frames
       \/ UNCHANGED forced
    /\ UNCHANGED <<main, event, should_close, framebuffer, graphics>>

\* Mutant: an if in place of the loop, one result for every frame.
ProcessDone_LeavesSome ==
    /\ Goto("process", "resize")
    /\ UNCHANGED <<worker, event, should_close, forced, framebuffer, graphics>>

ProcessDone ==
    /\ Goto("process", "resize")
    /\ result_queue = <<>>
    /\ UNCHANGED <<worker, event, should_close, forced, framebuffer, graphics>>

\* render returns early; a forced frame has been counted all the same.
GiveUp ==
    /\ main' = "events"
    /\ UNCHANGED <<worker, event, should_close, forced, framebuffer>>

HiddenWindow ==
    /\ main = "resize"
    /\ framebuffer = Hidden
    /\ GiveUp
    /\ UNCHANGED graphics

\* Mutant: the new size is noted but the surface keeps the old one.
handle_window_resize_NoReconfigure ==
    /\ Goto("resize", "draw")
    /\ framebuffer # Hidden
    /\ viewport' = framebuffer
    /\ UNCHANGED <<worker, event, should_close, forced, framebuffer, surface>>

\* Unconfigure and configure_surface if the size is another one.
handle_window_resize ==
    /\ Goto("resize", "draw")
    /\ framebuffer # Hidden
    /\ viewport' = framebuffer
    /\ configure_surface(IF framebuffer # viewport THEN framebuffer ELSE surface)
    /\ UNCHANGED <<worker, event, should_close, forced, framebuffer>>

\* GetCurrentTexture: the surface is lost or outdated, and configured again,
LostSurface ==
    /\ main = "draw"
    /\ configure_surface(viewport)
    /\ GiveUp
    /\ UNCHANGED viewport

\* or the texture is late.
LateTexture ==
    /\ main = "draw"
    /\ GiveUp
    /\ UNCHANGED graphics

DrawFrame ==
    /\ Goto("draw", "events")
    /\ UNCHANGED <<event, should_close, framebuffer, graphics>>

\* A panel in which the user opened a list asks for frames, whatever was picked in it.
DrawPanels ==
    /\ DrawFrame
    /\ \/ increment_forced_frames
       \/ undrawn' = FALSE /\ UNCHANGED forced_frames

Draw ==
    /\ DrawPanels
    /\ UNCHANGED worker

\* A panel finds that it needs a calculation while it is drawn.
DrawAndSubmit ==
    /\ DrawPanels
    /\ Worker!Submit

------------------------------------------------------------------------------
(* ~EchoMap: the body terminates GLFW, then the members are destroyed, the *)
(* Worker among them.  In between, its thread still calls back.            *)

LeaveLoop ==
    /\ Goto("events", "destructor")
    /\ should_close
    /\ UNCHANGED <<worker, event, should_close, forced, framebuffer, graphics>>

Terminate ==
    /\ Goto("destructor", "members")
    /\ surface' = Unconfigured
    /\ UNCHANGED <<worker, event, should_close, forced, framebuffer, viewport>>

\* Mutant: a thread that is joined without a request to stop, as std::thread would be.
StopWorker_NoRequest ==
    /\ Goto("members", "terminated")
    /\ owner' = "joining"
    /\ UNCHANGED <<task_queue, result_queue, pc, job, outcome, stop, submitted, delivered,
                   discarded, mark, late, event, should_close, forced, framebuffer,
                   graphics>>

StopWorker ==
    /\ Goto("members", "terminated")
    /\ Worker!RequestStop
    /\ UNCHANGED <<event, should_close, forced, framebuffer, graphics>>

JoinWorker ==
    /\ Goto("terminated", "gone")
    /\ Worker!Join
    /\ UNCHANGED <<event, should_close, forced, framebuffer, graphics>>

------------------------------------------------------------------------------
(* The computation thread, from the constructor of the Worker to its end *)

Running == main \notin {"window", "gone"}

\* Mutant: a Worker that was given no callback.
Callback_None ==
    /\ Running
    /\ Worker!Callback
    /\ UNCHANGED <<main, event, should_close, forced, framebuffer, graphics>>

\* result_callback posts an empty event.
Callback ==
    /\ Running
    /\ Worker!Callback
    /\ event' = TRUE
    /\ UNCHANGED <<main, should_close, forced, framebuffer, graphics>>

Compute ==
    /\ Running
    /\ \/ Worker!LoopTest \/ Worker!WaitConsume \/ Worker!WaitInterrupted
       \/ Worker!StartWork \/ Worker!RefuseWork \/ Worker!FinishWork \/ Worker!PostResult
    /\ UNCHANGED <<main, event, should_close, forced, framebuffer, graphics>>

SubmitSubtask ==
    /\ Running
    /\ Worker!SubmitSubtask
    /\ UNCHANGED <<main, event, should_close, forced, framebuffer, graphics>>

------------------------------------------------------------------------------

Construct ==
    \/ create_window \/ AbandonConstruction \/ GetFramebufferSize \/ create_surface
    \/ request_adapter \/ request_device \/ FailConstruction
    \/ ConfigureSurface \/ setup_imgui

Render ==
    \/ ReceiveResult \/ ProcessDone
    \/ HiddenWindow \/ handle_window_resize \/ LostSurface \/ LateTexture
    \/ Draw \/ DrawAndSubmit

Loop ==
    \/ Construct \/ PollEvents \/ WaitEvents \/ Render
    \/ LeaveLoop \/ Terminate \/ StopWorker \/ JoinWorker

Next == Loop \/ UserEvent \/ Compute \/ Callback \/ SubmitSubtask

Spec == Init /\ [][Next]_vars

(* Both threads are scheduled.  The user need not do anything, so the main *)
(* thread may sleep for ever in glfwWaitEvents.                            *)
FairSpec == Spec /\ WF_vars(Loop) /\ WF_vars(Compute \/ Callback)

------------------------------------------------------------------------------
(* Properties *)

Asleep == main = "events" /\ forced_frames = 0 /\ ~event /\ ~should_close

\* The main thread is never asleep on a result, unless the computation thread
\* is about to wake it: the result is posted before the event, and the main
\* thread drains the results after it took the events.
NoStrandedResult == Asleep /\ result_queue # <<>> => pc = "callback"

\* A frame that was forced is drawn before the main thread sleeps, unless the window
\* is hidden: "the following frames should always be rendered, regardless of whether there
\* are any new events to process" (EchoMap.hpp:100-101).
ForcedFramesAreDrawn == Asleep /\ framebuffer # Hidden => ~undrawn

\* The surface is configured, with the viewport's size, from the first frame to
\* the destructor, so that it may be unconfigured (EchoMap.hpp:137); a frame is
\* never drawn without a size, also when the window was hidden at the time of
\* the constructor; and the main thread sleeps on no resize.
SurfaceFollowsWindow ==
    /\ main \in {"imgui", "process", "resize", "draw", "events", "destructor"} =>
           surface = viewport /\ surface # Unconfigured
    /\ main = "draw" => surface \in Sizes
    /\ Asleep => framebuffer \in {surface, Hidden}

\* Every result is received, without any help of the user, as long as the
\* window is open.
ResultsAreReceived == result_queue # <<>> ~> result_queue = <<>> \/ should_close

\* Once the window is to be closed the program ends: the frame that is under way
\* receives finitely many results, the destructor waits for the computation thread no
\* longer than for the task in hand, and the thread never waits for the main thread,
\* although it calls back after GLFW was terminated (EchoMap.cpp:141).
ClosingEndsProgram == should_close ~> main = "gone"

\* The computation thread is the atomic service that Worker.hpp:29-45 documents, for
\* the main thread and its frames: nobody in the program clears.
ImplementsTaskService == Worker!ImplementsTaskService
==============================================================================
