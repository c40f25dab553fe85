-------------------------------- MODULE Worker --------------------------------
(***************************************************************************)
(* src/signals/Worker.cpp: one computation thread between two              *)
(* ThreadSafeQueues.  Clients on any number of threads submit tasks, poll  *)
(* for results and clear both queues, also while another of them is in the *)
(* middle of a clear; when none of them is, the owner destroys the Worker, *)
(* which requests a stop and joins the thread.  The queue operations are   *)
(* single steps, as ThreadSafeQueueProofs!Refinement shows they may be     *)
(* taken to be; everything between two of them interleaves.                *)
(*                                                                         *)
(* A task is named by its place in the order of submission.                *)
(***************************************************************************)
EXTENDS Naturals, Sequences, FiniteSets

CONSTANT MaxTasks     \* bound: how many tasks are ever submitted
ASSUME MaxTasksAssumption == MaxTasks \in Nat

VARIABLES task_queue,    \* ThreadSafeQueue<std::unique_ptr<ITask>>
          result_queue,  \* ThreadSafeQueue<WorkerResult>
          pc,            \* where Worker::execute is
          job,           \* the task that wait_consume returned, or NoTask
          outcome,       \* what the task left to be posted
          stop,          \* the stop token of worker_thread
          owner,         \* what the owner and the clients are doing with the Worker
          submitted,     \* how many tasks were submitted
          delivered,     \* history: the results that clients received
          discarded,     \* history: the tasks that clear threw away
          mark,          \* history: how many tasks the last clear found submitted
          late           \* history: how many results were posted after the stop

thread == <<pc, job, outcome>>
history == <<delivered, discarded, mark, late>>
vars == <<task_queue, result_queue, thread, stop, owner, submitted, history>>

Tasks == 1..MaxTasks
NoTask == 0

\* A result of the task, or the ErrorResult made from an exception.
Outcomes == {"result", "error"}
Results == [task : Tasks, outcome : Outcomes]

TypeOK ==
    /\ task_queue \in Seq(Tasks)
    /\ result_queue \in Seq(Results)
    /\ pc \in {"loop", "consume", "execute", "running", "post", "callback", "exited"}
    /\ job \in Tasks \cup {NoTask}
    /\ outcome \in Outcomes \cup {"none"}
    /\ stop \in BOOLEAN
    /\ owner \in {"using", "clearing", "joining", "destroyed"}
    /\ submitted \in 0..MaxTasks
    /\ delivered \in Seq(Results)
    /\ discarded \subseteq Tasks
    /\ mark \in 0..MaxTasks
    /\ late \in Nat

Init ==
    /\ task_queue = <<>>
    /\ result_queue = <<>>
    /\ pc = "loop"
    /\ job = NoTask
    /\ outcome = "none"
    /\ stop = FALSE
    /\ owner = "using"
    /\ submitted = 0
    /\ delivered = <<>>
    /\ discarded = {}
    /\ mark = 0
    /\ late = 0

------------------------------------------------------------------------------
(* Any thread *)

Produce ==
    /\ submitted < MaxTasks
    /\ submitted' = submitted + 1
    /\ task_queue' = Append(task_queue, submitted + 1)

------------------------------------------------------------------------------
(* The clients and the owner *)

InUse == owner \in {"using", "clearing"}

Submit ==
    /\ InUse
    /\ Produce
    /\ UNCHANGED <<result_queue, thread, stop, owner, history>>

TryGetResult ==
    /\ InUse
    /\ result_queue # <<>>
    /\ result_queue' = Tail(result_queue)
    /\ delivered' = Append(delivered, Head(result_queue))
    /\ UNCHANGED <<task_queue, thread, stop, owner, submitted, discarded, mark, late>>

TasksOf(results) == {results[i].task : i \in DOMAIN results}
Elements(s) == {s[i] : i \in DOMAIN s}

\* Worker::clear empties the two queues in two steps.
ClearTasks ==
    /\ InUse
    /\ owner' = "clearing"
    /\ task_queue' = <<>>
    /\ discarded' = discarded \cup Elements(task_queue)
    /\ mark' = submitted
    /\ UNCHANGED <<result_queue, thread, stop, submitted, delivered, late>>

\* Another client may still be between the two.
ClearResults ==
    /\ owner = "clearing"
    /\ owner' \in {"using", "clearing"}
    /\ result_queue' = <<>>
    /\ discarded' = discarded \cup TasksOf(result_queue)
    /\ UNCHANGED <<task_queue, thread, stop, submitted, delivered, mark, late>>

\* ~Worker: worker_thread is the last member, so ~jthread runs first; it
\* requests a stop and joins.  The queues die after the thread.
RequestStop ==
    /\ owner = "using"
    /\ owner' = "joining"
    /\ stop' = TRUE
    /\ UNCHANGED <<task_queue, result_queue, thread, submitted, history>>

Join ==
    /\ owner = "joining"
    /\ pc = "exited"
    /\ owner' = "destroyed"
    /\ UNCHANGED <<task_queue, result_queue, thread, stop, submitted, history>>

------------------------------------------------------------------------------
(* The computation thread *)

\* Mutant: the thread drains its queue before it looks at the stop token.
LoopTest_Drain ==
    /\ pc = "loop"
    /\ pc' = IF stop /\ task_queue = <<>> THEN "exited" ELSE "consume"
    /\ UNCHANGED <<task_queue, result_queue, job, outcome, stop, owner, submitted, history>>

\* while (!stop_token.stop_requested())
LoopTest ==
    /\ pc = "loop"
    /\ pc' = IF stop THEN "exited" ELSE "consume"
    /\ UNCHANGED <<task_queue, result_queue, job, outcome, stop, owner, submitted, history>>

\* Mutant: the job stays on the queue while it is executed.
WaitConsume_Peek ==
    /\ pc = "consume"
    /\ task_queue # <<>>
    /\ job' = Head(task_queue)
    /\ pc' = "execute"
    /\ UNCHANGED <<task_queue, result_queue, outcome, stop, owner, submitted, history>>

\* wait_consume returns a job, also when a stop has been requested meanwhile.
WaitConsume ==
    /\ pc = "consume"
    /\ task_queue # <<>>
    /\ job' = Head(task_queue)
    /\ task_queue' = Tail(task_queue)
    /\ pc' = "execute"
    /\ UNCHANGED <<result_queue, outcome, stop, owner, submitted, history>>

\* Mutant: the wait is given no stop token.
WaitInterrupted_NoToken ==
    /\ pc = "consume"
    /\ task_queue # <<>>
    /\ stop
    /\ pc' = "loop"
    /\ UNCHANGED <<task_queue, result_queue, job, outcome, stop, owner, submitted, history>>

\* wait_consume is interrupted and returns nullopt.
WaitInterrupted ==
    /\ pc = "consume"
    /\ task_queue = <<>>
    /\ stop
    /\ pc' = "loop"
    /\ UNCHANGED <<task_queue, result_queue, job, outcome, stop, owner, submitted, history>>

\* ITask::execute starts the work,
StartWork ==
    /\ pc = "execute"
    /\ ~stop
    /\ pc' = "running"
    /\ UNCHANGED <<task_queue, result_queue, job, outcome, stop, owner, submitted, history>>

\* or throws if a stop was requested.
RefuseWork ==
    /\ pc = "execute"
    /\ stop
    /\ pc' = "post"
    /\ outcome' = "error"
    /\ UNCHANGED <<task_queue, result_queue, job, stop, owner, submitted, history>>

\* The work itself may submit further tasks (LoadProjectTask does).
SubmitSubtask ==
    /\ pc = "running"
    /\ Produce
    /\ UNCHANGED <<result_queue, thread, stop, owner, history>>

\* Mutant: an exception is caught and no result is posted.
FinishWork_Swallow ==
    /\ pc = "running"
    /\ \/ pc' = "post" /\ outcome' = "result" /\ job' = job
       \/ pc' = "loop" /\ outcome' = "none" /\ job' = NoTask
    /\ UNCHANGED <<task_queue, result_queue, stop, owner, submitted, history>>

\* execute_work returns, or throws and is caught.
FinishWork ==
    /\ pc = "running"
    /\ pc' = "post"
    /\ outcome' \in Outcomes
    /\ UNCHANGED <<task_queue, result_queue, job, stop, owner, submitted, history>>

PostResult ==
    /\ pc = "post"
    /\ result_queue' = Append(result_queue, [task |-> job, outcome |-> outcome])
    /\ pc' = "callback"
    /\ job' = NoTask
    /\ outcome' = "none"
    /\ late' = late + (IF stop THEN 1 ELSE 0)
    /\ UNCHANGED <<task_queue, stop, owner, submitted, delivered, discarded, mark>>

\* result_callback(); the task is destroyed at the end of the iteration.
Callback ==
    /\ pc = "callback"
    /\ pc' = "loop"
    /\ UNCHANGED <<task_queue, result_queue, job, outcome, stop, owner, submitted, history>>

------------------------------------------------------------------------------

Thread ==
    \/ LoopTest \/ WaitConsume \/ WaitInterrupted
    \/ StartWork \/ RefuseWork \/ FinishWork \/ PostResult \/ Callback

\* Mutant: clear empties the results before the tasks.
Owner_ClearSwapped ==
    \/ Submit \/ TryGetResult \/ RequestStop \/ Join
    \/ /\ InUse
       /\ owner' = "clearing"
       /\ result_queue' = <<>>
       /\ discarded' = discarded \cup TasksOf(result_queue)
       /\ UNCHANGED <<task_queue, thread, stop, submitted, delivered, mark, late>>
    \/ /\ owner = "clearing"
       /\ owner' \in {"using", "clearing"}
       /\ task_queue' = <<>>
       /\ discarded' = discarded \cup Elements(task_queue)
       /\ mark' = submitted
       /\ UNCHANGED <<result_queue, thread, stop, submitted, delivered, late>>

Owner == Submit \/ TryGetResult \/ ClearTasks \/ ClearResults \/ RequestStop \/ Join

Next == Thread \/ SubmitSubtask \/ Owner

Spec == Init /\ [][Next]_vars

(* The thread is scheduled and every job ends.  The owner finishes a join  *)
(* it has begun; nobody need submit, poll, clear, or ever destroy.         *)
FairSpec == Spec /\ WF_vars(Thread) /\ WF_vars(Join)

------------------------------------------------------------------------------
(* Properties *)

Executing == IF job = NoTask THEN <<>> ELSE <<job>>

\* Everything between the submission of a task and the delivery of its result.
Pipeline ==
    [i \in DOMAIN delivered |-> delivered[i].task]
    \o [i \in DOMAIN result_queue |-> result_queue[i].task]
    \o Executing \o task_queue

\* Answers come in the order of submission and no task is answered, executed
\* or queued twice, whatever the worker, its subtasks and the polls and clears of
\* its clients interleave to.
InOrder == \A i, j \in DOMAIN Pipeline : i < j => Pipeline[i] < Pipeline[j]

\* A task disappears only by a clear: as long as nobody clears, every
\* task that was submitted is queued, in execution, or answered.
NothingLost == Elements(Pipeline) = (1..submitted) \ discarded

\* Once nobody clears, at most one task from before the last clear can still be
\* answered: the one that was in execution.  This depends on the tasks being cleared before the
\* results (Worker.cpp:47-48): the other order lets the thread post one result
\* and pick another job in between.
ClearLeavesAtMostOne ==
    owner = "using" =>
        Cardinality({t \in TasksOf(result_queue) \cup {job} \cup Elements(task_queue) :
                         t # NoTask /\ t <= mark}) <= 1

\* After a stop request the thread posts at most one more result, that of the
\* task it had already taken or was about to take, however many tasks are
\* queued (Worker.cpp:55, ITask.cpp:19).
AtMostOneLateResult == late <= 1

\* While the Worker is in use every task is eventually answered or cleared.
EveryTaskAnswered ==
    \A t \in Tasks :
        t <= submitted ~> \/ t \in TasksOf(result_queue) \cup TasksOf(delivered) \cup discarded
                          \/ stop

\* Destruction terminates: ~jthread does not wait for the queue to drain, and a
\* thread asleep in wait_consume gets out.
DestructionTerminates == owner = "joining" ~> owner = "destroyed"

------------------------------------------------------------------------------
(* Refinement of TaskService: a task waits until its result is posted. *)

Service == INSTANCE TaskService
             WITH Task <- Tasks, Outcome <- Outcomes,
                  waiting <- Executing \o task_queue, results <- result_queue,
                  delivered <- delivered

\* The Worker implements the service that its documentation describes
\* (Worker.hpp:29-45), but for a clear, which is two steps and not one.  With tasks 1 in
\* execution and 2 queued: a clear drops task 2, task 1 submits task 3 and is answered, and
\* the clear drops that answer.  Task 3 is still queued, so that no single moment can have
\* been that of the clear.  The program never clears (EventLoop).
ImplementsTaskService == Service!Spec
==============================================================================
