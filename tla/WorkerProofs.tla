----------------------------- MODULE WorkerProofs -----------------------------
(***************************************************************************)
(* Proofs about Worker, for any number of tasks: the order of answers, the *)
(* bound on what a clear and a stop leave behind, and that the Worker      *)
(* implements TaskService.                                                 *)
(***************************************************************************)
EXTENDS Worker, SequenceTheorems, FiniteSetTheorems, TLAPS

Increasing(s) == \A i, j \in DOMAIN s : i < j => s[i] < s[j]

IncreasingTasks(r) == \A i, j \in DOMAIN r : i < j => r[i].task < r[j].task

\* A job is in hand exactly between wait_consume and the post of its result.
JobInHand == job # NoTask <=> pc \in {"execute", "running", "post"}

\* The four places a task passes through hold increasing tasks, and each place
\* holds smaller tasks than the places it is reached from.
OrderInv ==
    /\ Increasing(task_queue)
    /\ IncreasingTasks(result_queue)
    /\ IncreasingTasks(delivered)
    /\ \A i \in DOMAIN task_queue :
           /\ task_queue[i] <= submitted
           /\ job < task_queue[i]
           /\ \A k \in DOMAIN result_queue : result_queue[k].task < task_queue[i]
           /\ \A k \in DOMAIN delivered : delivered[k].task < task_queue[i]
    /\ \A k \in DOMAIN result_queue :
           /\ result_queue[k].task <= submitted
           /\ job # NoTask => result_queue[k].task < job
           /\ \A l \in DOMAIN delivered : delivered[l].task < result_queue[k].task
    /\ \A l \in DOMAIN delivered :
           /\ delivered[l].task <= submitted
           /\ job # NoTask => delivered[l].task < job
    /\ job <= submitted

\* Once a result was posted after the stop, the thread is on its way out.
LateInv ==
    /\ late <= 1
    /\ late = 1 => stop /\ pc \in {"callback", "loop", "exited"}

OutcomeInv == pc = "post" <=> outcome # "none"

IInv == TypeOK /\ JobInHand /\ OutcomeInv /\ OrderInv /\ LateInv

LEMMA AppendFacts ==
    ASSUME NEW S, NEW s \in Seq(S), NEW x \in S
    PROVE  /\ Append(s, x) \in Seq(S)
           /\ DOMAIN s = 1..Len(s)
           /\ DOMAIN Append(s, x) = 1..(Len(s) + 1)
           /\ Len(s) \in Nat
           /\ \A i \in DOMAIN s : s[i] \in S /\ Append(s, x)[i] = s[i]
           /\ Append(s, x)[Len(s) + 1] = x
  OBVIOUS

LEMMA TailFacts ==
    ASSUME NEW S, NEW s \in Seq(S), s # <<>>
    PROVE  /\ Tail(s) \in Seq(S)
           /\ Len(s) \in Nat \ {0}
           /\ DOMAIN s = 1..Len(s)
           /\ DOMAIN Tail(s) = 1..(Len(s) - 1)
           /\ \A i \in DOMAIN s : s[i] \in S
           /\ \A i \in DOMAIN Tail(s) : Tail(s)[i] = s[i + 1]
           /\ Head(s) = s[1]
  OBVIOUS

LEMMA ElementsFacts ==
    ASSUME NEW S, NEW s \in Seq(S)
    PROVE  Elements(s) \subseteq S
  BY DEF Elements

LEMMA TasksOfFacts ==
    ASSUME NEW r \in Seq(Results)
    PROVE  /\ TasksOf(r) \subseteq Tasks
           /\ \A i \in DOMAIN r : r[i].task \in Tasks
<1>1. \A i \in DOMAIN r : r[i] \in Results
  OBVIOUS
<1>2. QED
  BY <1>1 DEF TasksOf, Results

LEMMA QueuedTasks ==
    TypeOK => /\ \A i \in DOMAIN task_queue : task_queue[i] \in Tasks
              /\ task_queue # <<>> => Head(task_queue) \in Tasks
  BY DEF TypeOK

LEMMA InitIInv == Init => IInv
<1> SUFFICES ASSUME Init
             PROVE  IInv
  OBVIOUS
<1>1. TypeOK
  <2>1. task_queue \in Seq(Tasks) /\ result_queue \in Seq(Results) /\ delivered \in Seq(Results)
    BY DEF Init
  <2>2. submitted \in 0..MaxTasks /\ mark \in 0..MaxTasks
    BY MaxTasksAssumption DEF Init
  <2>3. QED
    BY <2>1, <2>2 DEF Init, TypeOK
<1>2. JobInHand /\ OutcomeInv /\ LateInv
  BY DEF Init, JobInHand, OutcomeInv, LateInv
<1>3. OrderInv
  BY DEF Init, OrderInv, Increasing, IncreasingTasks, NoTask
<1>4. QED
  BY <1>1, <1>2, <1>3 DEF IInv

LEMMA NextTypeOK == IInv /\ [Next]_vars => TypeOK'
<1> SUFFICES ASSUME IInv, [Next]_vars
             PROVE  TypeOK'
  OBVIOUS
<1> USE MaxTasksAssumption
    DEF IInv, TypeOK, Tasks, NoTask, thread, history
<1>1. CASE Submit
  BY <1>1 DEF Submit, Produce, InUse
<1>2. CASE TryGetResult
  BY <1>2 DEF TryGetResult
<1>3. CASE ClearTasks
  <2>1. task_queue' \in Seq(Tasks) /\ Elements(task_queue) \subseteq Tasks
    BY <1>3, ElementsFacts DEF ClearTasks
  <2>2. QED
    BY <1>3, <2>1 DEF ClearTasks
<1>4. CASE ClearResults
  <2>1. result_queue' \in Seq(Results) /\ TasksOf(result_queue) \subseteq Tasks
    BY <1>4, TasksOfFacts DEF ClearResults
  <2>2. QED
    BY <1>4, <2>1 DEF ClearResults
<1>5. CASE RequestStop \/ Join
  BY <1>5 DEF RequestStop, Join
<1>6. CASE LoopTest \/ WaitInterrupted
  BY <1>6 DEF LoopTest, WaitInterrupted
<1>7. CASE WaitConsume
  BY <1>7 DEF WaitConsume
<1>8. CASE StartWork \/ RefuseWork \/ FinishWork \/ Callback
  BY <1>8 DEF StartWork, RefuseWork, FinishWork, Callback, Outcomes
<1>9. CASE SubmitSubtask
  BY <1>9 DEF SubmitSubtask, Produce
<1>10. CASE PostResult
  <2>1. [task |-> job, outcome |-> outcome] \in Results
    BY <1>10 DEF PostResult, JobInHand, OutcomeInv, Results
  <2>2. QED
    BY <1>10, <2>1 DEF PostResult
<1>11. CASE UNCHANGED vars
  BY <1>11 DEF vars
<1>12. QED
  BY <1>1, <1>2, <1>3, <1>4, <1>5, <1>6, <1>7, <1>8, <1>9, <1>10, <1>11
  DEF Next, Thread, Owner

LEMMA NextControl ==
    IInv /\ [Next]_vars => JobInHand' /\ OutcomeInv' /\ LateInv'
<1> SUFFICES ASSUME IInv, [Next]_vars
             PROVE  JobInHand' /\ OutcomeInv' /\ LateInv'
  OBVIOUS
<1> USE DEF IInv, TypeOK, Tasks, NoTask, Outcomes, thread, history,
            JobInHand, OutcomeInv, LateInv
<1>1. CASE Owner
  BY <1>1 DEF Owner, Submit, Produce, TryGetResult, ClearTasks, ClearResults, RequestStop, Join
<1>2. CASE LoopTest \/ WaitInterrupted
  BY <1>2 DEF LoopTest, WaitInterrupted
<1>3. CASE WaitConsume
  <2>1. Head(task_queue) \in Tasks
    BY <1>3, QueuedTasks DEF WaitConsume
  <2>2. QED
    BY <1>3, <2>1 DEF WaitConsume
<1>4. CASE StartWork \/ RefuseWork \/ FinishWork \/ Callback
  BY <1>4 DEF StartWork, RefuseWork, FinishWork, Callback
<1>5. CASE SubmitSubtask
  BY <1>5 DEF SubmitSubtask, Produce
<1>6. CASE PostResult
  BY <1>6 DEF PostResult
<1>7. CASE UNCHANGED vars
  BY <1>7 DEF vars
<1>8. QED
  BY <1>1, <1>2, <1>3, <1>4, <1>5, <1>6, <1>7 DEF Next, Thread

LEMMA NextOrder == IInv /\ [Next]_vars => OrderInv'
<1> SUFFICES ASSUME IInv, [Next]_vars
             PROVE  OrderInv'
  OBVIOUS
<1> USE DEF IInv, TypeOK, Tasks, NoTask, thread, history
<1>1. CASE Submit \/ SubmitSubtask
  <2> DEFINE t == submitted + 1
  <2>1. t \in Tasks /\ task_queue' = Append(task_queue, t) /\ submitted' = t
    BY <1>1, MaxTasksAssumption DEF Submit, SubmitSubtask, Produce
  <2>2. UNCHANGED <<result_queue, delivered, job>>
    BY <1>1 DEF Submit, SubmitSubtask
  <2>3. \A i \in DOMAIN task_queue' : IF i \in DOMAIN task_queue
                                      THEN task_queue'[i] = task_queue[i]
                                      ELSE i = Len(task_queue) + 1 /\ task_queue'[i] = t
    BY <2>1, AppendFacts
  <2> HIDE DEF t
  <2>4. t \in Nat /\ submitted < t /\ job < t
    BY MaxTasksAssumption DEF t, OrderInv
  <2>5. \A k \in DOMAIN result_queue : result_queue[k].task \in Nat /\ result_queue[k].task < t
    BY <2>4, TasksOfFacts DEF OrderInv
  <2>6. \A k \in DOMAIN delivered : delivered[k].task \in Nat /\ delivered[k].task < t
    BY <2>4, TasksOfFacts DEF OrderInv
  <2>7. /\ DOMAIN task_queue = 1..Len(task_queue)
        /\ DOMAIN task_queue' = 1..(Len(task_queue) + 1)
        /\ Len(task_queue) \in Nat
        /\ \A i \in DOMAIN task_queue : task_queue[i] \in Nat /\ task_queue[i] < t
    BY <2>1, <2>4, AppendFacts, QueuedTasks DEF OrderInv
  <2>8. Increasing(task_queue')
    <3> SUFFICES ASSUME NEW i \in DOMAIN task_queue', NEW j \in DOMAIN task_queue', i < j
                 PROVE  task_queue'[i] < task_queue'[j]
      BY DEF Increasing
    <3>1. i \in DOMAIN task_queue
      BY <2>7
    <3>2. QED
      BY <2>3, <2>7, <3>1 DEF OrderInv, Increasing
  <2>9. QED
    BY <2>1, <2>2, <2>3, <2>4, <2>5, <2>6, <2>7, <2>8 DEF OrderInv, IncreasingTasks
<1>2. CASE TryGetResult
  <2>1. /\ result_queue # <<>>
        /\ result_queue' = Tail(result_queue)
        /\ delivered' = Append(delivered, Head(result_queue))
        /\ UNCHANGED <<task_queue, job, submitted>>
    BY <1>2 DEF TryGetResult
  <2>2. Head(result_queue) \in Results
    BY <2>1
  <2>3. \A i \in DOMAIN result_queue' :
            i \in DOMAIN result_queue /\ i + 1 \in DOMAIN result_queue
            /\ result_queue'[i] = result_queue[i + 1] /\ i \in Nat
    BY <2>1, TailFacts
  <2>4. 1 \in DOMAIN result_queue /\ Head(result_queue) = result_queue[1]
        /\ \A i \in DOMAIN result_queue' : i + 1 > 1
    BY <2>1, TailFacts
  <2>5. \A i \in DOMAIN delivered' : IF i \in DOMAIN delivered
                                     THEN delivered'[i] = delivered[i]
                                     ELSE i = Len(delivered) + 1 /\ delivered'[i] = result_queue[1]
    BY <2>1, <2>2, <2>4, AppendFacts
  <2>6. IncreasingTasks(result_queue')
    BY <2>3 DEF OrderInv, IncreasingTasks
  <2>7. IncreasingTasks(delivered')
    BY <2>1, <2>2, <2>4, <2>5, AppendFacts DEF OrderInv, IncreasingTasks
  <2>8. \A k \in DOMAIN result_queue' : \A l \in DOMAIN delivered' :
            delivered'[l].task < result_queue'[k].task
    BY <2>3, <2>4, <2>5 DEF OrderInv, IncreasingTasks
  <2>9. QED
    BY <2>1, <2>3, <2>4, <2>5, <2>6, <2>7, <2>8 DEF OrderInv
<1>3. CASE ClearTasks
  BY <1>3 DEF ClearTasks, OrderInv, Increasing, IncreasingTasks
<1>4. CASE ClearResults
  BY <1>4 DEF ClearResults, OrderInv, Increasing, IncreasingTasks
<1>5. CASE RequestStop \/ Join
  BY <1>5 DEF RequestStop, Join, OrderInv, Increasing, IncreasingTasks
<1>6. CASE LoopTest \/ WaitInterrupted \/ StartWork \/ RefuseWork \/ FinishWork \/ Callback
  BY <1>6 DEF LoopTest, WaitInterrupted, StartWork, RefuseWork, FinishWork, Callback,
              OrderInv, Increasing, IncreasingTasks
<1>7. CASE WaitConsume
  <2>1. /\ task_queue # <<>>
        /\ task_queue' = Tail(task_queue)
        /\ job' = task_queue[1]
        /\ job = NoTask
        /\ UNCHANGED <<result_queue, delivered, submitted>>
    BY <1>7, TailFacts DEF WaitConsume, JobInHand
  <2>2. /\ 1 \in DOMAIN task_queue
        /\ \A i \in DOMAIN task_queue' :
               i \in Nat /\ i + 1 > 1 /\ i + 1 \in DOMAIN task_queue
               /\ task_queue'[i] = task_queue[i + 1]
    BY <2>1, TailFacts
  <2>3. Increasing(task_queue')
    BY <2>2 DEF OrderInv, Increasing
  <2>4. QED
    BY <2>1, <2>2, <2>3 DEF OrderInv, Increasing, IncreasingTasks
<1>8. CASE PostResult
  <2> DEFINE r == [task |-> job, outcome |-> outcome]
  <2>1. /\ r \in Results
        /\ job # NoTask
        /\ result_queue' = Append(result_queue, r)
        /\ job' = NoTask
        /\ UNCHANGED <<task_queue, delivered, submitted>>
    BY <1>8 DEF PostResult, JobInHand, OutcomeInv, Results
  <2>2. \A i \in DOMAIN result_queue' : IF i \in DOMAIN result_queue
                                        THEN result_queue'[i] = result_queue[i]
                                        ELSE i = Len(result_queue) + 1 /\ result_queue'[i] = r
    BY <2>1, AppendFacts
  <2>3. r.task = job
    OBVIOUS
  <2> HIDE DEF r
  <2>4. IncreasingTasks(result_queue')
    BY <2>1, <2>2, <2>3, AppendFacts DEF OrderInv, IncreasingTasks
  <2>5. \A i \in DOMAIN task_queue : \A k \in DOMAIN result_queue' :
            result_queue'[k].task < task_queue[i]
    BY <2>1, <2>2, <2>3 DEF OrderInv
  <2>6. \A k \in DOMAIN result_queue' :
            /\ result_queue'[k].task <= submitted
            /\ \A l \in DOMAIN delivered : delivered[l].task < result_queue'[k].task
    BY <2>1, <2>2, <2>3 DEF OrderInv
  <2>7. \A i \in DOMAIN task_queue : task_queue[i] \in Tasks
    BY QueuedTasks
  <2>8. QED
    BY <2>1, <2>4, <2>5, <2>6, <2>7 DEF OrderInv, Increasing, IncreasingTasks
<1>9. CASE UNCHANGED vars
  BY <1>9 DEF vars, OrderInv, Increasing, IncreasingTasks
<1>10. QED
  BY <1>1, <1>2, <1>3, <1>4, <1>5, <1>6, <1>7, <1>8, <1>9 DEF Next, Thread, Owner

\* The inductive invariant holds in every reachable state.
THEOREM Safety == Spec => []IInv
<1>1. Init => IInv
  BY InitIInv
<1>2. IInv /\ [Next]_vars => IInv'
  BY NextTypeOK, NextControl, NextOrder DEF IInv
<1>3. QED
  BY <1>1, <1>2, PTL DEF Spec

\* The types of the Worker and of its clients (TypeOK), for any number of tasks.
THEOREM TypeCorrect == Spec => []TypeOK
<1>1. IInv => TypeOK
  BY DEF IInv
<1>2. QED
  BY <1>1, Safety, PTL

\* AtMostOneLateResult for any number of queued tasks: after the stop request
\* the thread posts at most one more result.
THEOREM LateHolds == Spec => []AtMostOneLateResult
  BY Safety, PTL DEF IInv, LateInv, AtMostOneLateResult

------------------------------------------------------------------------------
(* Order along the whole pipeline *)

TaskSeq(r) == [i \in DOMAIN r |-> r[i].task]

LEMMA TaskSeqFacts ==
    ASSUME NEW r \in Seq(Results)
    PROVE  /\ TaskSeq(r) \in Seq(Tasks)
           /\ Len(TaskSeq(r)) = Len(r)
           /\ DOMAIN r = 1..Len(r)
           /\ \A i \in DOMAIN r : TaskSeq(r)[i] = r[i].task
<1>1. DOMAIN r = 1..Len(r) /\ Len(r) \in Nat
  OBVIOUS
<1>2. \A i \in DOMAIN r : r[i].task \in Tasks
  BY TasksOfFacts
<1>3. QED
  BY <1>1, <1>2 DEF TaskSeq

\* Two increasing sequences of which the first stays below the second
\* concatenate to an increasing sequence.
LEMMA IncreasingConcat ==
    ASSUME NEW s \in Seq(Nat), NEW t \in Seq(Nat), Increasing(s), Increasing(t),
           \A i \in DOMAIN s, j \in DOMAIN t : s[i] < t[j]
    PROVE  s \o t \in Seq(Nat) /\ Increasing(s \o t)
<1>1. s \o t \in Seq(Nat) /\ DOMAIN s = 1..Len(s) /\ DOMAIN t = 1..Len(t)
      /\ DOMAIN (s \o t) = 1..(Len(s) + Len(t))
  OBVIOUS
<1>2. ASSUME NEW i \in DOMAIN (s \o t), NEW j \in DOMAIN (s \o t), i < j
      PROVE  (s \o t)[i] < (s \o t)[j]
  <2>1. CASE j <= Len(s)
    BY <1>1, <1>2, <2>1 DEF Increasing
  <2>2. CASE i > Len(s)
    <3>1. /\ i - Len(s) \in DOMAIN t /\ j - Len(s) \in DOMAIN t
          /\ i - Len(s) < j - Len(s)
      BY <1>1, <1>2, <2>2
    <3>2. t[i - Len(s)] < t[j - Len(s)]
      BY <3>1 DEF Increasing
    <3>3. QED
      BY <1>1, <1>2, <2>2, <3>1, <3>2
  <2>3. CASE i <= Len(s) /\ j > Len(s)
    <3>1. i \in DOMAIN s /\ j - Len(s) \in DOMAIN t
      BY <1>1, <1>2, <2>3
    <3>2. QED
      BY <1>1, <1>2, <2>3, <3>1
  <2>4. QED
    BY <1>1, <1>2, <2>1, <2>2, <2>3
<1>3. QED
  BY <1>1, <1>2 DEF Increasing

LEMMA ConcatElements ==
    ASSUME NEW S, NEW s \in Seq(S), NEW t \in Seq(S)
    PROVE  Elements(s \o t) = Elements(s) \cup Elements(t)
<1>1. /\ DOMAIN s = 1..Len(s) /\ DOMAIN t = 1..Len(t)
      /\ DOMAIN (s \o t) = 1..(Len(s) + Len(t))
      /\ Len(s) \in Nat /\ Len(t) \in Nat
  OBVIOUS
<1>2. \A i \in DOMAIN s : i \in DOMAIN (s \o t) /\ (s \o t)[i] = s[i]
  BY <1>1
<1>3. \A i \in DOMAIN t : Len(s) + i \in DOMAIN (s \o t) /\ (s \o t)[Len(s) + i] = t[i]
  BY <1>1
<1>4. \A i \in DOMAIN (s \o t) : \/ i \in DOMAIN s /\ (s \o t)[i] = s[i]
                                 \/ i - Len(s) \in DOMAIN t /\ (s \o t)[i] = t[i - Len(s)]
  BY <1>1
<1>5. Elements(s) \subseteq Elements(s \o t)
  BY <1>2 DEF Elements
<1>6. Elements(t) \subseteq Elements(s \o t)
  BY <1>3 DEF Elements
<1>7. Elements(s \o t) \subseteq Elements(s) \cup Elements(t)
  BY <1>4 DEF Elements
<1>8. QED
  BY <1>5, <1>6, <1>7

LEMMA OrderGivesInOrder == IInv => InOrder
<1> SUFFICES ASSUME IInv
             PROVE  InOrder
  OBVIOUS
<1> DEFINE d == TaskSeq(delivered)
           r == TaskSeq(result_queue)
<1>1. Tasks \subseteq Nat
  BY DEF Tasks
<1>2. d \in Seq(Nat) /\ r \in Seq(Nat) /\ Executing \in Seq(Nat) /\ task_queue \in Seq(Nat)
  <2>1. \A s \in Seq(Tasks) : s \in Seq(Nat)
    BY <1>1, SeqMonotonic
  <2>2. d \in Seq(Tasks) /\ r \in Seq(Tasks)
    BY TaskSeqFacts DEF IInv, TypeOK
  <2>3. Executing \in Seq(Tasks)
    BY DEF IInv, TypeOK, Executing
  <2>4. QED
    BY <2>1, <2>2, <2>3 DEF IInv, TypeOK
<1>0. \A s, t \in Seq(Nat) : Elements(s \o t) = Elements(s) \cup Elements(t)
  BY ONLY ConcatElements
<1>3. Increasing(d) /\ Increasing(r) /\ Increasing(Executing) /\ Increasing(task_queue)
  <2>1. Increasing(d) /\ Increasing(r)
    BY TaskSeqFacts DEF IInv, TypeOK, OrderInv, Increasing, IncreasingTasks, TaskSeq
  <2>2. Increasing(Executing)
    BY DEF Increasing, Executing
  <2>3. QED
    BY <2>1, <2>2 DEF IInv, OrderInv
<1>4. Increasing(d \o r) /\ d \o r \in Seq(Nat)
  <2>1. \A i \in DOMAIN d, j \in DOMAIN r : d[i] < r[j]
    BY DEF IInv, OrderInv, TaskSeq
  <2>2. QED
    BY <1>2, <1>3, <2>1, IncreasingConcat
<1>5. \A x \in Elements(d \o r) : /\ job # NoTask => x < job
                                /\ \A j \in DOMAIN task_queue : x < task_queue[j]
  <2>1. Elements(d \o r) = Elements(d) \cup Elements(r)
    BY ONLY <1>0, <1>2, ZenonT(30)
  <2>2. QED
    BY <2>1 DEF IInv, OrderInv, TaskSeq, Elements
<1>6. Increasing(d \o r \o Executing) /\ d \o r \o Executing \in Seq(Nat)
  <2>1. \A i \in DOMAIN (d \o r), j \in DOMAIN Executing : (d \o r)[i] < Executing[j]
    BY <1>5 DEF Executing, Elements
  <2>2. QED
    BY <1>2, <1>3, <1>4, <2>1, IncreasingConcat
<1>7. Increasing(d \o r \o Executing \o task_queue)
  <2>1. Elements(d \o r \o Executing) = Elements(d \o r) \cup Elements(Executing)
    BY ONLY <1>0, <1>2, <1>4, ZenonT(30)
  <2>2. \A x \in Elements(Executing) : job # NoTask /\ x = job
    BY DEF Executing, Elements
  <2>3. \A x \in Elements(d \o r \o Executing) : \A j \in DOMAIN task_queue : x < task_queue[j]
    BY <1>5, <2>1, <2>2 DEF IInv, OrderInv
  <2>4. \A i \in DOMAIN (d \o r \o Executing), j \in DOMAIN task_queue :
            (d \o r \o Executing)[i] < task_queue[j]
    BY <2>3 DEF Elements
  <2>5. QED
    BY <1>2, <1>3, <1>6, <2>4, IncreasingConcat
<1>8. Pipeline = d \o r \o Executing \o task_queue
  BY DEF Pipeline, TaskSeq
<1>9. QED
  BY <1>7, <1>8 DEF InOrder, Increasing

\* InOrder for any number of tasks and clients: no interleaving of the thread, its
\* subtasks, polls and clears makes an answer overtake another or come twice.
THEOREM OrderHolds == Spec => []InOrder
  BY Safety, OrderGivesInOrder, PTL

------------------------------------------------------------------------------
(* What a clear leaves behind *)

\* Every queued task is newer than the last clear.  After the clear at most one
\* older task is left, either in hand or posted; during it, the older results
\* are still to be thrown away.
ClearInv ==
    /\ mark <= submitted
    /\ \A i \in DOMAIN task_queue : mark < task_queue[i]
    /\ owner # "clearing" =>
           \A i \in DOMAIN result_queue :
               result_queue[i].task <= mark =>
                   /\ job # NoTask => mark < job
                   /\ \A j \in DOMAIN result_queue : result_queue[j].task <= mark => i = j

LEMMA InitClear == Init => ClearInv
  BY DEF Init, ClearInv

LEMMA NextClear == IInv /\ ClearInv /\ [Next]_vars => ClearInv'
<1> SUFFICES ASSUME IInv, ClearInv, [Next]_vars
             PROVE  ClearInv'
  OBVIOUS
<1> USE DEF IInv, TypeOK, NoTask, thread, history
<1>1. CASE Submit \/ SubmitSubtask
  <2>1. /\ submitted + 1 \in Tasks
        /\ task_queue' = Append(task_queue, submitted + 1)
        /\ submitted' = submitted + 1
        /\ owner' = owner
        /\ UNCHANGED <<result_queue, job, mark>>
    BY <1>1, MaxTasksAssumption DEF Submit, SubmitSubtask, Produce, Tasks
  <2>2. \A i \in DOMAIN task_queue' :
            (i \in DOMAIN task_queue /\ task_queue'[i] = task_queue[i])
            \/ task_queue'[i] = submitted + 1
    BY <2>1, AppendFacts
  <2>3. QED
    BY <2>1, <2>2 DEF ClearInv
<1>2. CASE TryGetResult
  <2>1. /\ \A i \in DOMAIN result_queue' : /\ i \in Nat
                                         /\ i + 1 \in DOMAIN result_queue
                                         /\ result_queue'[i] = result_queue[i + 1]
        /\ UNCHANGED <<task_queue, job, mark, submitted, owner>>
    BY <1>2, TailFacts DEF TryGetResult
  <2>2. QED
    BY <1>2, <2>1 DEF ClearInv, TryGetResult
<1>3. CASE ClearTasks
  BY <1>3 DEF ClearTasks, ClearInv
<1>4. CASE ClearResults
  BY <1>4 DEF ClearResults, ClearInv
<1>5. CASE RequestStop
  BY <1>5 DEF RequestStop, ClearInv
<1>6. CASE \/ Join \/ LoopTest \/ WaitInterrupted \/ StartWork \/ RefuseWork
            \/ FinishWork \/ Callback
  BY <1>6 DEF Join, LoopTest, WaitInterrupted, StartWork, RefuseWork, FinishWork, Callback,
              ClearInv
<1>7. CASE WaitConsume
  <2>1. /\ \A i \in DOMAIN task_queue' : i + 1 \in DOMAIN task_queue
                                      /\ task_queue'[i] = task_queue[i + 1]
        /\ 1 \in DOMAIN task_queue /\ job' = task_queue[1]
        /\ UNCHANGED <<result_queue, mark, submitted, owner>>
    BY <1>7, TailFacts DEF WaitConsume
  <2>2. QED
    BY <2>1 DEF ClearInv
<1>8. CASE PostResult
  <2> DEFINE r == [task |-> job, outcome |-> outcome]
  <2>1. /\ r \in Results /\ r.task = job
        /\ job # NoTask /\ job' = NoTask
        /\ result_queue' = Append(result_queue, r)
        /\ UNCHANGED <<task_queue, mark, submitted, owner>>
    BY <1>8 DEF PostResult, JobInHand, OutcomeInv, Results, Tasks
  <2> HIDE DEF r
  <2>2. /\ \A i \in DOMAIN result_queue' :
               \/ i \in DOMAIN result_queue /\ result_queue'[i] = result_queue[i]
               \/ i = Len(result_queue) + 1 /\ result_queue'[i] = r
    BY <2>1, AppendFacts
  <2>3. ASSUME owner' # "clearing",
               NEW i \in DOMAIN result_queue', result_queue'[i].task <= mark',
               NEW j \in DOMAIN result_queue', result_queue'[j].task <= mark'
        PROVE  i = j
    <3>1. job \in Nat /\ mark \in Nat
      BY DEF Tasks
    <3>2. CASE result_queue'[i] = r \/ result_queue'[j] = r
      <4>1. \A k \in DOMAIN result_queue : ~(result_queue[k].task <= mark)
        BY <2>1, <2>3, <3>1, <3>2 DEF ClearInv
      <4>2. QED
        BY <2>1, <2>2, <2>3, <4>1
    <3>3. CASE result_queue'[i] # r /\ result_queue'[j] # r
      BY <2>1, <2>2, <2>3, <3>3 DEF ClearInv
    <3>4. QED
      BY <3>2, <3>3
  <2>4. QED
    BY <2>1, <2>3 DEF ClearInv
<1>9. CASE UNCHANGED vars
  BY <1>9 DEF vars, ClearInv
<1>10. QED
  BY <1>1, <1>2, <1>3, <1>4, <1>5, <1>6, <1>7, <1>8, <1>9 DEF Next, Thread, Owner

LEMMA ClearGivesAtMostOne == IInv /\ ClearInv => ClearLeavesAtMostOne
<1> SUFFICES ASSUME IInv, ClearInv, owner = "using"
             PROVE  ClearLeavesAtMostOne
  BY DEF ClearLeavesAtMostOne
<1> DEFINE Old == {t \in TasksOf(result_queue) \cup {job} \cup Elements(task_queue) :
                      t # NoTask /\ t <= mark}
<1>1. \A s, t \in Old : s = t
  <2>1. \A t \in Old : t \in TasksOf(result_queue) \/ (t = job /\ job # NoTask)
    <3>1. \A i \in DOMAIN task_queue : ~(task_queue[i] <= mark)
      BY QueuedTasks DEF IInv, TypeOK, ClearInv, Tasks
    <3>2. QED
      BY <3>1 DEF Elements
  <2>2. \A s, t \in TasksOf(result_queue) : s <= mark /\ t <= mark => s = t
    BY DEF TasksOf, ClearInv
  <2>3. \A s \in TasksOf(result_queue) : s <= mark /\ job # NoTask => ~(job <= mark)
    BY DEF TasksOf, ClearInv, IInv, TypeOK, Tasks
  <2>4. QED
    BY <2>1, <2>2, <2>3
<1>2. CASE Old = {}
  BY <1>2, FS_EmptySet DEF ClearLeavesAtMostOne
<1>3. CASE Old # {}
  <2>1. PICK t \in Old : TRUE
    BY <1>3
  <2>2. Old = {t}
    BY <1>1, <2>1
  <2>3. Cardinality(Old) = 1
    BY <2>2, FS_Singleton
  <2>4. QED
    BY <2>3 DEF ClearLeavesAtMostOne
<1>4. QED
  BY <1>2, <1>3

\* ClearLeavesAtMostOne for any number of tasks: because the tasks are cleared
\* first, only the job in execution can survive a clear.
THEOREM ClearHolds == Spec => []ClearLeavesAtMostOne
<1>1. Spec => []ClearInv
  <2>1. Init => ClearInv
    BY InitClear
  <2>2. IInv /\ ClearInv /\ [Next]_vars => ClearInv'
    BY NextClear
  <2>3. QED
    BY <2>1, <2>2, Safety, PTL DEF Spec
<1>2. QED
  BY <1>1, Safety, ClearGivesAtMostOne, PTL

------------------------------------------------------------------------------
(* Nothing is lost *)

InHand == {job} \ {NoTask}

PipelineSet == TasksOf(delivered) \cup TasksOf(result_queue) \cup InHand \cup Elements(task_queue)

\* Every submitted task is in the pipeline or was discarded, and not both.
LostInv ==
    /\ PipelineSet \cup discarded = 1..submitted
    /\ PipelineSet \cap discarded = {}

LEMMA AppendElements ==
    ASSUME NEW S, NEW s \in Seq(S), NEW x \in S
    PROVE  Elements(Append(s, x)) = Elements(s) \cup {x}
<1>1. Len(s) + 1 \in DOMAIN Append(s, x)
  BY AppendFacts
<1>2. \A i \in DOMAIN Append(s, x) : i \in DOMAIN s \/ i = Len(s) + 1
  BY AppendFacts
<1>3. \A i \in DOMAIN s : i \in DOMAIN Append(s, x)
  BY AppendFacts
<1>4. QED
  BY <1>1, <1>2, <1>3, AppendFacts DEF Elements

LEMMA TailElements ==
    ASSUME NEW S, NEW s \in Seq(S), s # <<>>
    PROVE  Elements(s) = {Head(s)} \cup Elements(Tail(s))
<1>1. 1 \in DOMAIN s /\ Head(s) = s[1]
  BY TailFacts
<1>2. \A i \in DOMAIN Tail(s) : i + 1 \in DOMAIN s /\ Tail(s)[i] = s[i + 1]
  BY TailFacts
<1>3. \A i \in DOMAIN s : i = 1 \/ (i - 1 \in DOMAIN Tail(s) /\ s[i] = Tail(s)[i - 1])
  BY TailFacts
<1>4. Elements(s) \subseteq {Head(s)} \cup Elements(Tail(s))
  BY <1>1, <1>3 DEF Elements
<1>5. {Head(s)} \cup Elements(Tail(s)) \subseteq Elements(s)
  BY <1>1, <1>2 DEF Elements
<1>6. QED
  BY <1>4, <1>5

LEMMA TasksOfElements ==
    ASSUME NEW r \in Seq(Results)
    PROVE  TasksOf(r) = {x.task : x \in Elements(r)}
  BY DEF TasksOf, Elements

LEMMA InitLost == Init => LostInv
<1> SUFFICES ASSUME Init
             PROVE  LostInv
  OBVIOUS
<1>1. PipelineSet = {} /\ 1..submitted = {}
  BY DEF Init, PipelineSet, InHand, TasksOf, Elements
<1>2. QED
  BY <1>1 DEF Init, LostInv

LEMMA NextLost == IInv /\ LostInv /\ [Next]_vars => LostInv'
<1> SUFFICES ASSUME IInv, LostInv, [Next]_vars
             PROVE  LostInv'
  OBVIOUS
<1> USE DEF IInv, TypeOK, thread, history
<1>1. CASE Submit \/ SubmitSubtask
  <2>1. /\ submitted + 1 \in Tasks
        /\ task_queue' = Append(task_queue, submitted + 1)
        /\ submitted' = submitted + 1
        /\ UNCHANGED <<result_queue, job, delivered, discarded>>
    BY <1>1, MaxTasksAssumption DEF Submit, SubmitSubtask, Produce, Tasks
  <2>2. Elements(task_queue') = Elements(task_queue) \cup {submitted + 1}
    BY <2>1, AppendElements
  <2>3. PipelineSet' = PipelineSet \cup {submitted + 1}
    BY <2>1, <2>2 DEF PipelineSet, InHand, TasksOf
  <2>4. 1..submitted' = (1..submitted) \cup {submitted + 1} /\ submitted + 1 \notin 1..submitted
    BY <2>1
  <2>5. QED
    BY <2>1, <2>3, <2>4 DEF LostInv
<1>2. CASE TryGetResult
  <2>1. /\ result_queue # <<>>
        /\ result_queue' = Tail(result_queue)
        /\ delivered' = Append(delivered, Head(result_queue))
        /\ Head(result_queue) \in Results
        /\ UNCHANGED <<task_queue, job, submitted, discarded>>
    BY <1>2, HeadTailProperties DEF TryGetResult
  <2>2. Elements(delivered') = Elements(delivered) \cup {Head(result_queue)}
    BY <2>1, AppendElements
  <2>3. Elements(result_queue) = {Head(result_queue)} \cup Elements(result_queue')
    BY <2>1, TailElements
  <2>4. /\ TasksOf(delivered') = TasksOf(delivered) \cup {Head(result_queue).task}
        /\ TasksOf(result_queue) = {Head(result_queue).task} \cup TasksOf(result_queue')
    <3>1. delivered' \in Seq(Results) /\ result_queue' \in Seq(Results)
      BY <2>1, HeadTailProperties, AppendProperties
    <3>2. QED
      BY <2>2, <2>3, <3>1, TasksOfElements
  <2>5. PipelineSet' = PipelineSet
    BY <2>1, <2>4 DEF PipelineSet, InHand, Elements
  <2>6. QED
    BY <2>1, <2>5 DEF LostInv
<1>3. CASE ClearTasks
  <2>1. /\ task_queue' = <<>>
        /\ discarded' = discarded \cup Elements(task_queue)
        /\ UNCHANGED <<result_queue, job, delivered, submitted>>
    BY <1>3 DEF ClearTasks
  <2>2. Elements(task_queue') = {}
    BY <2>1 DEF Elements
  <2>3. PipelineSet' = TasksOf(delivered) \cup TasksOf(result_queue) \cup InHand
    BY <2>1, <2>2 DEF PipelineSet, InHand, TasksOf
  <2>4. \A x \in Elements(task_queue) : x \notin PipelineSet'
    <3>1. \A i \in DOMAIN task_queue : task_queue[i] \in Nat
      BY QueuedTasks DEF Tasks
    <3>2. \A i \in DOMAIN task_queue :
             /\ task_queue[i] \notin TasksOf(delivered)
             /\ task_queue[i] \notin TasksOf(result_queue)
             /\ task_queue[i] \notin InHand
      BY <3>1 DEF OrderInv, TasksOf, InHand
    <3>3. QED
      BY <2>3, <3>2 DEF Elements
  <2>5. QED
    BY <2>1, <2>3, <2>4 DEF LostInv, PipelineSet
<1>4. CASE ClearResults
  <2>1. /\ result_queue' = <<>>
        /\ discarded' = discarded \cup TasksOf(result_queue)
        /\ UNCHANGED <<task_queue, job, delivered, submitted>>
    BY <1>4 DEF ClearResults
  <2>2. TasksOf(result_queue') = {}
    BY <2>1 DEF TasksOf
  <2>3. PipelineSet' = TasksOf(delivered) \cup InHand \cup Elements(task_queue)
    BY <2>1, <2>2 DEF PipelineSet, InHand, TasksOf, Elements
  <2>4. \A x \in TasksOf(result_queue) : x \notin PipelineSet'
    <3>1. \A i \in DOMAIN result_queue : result_queue[i].task \in Nat
      BY TasksOfFacts DEF Tasks
    <3>2. \A i \in DOMAIN result_queue :
             /\ result_queue[i].task \notin TasksOf(delivered)
             /\ result_queue[i].task \notin Elements(task_queue)
             /\ result_queue[i].task \notin InHand
      BY <3>1 DEF OrderInv, TasksOf, Elements, InHand
    <3>3. QED
      BY <2>3, <3>2 DEF TasksOf
  <2>5. QED
    BY <2>1, <2>3, <2>4 DEF LostInv, PipelineSet
<1>5. CASE \/ RequestStop \/ Join \/ LoopTest \/ WaitInterrupted \/ StartWork
            \/ RefuseWork \/ FinishWork \/ Callback \/ UNCHANGED vars
  BY <1>5 DEF RequestStop, Join, LoopTest, WaitInterrupted, StartWork, RefuseWork,
              FinishWork, Callback, vars, LostInv, PipelineSet, InHand, TasksOf, Elements
<1>6. CASE WaitConsume
  <2>1. /\ task_queue # <<>> /\ job = NoTask
        /\ job' = Head(task_queue) /\ task_queue' = Tail(task_queue)
        /\ Head(task_queue) \in Tasks /\ Head(task_queue) # NoTask
        /\ UNCHANGED <<result_queue, delivered, submitted, discarded>>
    BY <1>6, QueuedTasks DEF WaitConsume, JobInHand, Tasks, NoTask
  <2>2. Elements(task_queue) = {job'} \cup Elements(task_queue')
    BY <2>1, TailElements
  <2>3. PipelineSet' = PipelineSet
    BY <2>1, <2>2 DEF PipelineSet, InHand, TasksOf
  <2>4. QED
    BY <2>1, <2>3 DEF LostInv
<1>7. CASE PostResult
  <2> DEFINE r == [task |-> job, outcome |-> outcome]
  <2>1. /\ r \in Results /\ r.task = job
        /\ job # NoTask /\ job' = NoTask
        /\ result_queue' = Append(result_queue, r)
        /\ UNCHANGED <<task_queue, delivered, submitted, discarded>>
    BY <1>7 DEF PostResult, JobInHand, OutcomeInv, Results
  <2> HIDE DEF r
  <2>2. Elements(result_queue') = Elements(result_queue) \cup {r}
    BY <2>1, AppendElements
  <2>3. TasksOf(result_queue') = TasksOf(result_queue) \cup {job}
    <3>1. result_queue' \in Seq(Results)
      BY <2>1, AppendProperties
    <3>2. QED
      BY <2>1, <2>2, <3>1, TasksOfElements
  <2>4. PipelineSet' = PipelineSet
    BY <2>1, <2>3 DEF PipelineSet, InHand, TasksOf, Elements
  <2>5. QED
    BY <2>1, <2>4 DEF LostInv
<1>8. QED
  BY <1>1, <1>2, <1>3, <1>4, <1>5, <1>6, <1>7 DEF Next, Thread, Owner

LEMMA LostGivesNothingLost == IInv /\ LostInv => NothingLost
<1> SUFFICES ASSUME IInv, LostInv
             PROVE  NothingLost
  OBVIOUS
<1> DEFINE d == TaskSeq(delivered)
           r == TaskSeq(result_queue)
<1>1. d \in Seq(Tasks) /\ r \in Seq(Tasks) /\ task_queue \in Seq(Tasks)
  BY TaskSeqFacts DEF IInv, TypeOK
<1>2. Executing \in Seq(Tasks)
  BY DEF IInv, TypeOK, Executing
<1>3. /\ d \o r \in Seq(Tasks)
      /\ d \o r \o Executing \in Seq(Tasks)
  BY <1>1, <1>2, ConcatProperties
<1>4. Pipeline = d \o r \o Executing \o task_queue
  BY DEF Pipeline, TaskSeq
<1>5. Elements(Pipeline) = Elements(d) \cup Elements(r) \cup Elements(Executing) \cup Elements(task_queue)
  <2>1. Elements(d \o r) = Elements(d) \cup Elements(r)
    BY ONLY <1>1, ConcatElements
  <2>2. Elements(d \o r \o Executing) = Elements(d \o r) \cup Elements(Executing)
    BY ONLY <1>2, <1>3, ConcatElements
  <2>3. Elements(d \o r \o Executing \o task_queue) =
            Elements(d \o r \o Executing) \cup Elements(task_queue)
    BY ONLY <1>1, <1>3, ConcatElements
  <2>4. QED
    BY <1>4, <2>1, <2>2, <2>3
<1>6. /\ Elements(d) = TasksOf(delivered)
      /\ Elements(r) = TasksOf(result_queue)
  BY DEF Elements, TasksOf, TaskSeq
<1>7. Elements(Executing) = InHand
  BY DEF Elements, Executing, InHand
<1>8. QED
  BY <1>5, <1>6, <1>7 DEF LostInv, PipelineSet, NothingLost

\* NothingLost for any number of tasks: only a clear makes a task disappear.
THEOREM LostHolds == Spec => []NothingLost
<1>1. Spec => []LostInv
  <2>1. Init => LostInv
    BY InitLost
  <2>2. IInv /\ LostInv /\ [Next]_vars => LostInv'
    BY NextLost
  <2>3. QED
    BY <2>1, <2>2, Safety, PTL DEF Spec
<1>2. QED
  BY <1>1, Safety, LostGivesNothingLost, PTL

------------------------------------------------------------------------------
(* Refinement of TaskService *)

LEMMA ServiceInit == Init => Service!Init
  BY DEF Init, Service!Init, Executing, NoTask

\* A clear is the one operation that is not a step of the service.
Uncleared == owner # "clearing"

LEMMA ServiceNext == IInv /\ Uncleared /\ Uncleared' /\ [Next]_vars => [Service!Next]_(Service!vars)
<1> SUFFICES ASSUME IInv, Uncleared, Uncleared', [Next]_vars
             PROVE  [Service!Next]_(Service!vars)
  OBVIOUS
<1> DEFINE waiting == Executing \o task_queue
<1> USE DEF IInv, TypeOK, thread, history, Uncleared
<1>1. CASE Submit \/ SubmitSubtask
  <2>1. /\ submitted + 1 \in Tasks
        /\ task_queue' = Append(task_queue, submitted + 1)
        /\ UNCHANGED <<job, result_queue, delivered>>
    BY <1>1, MaxTasksAssumption DEF Submit, SubmitSubtask, Produce, Tasks
  <2>2. waiting' = Append(waiting, submitted + 1)
    BY <2>1 DEF Executing
  <2>3. Service!Submit(submitted + 1)
    BY <2>1, <2>2 DEF Service!Submit
  <2>4. QED
    BY <2>1, <2>3 DEF Service!Next
<1>2. CASE TryGetResult
  <2>1. Service!Deliver
    BY <1>2 DEF TryGetResult, Service!Deliver, Executing
  <2>2. QED
    BY <2>1 DEF Service!Next
<1>3. CASE ClearTasks \/ ClearResults
  BY <1>3 DEF ClearTasks, ClearResults
<1>4. CASE \/ RequestStop \/ Join \/ LoopTest \/ WaitInterrupted \/ StartWork
            \/ RefuseWork \/ FinishWork \/ Callback
  BY <1>4 DEF RequestStop, Join, LoopTest, WaitInterrupted, StartWork, RefuseWork,
              FinishWork, Callback, Service!vars, Executing
<1>5. CASE WaitConsume
  <2>1. /\ job = NoTask
        /\ task_queue # <<>>
        /\ job' = Head(task_queue) /\ task_queue' = Tail(task_queue)
        /\ Head(task_queue) \in Tasks /\ Head(task_queue) # NoTask
        /\ UNCHANGED <<result_queue, delivered>>
    BY <1>5, QueuedTasks DEF WaitConsume, JobInHand, Tasks, NoTask
  <2>2. waiting' = waiting
    BY <2>1 DEF Executing
  <2>3. QED
    BY <2>1, <2>2 DEF Service!vars
<1>6. CASE PostResult
  <2>1. /\ job # NoTask /\ job' = NoTask
        /\ outcome \in Outcomes
        /\ result_queue' = Append(result_queue, [task |-> job, outcome |-> outcome])
        /\ UNCHANGED <<task_queue, delivered>>
    BY <1>6 DEF PostResult, JobInHand, OutcomeInv
  <2>2. waiting # <<>> /\ Head(waiting) = job /\ waiting' = Tail(waiting)
    BY <2>1 DEF Executing
  <2>3. Service!Answer(outcome)
    BY <2>1, <2>2 DEF Service!Answer
  <2>4. QED
    BY <2>1, <2>3 DEF Service!Next
<1>7. CASE UNCHANGED vars
  BY <1>7 DEF vars, Service!vars, Executing
<1>8. QED
  BY <1>1, <1>2, <1>3, <1>4, <1>5, <1>6, <1>7 DEF Next, Thread, Owner

\* As long as nobody clears, the thread and its two queues implement the service
\* that the class documents, for any number of tasks: ImplementsTaskService.
THEOREM Refinement == Spec /\ []Uncleared => ImplementsTaskService
<1>1. Init => Service!Init
  BY ServiceInit
<1>2. IInv /\ Uncleared /\ Uncleared' /\ [Next]_vars => [Service!Next]_(Service!vars)
  BY ServiceNext
<1>3. QED
  BY <1>1, <1>2, Safety, PTL DEF Spec, ImplementsTaskService, Service!Spec
==============================================================================
