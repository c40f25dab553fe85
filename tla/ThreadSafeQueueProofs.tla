------------------------ MODULE ThreadSafeQueueProofs ------------------------
(***************************************************************************)
(* Proofs about ThreadSafeQueue: for any set of threads, any values and    *)
(* any number of calls, the mutex makes the bodies atomic, and the queue   *)
(* implements AtomicQueue.                                                 *)
(***************************************************************************)
EXTENDS ThreadSafeQueue, FiniteSetTheorems, TLAPS

\* A thread that is inside an operation is at a point of that operation, a
\* producer still holds the value it was called with, and a consumer holds
\* none before front(): the argument survives waiting for the mutex.
CallDiscipline ==
    \A t \in Threads :
        /\ pc[t] = "pop" => op[t] \in Takes
        /\ pc[t] = "blocked" => op[t] = "wait_consume"
        /\ pc[t] = "notify" => op[t] = "produce"
        /\ pc[t] \in {"lock", "body"} /\ op[t] = "produce" => slot[t] \in Values
        /\ pc[t] \in {"lock", "body", "blocked"} /\ op[t] \in Takes => slot[t] = None

\* Type correctness, mutual exclusion and the call discipline are inductive
\* together: a body may assume that nobody else touches the deque because the
\* program point says that its thread owns the mutex.
IInv == TypeOK /\ MutualExclusion /\ FrontStaysFront /\ CallDiscipline

LEMMA InitIInv == Init => IInv
<1> SUFFICES ASSUME Init
             PROVE  IInv
  OBVIOUS
<1>1. TypeOK
  <2>1. queue \in Seq(Values)
    BY DEF Init
  <2>2. pc \in [Threads -> PCs] /\ op \in [Threads -> Ops] /\ slot \in [Threads -> Slots]
    BY DEF Init, PCs, Critical, Slots, Ops
  <2>3. calls \in 0..MaxCalls
    BY MaxCallsAssumption DEF Init
  <2>4. QED
    BY <2>1, <2>2, <2>3 DEF Init, TypeOK
<1>2. MutualExclusion
  BY NobodyAssumption DEF Init, MutualExclusion, Critical
<1>3. FrontStaysFront /\ CallDiscipline
  BY DEF Init, FrontStaysFront, CallDiscipline, Takes
<1>4. QED
  BY <1>1, <1>2, <1>3 DEF IInv

LEMMA NextTypeOK == IInv /\ [Next]_vars => TypeOK'
<1> SUFFICES ASSUME IInv, [Next]_vars
             PROVE  TypeOK'
  OBVIOUS
<1> USE DEF IInv, TypeOK, PCs, Critical, Slots, Ops, Takes, Goto
<1>1. ASSUME NEW t \in Threads, NEW o \in Ops, NEW v \in Values \cup {None}, Call(t, o, v)
      PROVE  TypeOK'
  BY <1>1, MaxCallsAssumption DEF Call
<1>2. ASSUME NEW t \in Threads, Lock(t)
      PROVE  TypeOK'
  BY <1>2 DEF Lock
<1>3. ASSUME NEW t \in Threads, Unlock(t)
      PROVE  TypeOK'
  BY <1>3 DEF Unlock
<1>4. ASSUME NEW t \in Threads, ProducePush(t)
      PROVE  TypeOK'
  BY <1>4 DEF ProducePush, CallDiscipline
<1>5. ASSUME NEW t \in Threads, NotifyOne(t)
      PROVE  TypeOK'
  BY <1>5 DEF NotifyOne, Blocked
<1>6. ASSUME NEW t \in Threads, WaitConsumeBlock(t)
      PROVE  TypeOK'
  BY <1>6 DEF WaitConsumeBlock
<1>7. ASSUME NEW t \in Threads, SpuriousWake(t)
      PROVE  TypeOK'
  BY <1>7, MaxCallsAssumption DEF SpuriousWake
<1>8. ASSUME NEW t \in Threads, ReturnNullopt(t)
      PROVE  TypeOK'
  BY <1>8 DEF ReturnNullopt
<1>9. ASSUME NEW t \in Threads, TakeFront(t)
      PROVE  TypeOK'
  BY <1>9 DEF TakeFront
<1>10. ASSUME NEW t \in Threads, PopFront(t)
       PROVE  TypeOK'
  BY <1>10 DEF PopFront, FrontStaysFront
<1>11. ASSUME NEW t \in Threads, Empty(t)
       PROVE  TypeOK'
  BY <1>11 DEF Empty
<1>12. ASSUME NEW t \in Threads, Clear(t)
       PROVE  TypeOK'
  BY <1>12 DEF Clear
<1>13. CASE RequestStop
  BY <1>13 DEF RequestStop
<1>14. CASE UNCHANGED vars
  BY <1>14 DEF vars
<1>15. QED
  BY <1>1, <1>2, <1>3, <1>4, <1>5, <1>6, <1>7, <1>8, <1>9, <1>10, <1>11, <1>12,
     <1>13, <1>14 DEF Next, Step

\* The body of an operation runs under the mutex, so a step of another thread
\* finds the deque as the owner left it.
LEMMA NextBodies ==
    IInv /\ [Next]_vars => MutualExclusion' /\ FrontStaysFront' /\ CallDiscipline'
<1> SUFFICES ASSUME IInv, [Next]_vars
             PROVE  MutualExclusion' /\ FrontStaysFront' /\ CallDiscipline'
  OBVIOUS
<1> DEFINE Goal == MutualExclusion' /\ FrontStaysFront' /\ CallDiscipline'
<1> USE NobodyAssumption DEF IInv, TypeOK, MutualExclusion, FrontStaysFront, CallDiscipline,
        PCs, Critical, Slots, Ops, Takes, Goto
<1>1. ASSUME NEW t \in Threads, NEW o \in Ops, NEW v \in Values \cup {None}, Call(t, o, v)
      PROVE  Goal
  BY <1>1 DEF Call
<1>2. ASSUME NEW t \in Threads, Lock(t)
      PROVE  Goal
  BY <1>2 DEF Lock
<1>3. ASSUME NEW t \in Threads, Unlock(t)
      PROVE  Goal
  BY <1>3 DEF Unlock
<1>4. ASSUME NEW t \in Threads, ProducePush(t)
      PROVE  Goal
  BY <1>4 DEF ProducePush
<1>5. ASSUME NEW t \in Threads, NotifyOne(t)
      PROVE  Goal
  BY <1>5 DEF NotifyOne, Blocked
<1>6. ASSUME NEW t \in Threads, WaitConsumeBlock(t)
      PROVE  Goal
  BY <1>6 DEF WaitConsumeBlock
<1>7. ASSUME NEW t \in Threads, SpuriousWake(t)
      PROVE  Goal
  BY <1>7 DEF SpuriousWake
<1>8. ASSUME NEW t \in Threads, ReturnNullopt(t)
      PROVE  Goal
  BY <1>8 DEF ReturnNullopt
<1>9. ASSUME NEW t \in Threads, TakeFront(t)
      PROVE  Goal
  BY <1>9 DEF TakeFront
<1>10. ASSUME NEW t \in Threads, PopFront(t)
       PROVE  Goal
  BY <1>10 DEF PopFront
<1>11. ASSUME NEW t \in Threads, Empty(t)
       PROVE  Goal
  BY <1>11 DEF Empty
<1>12. ASSUME NEW t \in Threads, Clear(t)
       PROVE  Goal
  BY <1>12 DEF Clear
<1>13. CASE RequestStop
  BY <1>13 DEF RequestStop
<1>14. CASE UNCHANGED vars
  BY <1>14 DEF vars
<1>15. QED
  BY <1>1, <1>2, <1>3, <1>4, <1>5, <1>6, <1>7, <1>8, <1>9, <1>10, <1>11, <1>12,
     <1>13, <1>14 DEF Next, Step

\* The inductive invariant holds in every reachable state.
THEOREM Safety == Spec => []IInv
<1>1. Init => IInv
  BY InitIInv
<1>2. IInv /\ [Next]_vars => IInv'
  BY NextTypeOK, NextBodies DEF IInv
<1>3. QED
  BY <1>1, <1>2, PTL DEF Spec

\* The types of the queue and of its threads (TypeOK), for any threads and values.
THEOREM TypeCorrect == Spec => []TypeOK
<1>1. IInv => TypeOK
  BY DEF IInv
<1>2. QED
  BY <1>1, Safety, PTL

------------------------------------------------------------------------------

\* MutualExclusion for every set of threads: at most one thread is inside a
\* body, and it is the owner of the mutex.
THEOREM MutexHolds == Spec => []MutualExclusion
  BY Safety, PTL DEF IInv

\* FrontStaysFront for every set of threads: pop_front removes exactly the
\* value that the same thread read with front().
THEOREM FrontHolds == Spec => []FrontStaysFront
  BY Safety, PTL DEF IInv

LEMMA SleepInit == Init => NoSleepAfterStop
  BY DEF Init, NoSleepAfterStop

LEMMA SleepNext ==
    IInv /\ NoSleepAfterStop /\ [Next]_vars => NoSleepAfterStop'
<1> SUFFICES ASSUME IInv, NoSleepAfterStop, [Next]_vars
             PROVE  NoSleepAfterStop'
  OBVIOUS
<1> USE DEF IInv, TypeOK, PCs, Critical, NoSleepAfterStop, Blocked, Goto
<1>1. ASSUME NEW t \in Threads, NEW o \in Ops, NEW v \in Values \cup {None}, Call(t, o, v)
      PROVE  NoSleepAfterStop'
  BY <1>1 DEF Call
<1>2. ASSUME NEW t \in Threads, Step(t)
      PROVE  NoSleepAfterStop'
  BY <1>2 DEF Step, Lock, Unlock, ProducePush, NotifyOne, WaitConsumeBlock,
      ReturnNullopt, TakeFront, PopFront, Empty, Clear
<1>3. ASSUME NEW t \in Threads, SpuriousWake(t)
      PROVE  NoSleepAfterStop'
  BY <1>3 DEF SpuriousWake
<1>4. CASE RequestStop
  BY <1>4 DEF RequestStop
<1>5. CASE UNCHANGED vars
  BY <1>5 DEF vars
<1>6. QED
  BY <1>1, <1>2, <1>3, <1>4, <1>5 DEF Next

\* NoSleepAfterStop for every set of threads: once a stop is requested no
\* consumer is asleep, in whatever order the request and the wait happen.
THEOREM StopHolds == Spec => []NoSleepAfterStop
<1>1. Init => NoSleepAfterStop
  BY SleepInit
<1>2. IInv /\ NoSleepAfterStop /\ [Next]_vars => NoSleepAfterStop'
  BY SleepNext
<1>3. QED
  BY <1>1, <1>2, Safety, PTL DEF Spec

------------------------------------------------------------------------------

LEMMA CountsAreNumbers ==
    /\ IsFiniteSet(Awake) /\ IsFiniteSet(Awake')
    /\ IsFiniteSet(Notifying) /\ IsFiniteSet(Notifying')
    /\ Cardinality(Awake) \in Nat /\ Cardinality(Awake') \in Nat
    /\ Cardinality(Notifying) \in Nat /\ Cardinality(Notifying') \in Nat
<1>1. Awake \subseteq Threads /\ Awake' \subseteq Threads
  BY DEF Awake
<1>2. Notifying \subseteq Threads /\ Notifying' \subseteq Threads
  BY DEF Notifying
<1>3. /\ IsFiniteSet(Awake) /\ IsFiniteSet(Awake')
      /\ IsFiniteSet(Notifying) /\ IsFiniteSet(Notifying')
  BY <1>1, <1>2, ThreadsAssumption, FS_Subset
<1>4. QED
  BY <1>3, FS_CardinalityType

\* A step that only wakes threads up, or moves them on inside wait_consume,
\* leaves no value unmatched.
LEMMA MoreAwake ==
    ASSUME NoLostWakeup, Blocked # {}, queue' = queue,
           Awake \subseteq Awake', Notifying' = Notifying
    PROVE  NoLostWakeup'
<1>1. Cardinality(Awake) <= Cardinality(Awake')
  BY CountsAreNumbers, FS_Subset
<1>2. Len(queue) <= Cardinality(Awake) + Cardinality(Notifying)
  BY DEF NoLostWakeup
<1>3. Len(queue') = Len(queue) /\ Cardinality(Notifying') = Cardinality(Notifying)
  OBVIOUS
<1>4. QED
  BY <1>1, <1>2, <1>3, CountsAreNumbers DEF NoLostWakeup

LEMMA WakeupNext == IInv /\ NoLostWakeup /\ [Next]_vars => NoLostWakeup'
<1> SUFFICES ASSUME IInv, NoLostWakeup, [Next]_vars, Blocked' # {}
             PROVE  NoLostWakeup'
  BY DEF NoLostWakeup
<1> USE DEF PCs, Critical, Goto, Awake, Notifying, Blocked
<1>t. /\ queue \in Seq(Values) /\ Len(queue) \in Nat
      /\ pc \in [Threads -> PCs] /\ op \in [Threads -> Ops]
  BY DEF IInv, TypeOK
<1>1. ASSUME NEW t \in Threads, NEW o \in Ops, NEW v \in Values \cup {None}, Call(t, o, v)
      PROVE  NoLostWakeup'
  <2>1. Blocked # {} /\ queue' = queue /\ Awake \subseteq Awake' /\ Notifying' = Notifying
    BY <1>1, <1>t DEF Call
  <2>2. QED
    BY <2>1, MoreAwake
<1>2. ASSUME NEW t \in Threads, Lock(t) \/ Unlock(t) \/ TakeFront(t) \/ Empty(t) \/ SpuriousWake(t)
      PROVE  NoLostWakeup'
  <2>1. Blocked # {} /\ queue' = queue /\ Awake \subseteq Awake' /\ Notifying' = Notifying
    BY <1>2, <1>t DEF Lock, Unlock, TakeFront, Empty, SpuriousWake, IInv, CallDiscipline
  <2>2. QED
    BY <2>1, MoreAwake
<1>3. ASSUME NEW t \in Threads, WaitConsumeBlock(t) \/ ReturnNullopt(t) \/ Clear(t)
      PROVE  NoLostWakeup'
  <2>1. Len(queue') = 0
    BY <1>3 DEF WaitConsumeBlock, ReturnNullopt, Clear
  <2>2. QED
    BY <2>1, CountsAreNumbers DEF NoLostWakeup
<1>4. ASSUME NEW t \in Threads, ProducePush(t)
      PROVE  NoLostWakeup'
  <2>1. /\ Blocked # {} /\ Awake' = Awake
        /\ t \notin Notifying /\ Notifying' = Notifying \cup {t}
    BY <1>4, <1>t DEF ProducePush
  <2>2. Cardinality(Notifying') = Cardinality(Notifying) + 1
    BY <2>1, CountsAreNumbers, FS_AddElement
  <2>3. slot[t] \in Values
    BY <1>4 DEF ProducePush, IInv, CallDiscipline
  <2>4. Len(queue') = Len(queue) + 1
    BY <1>4, <1>t, <2>3 DEF ProducePush
  <2>5. Len(queue) <= Cardinality(Awake) + Cardinality(Notifying)
    BY <2>1 DEF NoLostWakeup
  <2> HIDE DEF Awake, Notifying, Blocked
  <2>6. QED
    BY <2>1, <2>2, <2>4, <2>5, <1>t, CountsAreNumbers DEF NoLostWakeup
<1>5. ASSUME NEW t \in Threads, NotifyOne(t)
      PROVE  NoLostWakeup'
  <2>1. PICK w \in Blocked : pc' = [pc EXCEPT ![t] = "unlock", ![w] = "lock"]
    BY <1>5, <1>t DEF NotifyOne
  <2>2. op[w] = "wait_consume" /\ op[t] = "produce" /\ w # t /\ UNCHANGED <<queue, op>>
    BY <1>5, <2>1 DEF NotifyOne, IInv, CallDiscipline
  <2>3. /\ w \notin Awake /\ Awake' = Awake \cup {w}
        /\ t \in Notifying /\ Notifying' = Notifying \ {t}
    BY <1>5, <1>t, <2>1, <2>2 DEF NotifyOne
  <2>4. Len(queue) <= Cardinality(Awake) + Cardinality(Notifying)
    BY <2>1 DEF NoLostWakeup
  <2>5. Len(queue') = Len(queue)
    BY <2>2
  <2> HIDE DEF Awake, Notifying, Blocked
  <2>6. Cardinality(Awake') = Cardinality(Awake) + 1
    BY <2>3, CountsAreNumbers, FS_AddElement
  <2>7. Cardinality(Notifying') = Cardinality(Notifying) - 1
    BY <2>3, CountsAreNumbers, FS_RemoveElement
  <2>8. QED
    BY <2>4, <2>5, <2>6, <2>7, <1>t, CountsAreNumbers DEF NoLostWakeup
<1>6. ASSUME NEW t \in Threads, PopFront(t)
      PROVE  NoLostWakeup'
  <2>1. Blocked # {} /\ Awake' = Awake \ {t} /\ Notifying' = Notifying
    BY <1>6, <1>t DEF PopFront
  <2>2. queue # <<>>
    BY <1>6 DEF PopFront, IInv, FrontStaysFront
  <2>3. Len(queue') = Len(queue) - 1
    BY <1>6, <1>t, <2>2 DEF PopFront
  <2>4. Len(queue) <= Cardinality(Awake) + Cardinality(Notifying)
    BY <2>1 DEF NoLostWakeup
  <2>5. Cardinality(Notifying') = Cardinality(Notifying)
    BY <2>1
  <2> HIDE DEF Awake, Notifying, Blocked
  <2>6. Cardinality(Awake') >= Cardinality(Awake) - 1
    BY <2>1, CountsAreNumbers, FS_RemoveElement
  <2>7. QED
    BY <2>3, <2>4, <2>5, <2>6, <1>t, CountsAreNumbers DEF NoLostWakeup
<1>7. CASE RequestStop
  BY <1>7, <1>t DEF RequestStop
<1>8. CASE UNCHANGED vars
  BY <1>8 DEF vars, NoLostWakeup
<1>9. QED
  BY <1>1, <1>2, <1>3, <1>4, <1>5, <1>6, <1>7, <1>8 DEF Next, Step

\* NoLostWakeup for every finite set of threads and any number of calls: a
\* value never waits on the queue for a consumer that nobody will wake.
THEOREM WakeupHolds == Spec => []NoLostWakeup
<1>1. Init => NoLostWakeup
  BY DEF Init, NoLostWakeup, Blocked
<1>2. IInv /\ NoLostWakeup /\ [Next]_vars => NoLostWakeup'
  BY WakeupNext
<1>3. QED
  BY <1>1, <1>2, Safety, PTL DEF Spec

------------------------------------------------------------------------------

(* Refinement: every step of the detailed queue is a step of AtomicQueue or *)
(* leaves its variables alone.                                              *)

LEMMA RefineInit == Init => Atomic!Init
  BY DEF Init, Atomic!Init, AbstractStatus, AbstractSlot

LEMMA RefineNext == IInv /\ [Next]_vars => [Atomic!Next]_(Atomic!vars)
<1> SUFFICES ASSUME IInv, [Next]_vars
             PROVE  [Atomic!Next]_(Atomic!vars)
  OBVIOUS
<1> USE DEF IInv, TypeOK, PCs, Critical, Slots, Ops, Takes, Goto,
        AbstractStatus, AbstractSlot
<1>1. ASSUME NEW t \in Threads, NEW o \in Ops, NEW v \in Values \cup {None}, Call(t, o, v)
      PROVE  Atomic!Call(t, o, v)
  BY <1>1 DEF Call, Atomic!Call
<1>2. ASSUME NEW t \in Threads, Lock(t)
      PROVE  UNCHANGED Atomic!vars
  BY <1>2 DEF Lock, Atomic!vars
<1>3. ASSUME NEW t \in Threads, Unlock(t)
      PROVE  Atomic!Return(t)
  BY <1>3 DEF Unlock, Atomic!Return
<1>4. ASSUME NEW t \in Threads, ProducePush(t)
      PROVE  Atomic!Produce(t)
  BY <1>4 DEF ProducePush, Atomic!Produce, Atomic!TakesEffect
<1>5. ASSUME NEW t \in Threads, NotifyOne(t)
      PROVE  UNCHANGED Atomic!vars
  BY <1>5 DEF NotifyOne, Blocked, Atomic!vars
<1>6. ASSUME NEW t \in Threads, WaitConsumeBlock(t)
      PROVE  UNCHANGED Atomic!vars
  BY <1>6 DEF WaitConsumeBlock, Atomic!vars
<1>7. ASSUME NEW t \in Threads, SpuriousWake(t)
      PROVE  UNCHANGED Atomic!vars
  BY <1>7 DEF SpuriousWake, Atomic!vars
<1>8. ASSUME NEW t \in Threads, ReturnNullopt(t)
      PROVE  Atomic!Refuse(t)
  BY <1>8 DEF ReturnNullopt, Atomic!Refuse, Atomic!TakesEffect, CallDiscipline
<1>9. ASSUME NEW t \in Threads, TakeFront(t)
      PROVE  UNCHANGED Atomic!vars
  BY <1>9 DEF TakeFront, Atomic!vars, CallDiscipline
<1>10. ASSUME NEW t \in Threads, PopFront(t)
       PROVE  Atomic!Consume(t)
  BY <1>10 DEF PopFront, Atomic!Consume, Atomic!TakesEffect, CallDiscipline, FrontStaysFront
<1>11. ASSUME NEW t \in Threads, Empty(t)
       PROVE  Atomic!AskEmpty(t)
  BY <1>11 DEF Empty, Atomic!AskEmpty, Atomic!TakesEffect
<1>12. ASSUME NEW t \in Threads, Clear(t)
       PROVE  Atomic!Clear(t)
  BY <1>12 DEF Clear, Atomic!Clear, Atomic!TakesEffect
<1>13. CASE RequestStop
  <2>1. Atomic!RequestStop
    BY <1>13 DEF RequestStop, Atomic!RequestStop
  <2>2. QED
    BY <2>1 DEF Atomic!Next
<1>14. CASE UNCHANGED vars
  BY <1>14 DEF vars, Atomic!vars
<1>15. QED
  BY <1>1, <1>2, <1>3, <1>4, <1>5, <1>6, <1>7, <1>8, <1>9, <1>10, <1>11, <1>12,
     <1>13, <1>14 DEF Next, Step, Atomic!Next, Atomic!Effect, Atomic!Ops

\* OperationsAreAtomic for every set of threads: the locked bodies with their
\* condition variable implement the atomic queue that the class documents.
THEOREM Refinement == Spec => OperationsAreAtomic
<1>1. Init => Atomic!Init
  BY RefineInit
<1>2. IInv /\ [Next]_vars => [Atomic!Next]_(Atomic!vars)
  BY RefineNext
<1>3. QED
  BY <1>1, <1>2, Safety, PTL DEF Spec, OperationsAreAtomic, Atomic!Spec
==============================================================================
