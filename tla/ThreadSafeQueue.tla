--------------------------- MODULE ThreadSafeQueue ---------------------------
(***************************************************************************)
(* src/signals/ThreadSafeQueue.hpp at the level of its mutex and its       *)
(* condition variable.  Every operation is a sequence of steps of the      *)
(* calling thread: acquire the mutex, the statements of the body, release  *)
(* the mutex on leaving the scope.  Steps of different threads interleave  *)
(* freely; only the mutex orders them.                                     *)
(*                                                                         *)
(* std::mutex and std::condition_variable_any are external and modelled by *)
(* what the standard says of them: wait releases the mutex and blocks in   *)
(* one step, a blocked thread may wake for no reason, notify_one wakes one *)
(* blocked thread if there is one, a stop request wakes all of them, and   *)
(* a woken thread reacquires the mutex before it looks at the predicate.   *)
(***************************************************************************)
EXTENDS Naturals, Sequences, FiniteSets

CONSTANTS Threads,    \* the threads that share the queue
          Values,     \* the values that are enqueued
          None,       \* std::nullopt
          Nobody,     \* the owner of a mutex that is free
          MaxCalls    \* bound: operations called and spurious wake-ups, in all

ASSUME ThreadsAssumption == IsFiniteSet(Threads)
ASSUME NobodyAssumption == Nobody \notin Threads
ASSUME NoneAssumption == None \notin Values
ASSUME MaxCallsAssumption == MaxCalls \in Nat

VARIABLES queue,      \* std::deque<ValueT>
          owner,      \* the thread that holds the mutex
          pc,         \* the next step of each thread
          op,         \* the operation each thread called last
          slot,       \* its argument, or the value it is about to return
          stop,       \* stop_token.stop_requested()
          calls       \* operations called and spurious wake-ups so far

vars == <<queue, owner, pc, op, slot, stop, calls>>

Ops == {"produce", "try_consume", "wait_consume", "empty", "clear"}

Takes == {"try_consume", "wait_consume"}

\* The program points between the acquisition of the mutex and its release.
Critical == {"body", "notify", "pop", "unlock"}

PCs == Critical \cup {"idle", "lock", "blocked"}

Slots == Values \cup {None, "empty", "nonempty"}

TypeOK ==
    /\ queue \in Seq(Values)
    /\ owner \in Threads \cup {Nobody}
    /\ pc \in [Threads -> PCs]
    /\ op \in [Threads -> Ops]
    /\ slot \in [Threads -> Slots]
    /\ stop \in BOOLEAN
    /\ calls \in 0..MaxCalls

Init ==
    /\ queue = <<>>
    /\ owner = Nobody
    /\ pc = [t \in Threads |-> "idle"]
    /\ op = [t \in Threads |-> "clear"]
    /\ slot = [t \in Threads |-> None]
    /\ stop = FALSE
    /\ calls = 0

Goto(t, from, to) ==
    /\ pc[t] = from
    /\ pc' = [pc EXCEPT ![t] = to]

------------------------------------------------------------------------------
(* Entering and leaving an operation *)

Call(t, o, v) ==
    /\ calls < MaxCalls
    /\ v \in (IF o = "produce" THEN Values ELSE {None})
    /\ Goto(t, "idle", "lock")
    /\ calls' = calls + 1
    /\ op' = [op EXCEPT ![t] = o]
    /\ slot' = [slot EXCEPT ![t] = v]
    /\ UNCHANGED <<queue, owner, stop>>

\* The constructor of the scoped_lock or unique_lock, and the reacquisition
\* of the mutex by a thread that was woken inside wait.
Lock(t) ==
    /\ owner = Nobody
    /\ Goto(t, "lock", "body")
    /\ owner' = t
    /\ UNCHANGED <<queue, op, slot, stop, calls>>

\* Mutant: a return that leaves the mutex locked.
Unlock_Leaks(t) ==
    /\ Goto(t, "unlock", "idle")
    /\ UNCHANGED <<queue, owner, op, slot, stop, calls>>

\* The destructor of the lock, and the return to the caller.
Unlock(t) ==
    /\ Goto(t, "unlock", "idle")
    /\ owner' = Nobody
    /\ UNCHANGED <<queue, op, slot, stop, calls>>

------------------------------------------------------------------------------
(* The bodies *)

ProducePush(t) ==
    /\ op[t] = "produce"
    /\ Goto(t, "body", "notify")
    /\ queue' = Append(queue, slot[t])
    /\ UNCHANGED <<owner, op, slot, stop, calls>>

Blocked == {t \in Threads : pc[t] = "blocked"}

\* Mutant: notify only when the queue was empty before the push.
NotifyOne_IfWasEmpty(t) ==
    /\ pc[t] = "notify"
    /\ \/ /\ Blocked = {} \/ Len(queue) # 1
          /\ pc' = [pc EXCEPT ![t] = "unlock"]
       \/ \E w \in Blocked : Len(queue) = 1 /\ pc' = [pc EXCEPT ![t] = "unlock", ![w] = "lock"]
    /\ UNCHANGED <<queue, owner, op, slot, stop, calls>>

\* cv.notify_one(), still under the lock.
NotifyOne(t) ==
    /\ pc[t] = "notify"
    /\ \/ /\ Blocked = {}
          /\ pc' = [pc EXCEPT ![t] = "unlock"]
       \/ \E w \in Blocked : pc' = [pc EXCEPT ![t] = "unlock", ![w] = "lock"]
    /\ UNCHANGED <<queue, owner, op, slot, stop, calls>>

\* cv.wait: no stop request and a false predicate.
WaitConsumeBlock(t) ==
    /\ op[t] = "wait_consume"
    /\ queue = <<>>
    /\ ~stop
    /\ Goto(t, "body", "blocked")
    /\ owner' = Nobody
    /\ UNCHANGED <<queue, op, slot, stop, calls>>

\* The standard lets a wait return for no reason.
SpuriousWake(t) ==
    /\ calls < MaxCalls
    /\ Goto(t, "blocked", "lock")
    /\ calls' = calls + 1
    /\ UNCHANGED <<queue, owner, op, slot, stop>>

\* Mutant: an if in place of the loop around the predicate.
ReturnNullopt_OnAnyWake(t) ==
    /\ op[t] \in Takes
    /\ queue = <<>>
    /\ Goto(t, "body", "unlock")
    /\ slot' = [slot EXCEPT ![t] = None]
    /\ UNCHANGED <<queue, owner, op, stop, calls>>

ReturnNullopt(t) ==
    /\ op[t] \in Takes
    /\ queue = <<>>
    /\ op[t] = "wait_consume" => stop
    /\ Goto(t, "body", "unlock")
    /\ slot' = [slot EXCEPT ![t] = None]
    /\ UNCHANGED <<queue, owner, op, stop, calls>>

\* Mutant: the mutex is given up between front() and pop_front().
TakeFront_Unlocks(t) ==
    /\ op[t] \in Takes
    /\ queue # <<>>
    /\ Goto(t, "body", "pop")
    /\ slot' = [slot EXCEPT ![t] = Head(queue)]
    /\ owner' = Nobody
    /\ UNCHANGED <<queue, op, stop, calls>>

\* auto value = std::move(queue.front());
TakeFront(t) ==
    /\ op[t] \in Takes
    /\ queue # <<>>
    /\ Goto(t, "body", "pop")
    /\ slot' = [slot EXCEPT ![t] = Head(queue)]
    /\ UNCHANGED <<queue, owner, op, stop, calls>>

\* queue.pop_front();
PopFront(t) ==
    /\ Goto(t, "pop", "unlock")
    /\ queue' = Tail(queue)
    /\ UNCHANGED <<owner, op, slot, stop, calls>>

Empty(t) ==
    /\ op[t] = "empty"
    /\ Goto(t, "body", "unlock")
    /\ slot' = [slot EXCEPT ![t] = IF queue = <<>> THEN "empty" ELSE "nonempty"]
    /\ UNCHANGED <<queue, owner, op, stop, calls>>

Clear(t) ==
    /\ op[t] = "clear"
    /\ Goto(t, "body", "unlock")
    /\ queue' = <<>>
    /\ UNCHANGED <<owner, op, slot, stop, calls>>

------------------------------------------------------------------------------
(* request_stop of the jthread that owns the token: the callback that      *)
(* condition_variable_any registered wakes every blocked thread.           *)
RequestStop ==
    /\ ~stop
    /\ stop' = TRUE
    /\ pc' = [t \in Threads |-> IF pc[t] = "blocked" THEN "lock" ELSE pc[t]]
    /\ UNCHANGED <<queue, owner, op, slot, calls>>

\* The steps a running thread takes by itself once it has called an operation.
Step(t) ==
    \/ Lock(t) \/ Unlock(t)
    \/ ProducePush(t) \/ NotifyOne(t)
    \/ WaitConsumeBlock(t) \/ ReturnNullopt(t)
    \/ TakeFront(t) \/ PopFront(t)
    \/ Empty(t) \/ Clear(t)

Next ==
    \/ \E t \in Threads, o \in Ops, v \in Values \cup {None} : Call(t, o, v)
    \/ \E t \in Threads : Step(t) \/ SpuriousWake(t)
    \/ RequestStop

Spec == Init /\ [][Next]_vars

(* The operating system runs every thread that can run.  Nothing obliges a *)
(* client to call an operation, a wait to wake spuriously, or the program  *)
(* to request a stop.  std::mutex promises no fairness; calls and spurious *)
(* wake-ups are finite in number (MaxCalls), so contention for the mutex   *)
(* ends, and weak fairness of the steps of a thread suffices.              *)
FairSpec == Spec /\ \A t \in Threads : WF_vars(Step(t))

------------------------------------------------------------------------------
(* Properties *)

\* At most one thread is between the acquisition and the release of the mutex
\* and it is the one recorded as the owner; so the body of an operation runs
\* alone even though it is several statements long (ThreadSafeQueue.hpp:41,
\* 55, 79, 99, 108).
MutualExclusion == \A t \in Threads : pc[t] \in Critical <=> owner = t

\* The value a consumer read with front() is still the front of a nonempty
\* queue when it executes pop_front(): nothing is popped that was not read and
\* pop_front never runs on an empty deque, which would be undefined behaviour.
FrontStaysFront ==
    \A t \in Threads : pc[t] = "pop" => /\ queue # <<>>
                                        /\ slot[t] = Head(queue)

\* The threads that are inside wait_consume and not asleep.
Awake == {t \in Threads : op[t] = "wait_consume" /\ pc[t] \in {"lock", "body", "pop"}}

Notifying == {t \in Threads : pc[t] = "notify"}

\* No wake-up is lost: while some consumer sleeps, each value on the queue is
\* matched by a consumer that is awake and will look at it, or by a producer
\* that has yet to notify.
NoLostWakeup ==
    Blocked # {} =>
        Len(queue) <= Cardinality(Awake) + Cardinality(Notifying)

\* A stop request leaves nobody asleep: a consumer never goes to sleep after
\* the request, whichever of the two comes first (the doc of wait_consume,
\* lines 66-74: "blocks until interrupted by the stop token").
NoSleepAfterStop == stop => Blocked = {}

\* Every operation returns, except a wait_consume that finds nothing and is
\* not interrupted.
OperationsReturn ==
    \A t \in Threads :
        pc[t] # "idle" ~> pc[t] = "idle" \/ (pc[t] = "blocked" /\ queue = <<>> /\ ~stop)

------------------------------------------------------------------------------
(* Refinement of AtomicQueue.  An operation takes effect at its last       *)
(* statement that touches the deque: the push, the pop, the clear, or the  *)
(* test that finds it empty.                                               *)
AbstractStatus ==
    [t \in Threads |-> IF pc[t] = "idle" THEN "idle"
                       ELSE IF pc[t] \in {"notify", "unlock"} THEN "done"
                       ELSE "pending"]

AbstractSlot == [t \in Threads |-> IF pc[t] = "pop" THEN None ELSE slot[t]]

Atomic == INSTANCE AtomicQueue
            WITH items <- queue, status <- AbstractStatus, op <- op,
                 slot <- AbstractSlot, stopped <- stop

\* "All operations are atomic" (ThreadSafeQueue.hpp:23).
OperationsAreAtomic == Atomic!Spec
==============================================================================
