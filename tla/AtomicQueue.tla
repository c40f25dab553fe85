----------------------------- MODULE AtomicQueue -----------------------------
(***************************************************************************)
(* What ThreadSafeQueue.hpp promises of its five operations: "all          *)
(* operations are atomic".  A thread calls an operation, the operation     *)
(* takes effect in one step somewhere between the call and the return, and *)
(* the thread returns with what that one step saw.  There is no mutex and  *)
(* no condition variable here: ThreadSafeQueue refines this module.        *)
(***************************************************************************)
EXTENDS Sequences

CONSTANTS Threads,  \* the threads that share the queue
          Values,   \* the values that are enqueued
          None      \* std::nullopt

VARIABLES items,    \* the content of the queue, oldest first
          status,   \* where each thread is: "idle", "pending", "done"
          op,       \* the operation each thread called last
          slot,     \* the argument of produce, the return value of the others
          stopped   \* stop_token.stop_requested()

vars == <<items, status, op, slot, stopped>>

Ops == {"produce", "try_consume", "wait_consume", "empty", "clear"}

Init ==
    /\ items = <<>>
    /\ status = [t \in Threads |-> "idle"]
    /\ op = [t \in Threads |-> "clear"]
    /\ slot = [t \in Threads |-> None]
    /\ stopped = FALSE

Call(t, o, v) ==
    /\ status[t] = "idle"
    /\ v \in (IF o = "produce" THEN Values ELSE {None})
    /\ status' = [status EXCEPT ![t] = "pending"]
    /\ op' = [op EXCEPT ![t] = o]
    /\ slot' = [slot EXCEPT ![t] = v]
    /\ UNCHANGED <<items, stopped>>

\* The thread's operation takes effect: from here on it only has to return.
TakesEffect(t) ==
    /\ status[t] = "pending"
    /\ status' = [status EXCEPT ![t] = "done"]
    /\ UNCHANGED <<op, stopped>>

Produce(t) ==
    /\ TakesEffect(t)
    /\ op[t] = "produce"
    /\ items' = Append(items, slot[t])
    /\ UNCHANGED slot

Consume(t) ==
    /\ TakesEffect(t)
    /\ op[t] \in {"try_consume", "wait_consume"}
    /\ items # <<>>
    /\ slot' = [slot EXCEPT ![t] = Head(items)]
    /\ items' = Tail(items)

\* Only an empty queue is reported as empty, and a blocking consumer gives up
\* only once a stop was requested.
Refuse(t) ==
    /\ TakesEffect(t)
    /\ items = <<>>
    /\ \/ op[t] = "try_consume"
       \/ op[t] = "wait_consume" /\ stopped
    /\ UNCHANGED <<items, slot>>

AskEmpty(t) ==
    /\ TakesEffect(t)
    /\ op[t] = "empty"
    /\ slot' = [slot EXCEPT ![t] = IF items = <<>> THEN "empty" ELSE "nonempty"]
    /\ UNCHANGED items

Clear(t) ==
    /\ TakesEffect(t)
    /\ op[t] = "clear"
    /\ items' = <<>>
    /\ UNCHANGED slot

Return(t) ==
    /\ status[t] = "done"
    /\ status' = [status EXCEPT ![t] = "idle"]
    /\ UNCHANGED <<items, op, slot, stopped>>

RequestStop ==
    /\ stopped' = TRUE
    /\ UNCHANGED <<items, status, op, slot>>

Effect(t) == Produce(t) \/ Consume(t) \/ Refuse(t) \/ AskEmpty(t) \/ Clear(t)

Next ==
    \/ \E t \in Threads, o \in Ops, v \in Values \cup {None} : Call(t, o, v)
    \/ \E t \in Threads : Effect(t) \/ Return(t)
    \/ RequestStop

Spec == Init /\ [][Next]_vars
==============================================================================
