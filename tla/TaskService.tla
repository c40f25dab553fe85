----------------------------- MODULE TaskService -----------------------------
(***************************************************************************)
(* What Worker.hpp promises its clients: work is submitted, undertaken one *)
(* job at a time in the order of submission, and answered exactly once, by *)
(* a result or by an error; the clients receive the answers in that order. *)
(* "All Worker operations are atomic" (Worker.hpp:40), so each of them is  *)
(* one step, clearing included.  No thread, no queue lock and no stop      *)
(* token is visible here.                                                  *)
(***************************************************************************)
EXTENDS Sequences

CONSTANTS Task,     \* the jobs that can be submitted
          Outcome   \* how a job can end

VARIABLES waiting,    \* the jobs submitted and not yet answered, oldest first
          results,    \* the answers that nobody has yet received
          delivered   \* the answers that clients have received, in order

vars == <<waiting, results, delivered>>

Init ==
    /\ waiting = <<>>
    /\ results = <<>>
    /\ delivered = <<>>

Submit(t) ==
    /\ waiting' = Append(waiting, t)
    /\ UNCHANGED <<results, delivered>>

Answer(o) ==
    /\ waiting # <<>>
    /\ results' = Append(results, [task |-> Head(waiting), outcome |-> o])
    /\ waiting' = Tail(waiting)
    /\ UNCHANGED delivered

Deliver ==
    /\ results # <<>>
    /\ delivered' = Append(delivered, Head(results))
    /\ results' = Tail(results)
    /\ UNCHANGED waiting

\* "Clears any scheduled jobs or pending results", except possibly the job in execution.
Clear ==
    /\ waiting' \in {<<>>} \cup (IF waiting = <<>> THEN {} ELSE {<<Head(waiting)>>})
    /\ results' = <<>>
    /\ UNCHANGED delivered

Next ==
    \/ \E t \in Task : Submit(t)
    \/ \E o \in Outcome : Answer(o)
    \/ Deliver
    \/ Clear

Spec == Init /\ [][Next]_vars
==============================================================================
