----------------------------- MODULE Refinement -----------------------------
(***************************************************************************)
(* BatchSystem implements Cluster.  The messages, the stack of the batch,  *)
(* the resource manager and its pool disappear; the steps that are left    *)
(* are those of the batch that write the table (Submit, Book, Finish), the *)
(* one of the resource manager that makes a job PROCESSING (Start), and    *)
(* time.  All others stutter.                                              *)
(***************************************************************************)
EXTENDS BatchProperties

(* A job killed at its deadline is still running for the batch.            *)
AbstractState == [j \in Jobs |-> IF state[j] = "ERROR" THEN "PROCESSING" ELSE state[j]]

InStack(name) == {j \in Jobs : Message(name, j) \in stack}

(* Sent or not, a job is still to be submitted until it is handled.        *)
AbstractTodo == {Load[i] : i \in loadPos .. Len(Load)} \cup InStack("SB_TASK")

AbstractBooked ==
  {j \in Jobs : \E r \in Requests : /\ r = Message("SB_RES", j)
                                    /\ req[r] \in {"new", "sent", "await"}}

AbstractCluster ==
  [state |-> AbstractState, gantt |-> gantt, queues |-> queues, reserved |-> reserved]

Abstract ==
  INSTANCE Cluster WITH
    now     <- clock,
    job     <- desc,
    cluster <- AbstractCluster,
    todo    <- AbstractTodo,
    booked  <- AbstractBooked,
    stopped <- CircularWait

(***************************************************************************)
(* Seen from outside, the processes of a cluster behave as one atomic      *)
(* planner: no interleaving of their messages makes a job start off its    *)
(* plan, end outside its slot, be planned on an old table, or lets the     *)
(* clock run past something that was due (batch.c, resource_manager.c).    *)
(* When the servers come to wait in a circle the planner stands still: only*)
(* at a date where a job starts and another ends (MayStop), and for good.  *)
(***************************************************************************)
ImplementsCluster == Abstract!Spec
=============================================================================
