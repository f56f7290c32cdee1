------------------------------ MODULE Cluster ------------------------------
(***************************************************************************)
(* What a Simbatch cluster promises, without saying how: an atomic planner.*)
(* A job enters the table in one step at its submit time, starts at its    *)
(* planned date, leaves before its slot is over, and the others are        *)
(* planned again in the same step.  There is no message, no resource       *)
(* manager, no supervisor: Refinement shows that BatchSystem, which has    *)
(* them all, implements this, and MetaSched uses it for each cluster.      *)
(*                                                                         *)
(* A cluster k is a record                                                 *)
(*    k.state[j]   job->state                                              *)
(*    k.gantt      cluster->waiting_queue and the planned fields           *)
(*    k.queues     cluster->queues: k.queues[p + 1] traces priority p      *)
(*    k.reserved   cluster->reservations                                   *)
(***************************************************************************)
EXTENDS Gantt

CONSTANTS NbQueues,  \* cluster->priority
          Plugin     \* "fcfs" or "cbf"

VARIABLES now,      \* MSG_get_clock()
          job,      \* what is in the jobs (see Descriptions of BatchSystem)
          cluster,
          todo,     \* the jobs that will still be submitted
          booked,   \* the reservations that may still be asked for
          stopped   \* the servers of the cluster wait for each other for good

vars == <<now, job, cluster, todo, booked, stopped>>

NoDeadline == -1

Queues == 1 .. NbQueues

EmptyCluster ==
  [state    |-> [j \in Jobs |-> job[j].state],
   gantt    |-> [chart |-> [n \in Nodes |-> <<>>],
                 start |-> [j \in Jobs |-> job[j].start],
                 wall  |-> [j \in Jobs |-> job[j].wall],
                 nodes |-> [j \in Jobs |-> {}],
                 lead  |-> [j \in Jobs |-> 1]],
   queues   |-> [p \in Queues |-> <<>>],
   reserved |-> <<>>]

-----------------------------------------------------------------------------
(* The operations of a cluster k at the date now.                          *)

(* The condition of schedule_task: large enough, and not too late.         *)
Open(j) == job[j].deadline = NoDeadline \/ job[j].deadline > now
Admits(j) == job[j].procs =< NbNodes /\ Open(j)

QueueOf(j) == IF job[j].priority >= NbQueues THEN NbQueues ELSE job[j].priority + 1

(* What scheduler->schedule answers for j, without accepting it.           *)
Bid(k, j) == Schedule(Plugin, k.gantt, j, job[j].procs, now)

(* schedule_task.                                                          *)
WithTask(k, j) ==
  [k EXCEPT !.queues[QueueOf(j)] = Append(@, j), !.gantt = Accept(@, j, Bid(k, j))]

(* reserve_slot, at the date asked for or not at all.                      *)
Bookable(k, j) == EarliestStart(k.gantt, job[j].procs, job[j].start, job[j].wall) = job[j].start

WithReservation(k, j) ==
  [k EXCEPT !.reserved = Append(@, j),
            !.gantt = Accept(@, j, CbfBid(@, job[j].procs, job[j].start, job[j].wall))]

(* scheduler->reschedule.                                                  *)
Replanned(k) ==
  LET waiting == {j \in Jobs : k.state[j] = "WAITING"}
  IN  [k EXCEPT !.gantt = Reschedule(Plugin, @, k.queues, waiting,
                                     {j \in waiting : Open(j)},
                                     [j \in Jobs |-> job[j].procs], now)]

Traced(k, j) == \E q \in {k.reserved} \cup {k.queues[p] : p \in Queues} :
                  \E i \in DOMAIN q : q[i] = j

(* check_ACK: the job is over and is forgotten.                            *)
WithoutJob(k, j) ==
  Replanned([k EXCEPT !.state[j] = "DONE",
                      !.gantt = DeleteDone(@, j),
                      !.reserved = Keep(@, Jobs \ {j}),
                      !.queues = [p \in Queues |-> Keep(@[p], Jobs \ {j})]])

(* The jobs the table still has to start, and those it has started.        *)
InTable(k) == UNION {Planned(k.gantt, n) : n \in Nodes}
ToStart(k) == {j \in InTable(k) : k.state[j] \in {"WAITING", "RESERVED"}}
Running(k) == {j \in InTable(k) : k.state[j] = "PROCESSING"}

Due(k, j) == j \in ToStart(k) /\ k.gantt.start[j] = now

(* An execution lasts for the run time, cut at the wall time, transfers    *)
(* beside; a deadline can cut it anywhere.                                 *)
MayEnd(k, j) ==
  LET length == IF job[j].run < k.gantt.wall[j] THEN job[j].run ELSE k.gantt.wall[j]
  IN  /\ k.state[j] = "PROCESSING"
      /\ now =< End(k.gantt, j)
      /\ job[j].deadline = NoDeadline => now >= k.gantt.start[j] + length

(* Nothing planned for now or earlier is left to do.                       *)
Settled(k) ==
  /\ \A j \in ToStart(k) : k.gantt.start[j] > now
  /\ \A j \in Running(k) : End(k.gantt, j) > now

-----------------------------------------------------------------------------
Init ==
  /\ now = 0
  /\ cluster = EmptyCluster
  /\ todo \subseteq Jobs
  /\ booked \subseteq Jobs \ todo
  /\ ~ stopped

(* A job is submitted at its submit time; the cluster may have to drop it. *)
Submit(j) ==
  /\ j \in todo
  /\ now = job[j].submit
  /\ todo' = todo \ {j}
  /\ cluster' = IF Admits(j) THEN WithTask(cluster, j) ELSE cluster
  /\ UNCHANGED <<now, job, booked>>

(* A reservation is accepted at the date asked for, or refused.            *)
Book(j) ==
  /\ j \in booked
  /\ booked' = booked \ {j}
  /\ cluster' = IF Bookable(cluster, j) THEN WithReservation(cluster, j) ELSE cluster
  /\ UNCHANGED <<now, job, todo>>

(* A job starts at its planned date.                                       *)
Start(j) ==
  /\ Due(cluster, j)
  /\ cluster' = [cluster EXCEPT !.state[j] = "PROCESSING"]
  /\ UNCHANGED <<now, job, todo, booked>>

(* A running job ends within its slot, and the others move up.             *)
Finish(j) ==
  /\ MayEnd(cluster, j)
  /\ Traced(cluster, j)
  /\ cluster' = WithoutJob(cluster, j)
  /\ UNCHANGED <<now, job, todo, booked>>

(* Time passes when everything that was planned for now is done.           *)
Tick ==
  /\ Settled(cluster)
  /\ \A j \in todo : job[j].submit > now
  /\ now' = now + 1
  /\ UNCHANGED <<job, cluster, todo, booked>>

(***************************************************************************)
(* The servers can come to wait for each other, but only at a date where a *)
(* job starts that the execution of another one has made room for.         *)
(***************************************************************************)
MayStop(k) ==
  \E i, j \in Jobs : /\ i # j
                     /\ k.state[i] = "PROCESSING" /\ k.gantt.start[i] = now
                     /\ MayEnd(k, j)

Idle == UNCHANGED <<now, job, cluster, todo, booked>>

(* What a cluster does while its servers go on, to the step that stops it. *)
Work ==
  /\ ~ stopped
  /\ \/ Tick
     \/ \E j \in Jobs : Submit(j) \/ Book(j) \/ Start(j) \/ Finish(j)
     \/ Idle
  /\ stopped' \in BOOLEAN
  /\ stopped' => MayStop(cluster')

(* From then on nothing happens, whatever the table says; time may pass.   *)
Stand ==
  /\ stopped
  /\ now' = now + 1
  /\ UNCHANGED <<job, cluster, todo, booked, stopped>>

Next == Work \/ Stand

Spec == Init /\ [][Next]_vars
=============================================================================
