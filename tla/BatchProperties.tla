-------------------------- MODULE BatchProperties --------------------------
(***************************************************************************)
(* What one Simbatch cluster is expected to guarantee.  Every property is  *)
(* checked by at least one run; the README says on which instance, and     *)
(* which of them are also proved.                                          *)
(***************************************************************************)
EXTENDS BatchSystem

(* The supervisor has a job that is not over.                              *)
Executing(s) == spc[s] \in {"start", "in", "receiving", "run", "out", "returning"}

(* The batch still keeps a trace of j.                                     *)
Traced(j) == Holds(reserved, j) \/ \E p \in Queues : Holds(queues[p], j)

NodesOf(j) == {n \in Nodes : j \in Planned(gantt, n)}

JobsOf(q) == {q[i] : i \in DOMAIN q}

-----------------------------------------------------------------------------
(* The pool of supervisors and the execution of the jobs.                  *)

(***************************************************************************)
(* The pool holds no supervisor twice, and none that still executes a job: *)
(* a supervisor is back in the pool before it has sent its SB_ACK          *)
(* (resource_manager.c:266-272), but never earlier, and the one a job is   *)
(* being sent to has left it.                                              *)
(***************************************************************************)
SupervisorIntegrity ==
  /\ \A i, k \in DOMAIN pool : i # k => pool[i] # pool[k]
  /\ \A i \in DOMAIN pool : spc[pool[i]] \in {"idle", "told", "ack"}
  /\ rpc = "run" => /\ spc[rmSup] \in {"idle", "told", "ack"}
                    /\ \A i \in DOMAIN pool : pool[i] # rmSup

(***************************************************************************)
(* No job is in the hands of two supervisors, nor sent to one while another*)
(* has it: the job a timer was set for is still to be started when the     *)
(* timer fires (resource_manager.c:104), whatever the batch did meanwhile. *)
(***************************************************************************)
JobHeldOnce ==
  /\ \A s, t \in Sups : s # t /\ sjob[s] = sjob[t] => sjob[s] = NoJob
  /\ rpc = "run" => \A s \in Sups : sjob[s] # rmJob

(***************************************************************************)
(* A job is started once, from WAITING or RESERVED, and finished once, from*)
(* PROCESSING or ERROR, although the resource manager, the supervisors and *)
(* the batch write job->state without a lock.                              *)
(***************************************************************************)
Lifecycle ==
  [][\A j \in Jobs : state'[j] # state[j] =>
       <<state[j], state'[j]>> \in
         {<<"WAITING", "PROCESSING">>, <<"RESERVED", "PROCESSING">>,
          <<"PROCESSING", "ERROR">>, <<"PROCESSING", "DONE">>, <<"ERROR", "DONE">>}]_vars

-----------------------------------------------------------------------------
(* The scheduling table.                                                   *)

(***************************************************************************)
(* On each node the planned slots are in order and do not overlap, through *)
(* every interleaving of new jobs, reservations, early ends, cancellations *)
(* and the reschedulings they cause (batch.c:466, 503).                    *)
(***************************************************************************)
PlannedDisjoint ==
  \A n \in Nodes : \A i, k \in DOMAIN gantt.chart[n] :
    i < k => End(gantt, gantt.chart[n][i]) =< gantt.start[gantt.chart[n][k]]

(***************************************************************************)
(* The table and the trace agree: a job the batch keeps is planned on as   *)
(* many nodes as it asked for, those of its mapping, and a job it has      *)
(* forgotten is nowhere (batch.c:364, 403, 440-449; scheduling.c:50-58).   *)
(***************************************************************************)
ChartFollowsTrace ==
  \A j \in Jobs :
    IF Traced(j)
      THEN NodesOf(j) = gantt.nodes[j] /\ Cardinality(NodesOf(j)) = desc[j].procs
      ELSE NodesOf(j) = {}

(***************************************************************************)
(* When check_ACK handles the end of a job, the job is at the first place  *)
(* of every queue it is in: "the job should be at the first place in the   *)
(* scheduling table as it is in a running state" (cluster.h:79).           *)
(***************************************************************************)
DoneJobFirst ==
  [][\A j \in Jobs : state[j] # "DONE" /\ state'[j] = "DONE" =>
       \A n \in NodesOf(j) : gantt.chart[n][1] = j]_vars

(***************************************************************************)
(* The job of an SB_ACK is in the reservations or in its queue, so that    *)
(* check_ACK never removes the element of index -1 (batch.c:442-449).      *)
(***************************************************************************)
AckTraced == \A m \in stack : m.name = "SB_ACK" => Traced(m.job)

(***************************************************************************)
(* An accepted reservation keeps its date and its nodes until it starts    *)
(* (batch.c:400-413), whatever is scheduled around it.                     *)
(***************************************************************************)
ReservationHonoured ==
  \A j \in Jobs : Reserved(j) /\ state[j] \in {"RESERVED", "WAITING"} =>
    gantt.start[j] = desc[j].start /\ Cardinality(NodesOf(j)) = desc[j].procs

(***************************************************************************)
(* The batch waits for the resource manager to take SB_UPDATE              *)
(* (batch.c:226), which waits for a supervisor of its pool to take RUN     *)
(* (resource_manager.c:138), which waits for the batch to take SB_ACK (271)*)
(* and was put into the pool before (267): none of them ever moves again.  *)
(***************************************************************************)
CircularWait == bpc = "update" /\ rpc = "run" /\ spc[rmSup] = "ack"

-----------------------------------------------------------------------------
(* Time.                                                                   *)

(***************************************************************************)
(* No planned start is missed: when the clock advances, whatever is still  *)
(* to be started starts at the new date at the earliest.  The resource     *)
(* manager sleeps on a date it computed earlier, so every change of the    *)
(* table has to reach it in time (batch.c:226, resource_manager.c:178).    *)
(* Once the servers wait in a circle no job is started any more.           *)
(***************************************************************************)
OnTime ==
  [][clock' # clock /\ ~ CircularWait =>
       \A n \in Nodes : \A j \in Planned(gantt, n) \cap Startable :
         gantt.start[j] >= clock']_vars

(***************************************************************************)
(* A job is started exactly at the date the table gives for it, and while  *)
(* it is in the table: the date the timer was set for is never out of date *)
(* (resource_manager.c:86-104).                                            *)
(***************************************************************************)
StartsOnPlan ==
  [][\A j \in Jobs : state[j] # "PROCESSING" /\ state'[j] = "PROCESSING" =>
        clock = gantt.start[j] /\ NodesOf(j) # {}]_vars

(***************************************************************************)
(* No node executes two jobs over a lapse of time.  The slots are disjoint *)
(* by PlannedDisjoint; this is about the executions, which end when the    *)
(* supervisor says so (resource_manager.c:222-264).                        *)
(***************************************************************************)
NodeExclusive ==
  [][clock' # clock =>
       \A s, t \in Sups : s # t /\ Executing(s) /\ Executing(t) =>
         gantt.nodes[sjob[s]] \cap gantt.nodes[sjob[t]] = {}]_vars

(***************************************************************************)
(* The external load sends each job at its submit time (job.h:49): the     *)
(* sleeps between two sends add up, although each send waits for the batch *)
(* (external_load.c:112-125).                                              *)
(***************************************************************************)
SubmittedOnTime ==
  [][loadPos' # loadPos => clock = desc[Load[loadPos]].submit]_vars

-----------------------------------------------------------------------------
(* Progress.                                                               *)

(* "A Supervisor has finished and is available again"                       *)
(* (resource_manager.c:161): what is in the pool can take its RUN.         *)
NoCircularWait == ~ CircularWait

(***************************************************************************)
(* The batch, the resource manager, the supervisors and the load wait for  *)
(* each other in rendez-vous: that circle is the only way in which none of *)
(* them can ever go on before the simulation is over.                      *)
(***************************************************************************)
WaitsOnlyInCircle == CanStep \/ bpc = "end" \/ CircularWait

(* When the simulation ends nothing is left in the queues or in the table. *)
EndClean ==
  bpc = "end" => /\ reserved = <<>>
                 /\ \A p \in Queues : queues[p] = <<>>
                 /\ \A n \in Nodes : gantt.chart[n] = <<>>

(* The comment "otherwise, there is a task to execute" of                   *)
(* resource_manager.c:101: when the timer fires, its job is in the table.  *)
TimerHasTask == TimerDue => NodesOf(rmJob) # {}

(* Every job of the file that the cluster can hold is executed in the end, *)
(* unless the servers come to wait in a circle.                            *)
JobsComplete ==
  \A j \in JobsOf(Load) : desc[j].procs =< NbNodes => <>(state[j] = "DONE" \/ CircularWait)

-----------------------------------------------------------------------------
(* When all goes as planned.                                               *)

(* No client asks for SB_CANCEL.                                           *)
NoCancel == \A r \in Requests : r.name # "SB_CANCEL"

(* The jobs of the file are in the order of their submit times.            *)
Sorted ==
  \A w \in Workloads : \A i, k \in 1 .. Len(Load) :
    i < k => w[Load[i]].submit =< w[Load[k]].submit

(* How long a job with the fields d executes, and how long it stays.       *)
Cut(d)  == IF d.wall < d.run THEN d.wall ELSE d.run
Stay(d) == d.input + Cut(d) + d.output

(* A job takes some time, which its slot covers; a job that is reserved is *)
(* marked as such.  The runs that show a disagreement, but for the circle, *)
(* each lack one of the conditions of an orderly cluster.                  *)
Orderly ==
  /\ NoCancel
  /\ Sorted
  /\ \A w \in Workloads : \A j \in Jobs :
       w[j].deadline = NoDeadline /\ Stay(w[j]) \in 1 .. w[j].wall
  /\ \A w \in Workloads : \A r \in Requests : w[r.job].state = "RESERVED"
=============================================================================
