---------------------------- MODULE BatchSystem ----------------------------
(***************************************************************************)
(* One Simbatch cluster: the MSG processes that run on the host of a batch *)
(* and the cluster structure they share.                                   *)
(*                                                                         *)
(*    batch             SB_batch             src/cluster/batch.c           *)
(*    resource manager  SB_resource_manager  src/cluster/resource_manager.c*)
(*    supervisors       supervise            src/cluster/resource_manager.c*)
(*    nodes             SB_node              src/cluster/node.c            *)
(*    external load     SB_external_load     src/cluster/external_load.c   *)
(*    clients           whoever sends SB_RES and SB_CANCEL                 *)
(*                                                                         *)
(* MSG processes are cooperative: the code between two MSG calls is one    *)
(* step.  MSG_task_send is a rendez-vous: the sender is blocked until the  *)
(* receiver takes the message.  A message in a mailbox is therefore a      *)
(* process whose pc is a send, and there is no mailbox variable; both      *)
(* servers empty their mailbox and sort what they got, so the order of     *)
(* arrival is left open.  What a process does once its send is over is a   *)
(* step of its own, which may come before or after those of its receiver.  *)
(* Simulated time passes only when every process is blocked or asleep, and *)
(* messages without data take none of it.                                  *)
(***************************************************************************)
EXTENDS Gantt

CONSTANTS NbQueues,   \* cluster->priority, the number of priority queues
          Plugin,     \* the scheduler plugin of the batch: "fcfs" or "cbf"
          Workloads,  \* the possible contents of the jobs when they are sent
          Load,       \* the jobs of the workload file, in its order
          Requests,   \* what the clients may ask: SB_RES or SB_CANCEL of a job
          NbSups,     \* bound: the resource manager creates at most NbSups supervisors
          NoJob       \* a NULL job_t

(* The states of job.h that some code sets or tests.                       *)
JobStates == {"WAITING", "PROCESSING", "DONE", "RESERVED", "ERROR"}

NoDeadline == -1

(***************************************************************************)
(* What is in a job_t when it is sent, durations of transfers standing for *)
(* input_size and output_size.  start is read for a reservation only.      *)
(***************************************************************************)
Descriptions ==
  [submit : Nat, run : Nat, wall : Nat, procs : Nat \ {0}, priority : Nat,
   deadline : Nat \cup {NoDeadline}, input : Nat, output : Nat,
   start : Nat, state : {"WAITING", "RESERVED"}]

RequestKinds == {"SB_RES", "SB_CANCEL"}

ASSUME JobsAssumption      == NoJob \notin Jobs
ASSUME QueuesAssumption    == NbQueues \in Nat \ {0}
ASSUME WorkloadsAssumption == Workloads \subseteq [Jobs -> Descriptions]
ASSUME LoadAssumption      == Load \in Seq(Jobs)
ASSUME RequestsAssumption  == Requests \subseteq [name : RequestKinds, job : Jobs]
ASSUME SupsAssumption      == NbSups \in Nat
(* A job_t is made for each line of the file (wld.c:70); reservations have *)
(* their own.                                                              *)
ASSUME LoadOnceAssumption ==
  /\ \A i, k \in 1 .. Len(Load) : Load[i] = Load[k] => i = k
  /\ \A r \in Requests : r.name = "SB_RES" =>
       \A i \in 1 .. Len(Load) : Load[i] # r.job
(* reserve_slot reads slot[nb_procs - 1] of nb_nodes slots, unchecked.     *)
ASSUME ReservationAssumption ==
  \A r \in Requests : r.name = "SB_RES" =>
    \A w \in Workloads : w[r.job].procs =< NbNodes

Sups == 1 .. NbSups
Queues == 1 .. NbQueues

VARIABLES
  clock,     \* MSG_get_clock()
  desc,      \* the jobs as they were sent; never written again
  state,     \* job->state
  gantt,     \* cluster->waiting_queue and the planned fields of the jobs
  queues,    \* cluster->queues: queues[p + 1] traces the jobs of priority p
  reserved,  \* cluster->reservations
  bpc,       \* where the batch is
  stack,     \* msg_stack of the batch
  asking,    \* the cancel request the batch is answering, and its answer
  rpc,       \* where the resource manager is
  rmJob,     \* its job: the one its timer is set for, or is being sent
  rmWake,    \* the date its receive times out, if rmJob # NoJob
  rmSup,     \* the supervisor it is sending RUN to
  pool,      \* pool_of_supervisors
  cpt,       \* cpt_supervisors: supervisors 1 .. cpt exist
  spc,       \* where each supervisor is
  sjob,      \* its job
  swake,     \* the date its sleep or its transfer ends
  lpc,       \* where the external load is
  loadPos,   \* the next job of Load to send
  loadWake,  \* the date the external load wakes up to send it
  req        \* how far each client request is, or its answer

clusterVars == <<state, gantt, queues, reserved>>
batchVars   == <<bpc, stack, asking>>
rmVars      == <<rpc, rmJob, rmWake, rmSup, pool, cpt>>
supVars     == <<spc, sjob, swake>>
loadVars    == <<lpc, loadPos, loadWake>>
vars == <<clock, desc, clusterVars, batchVars, rmVars, supVars, loadVars, req>>

Messages == [name : RequestKinds \cup {"SB_TASK", "SB_ACK"}, job : Jobs]
Answers  == {"SB_OK", "SB_KO", "CANCEL_OK", "CANCEL_KO"}
Reqs     == Requests \cup {[name |-> "none", job |-> NoJob]}
NoReq    == [name |-> "none", job |-> NoJob]

BatchPcs == {"recv", "drain", "handle", "reply", "resume", "update", "end"}
RmPcs    == {"wait", "drain", "run", "next", "end"}
SupPcs   == {"idle", "start", "in", "receiving", "run", "out", "returning",
             "attach", "told", "ack"}

TypeOK ==
  /\ clock \in Nat
  /\ desc \in [Jobs -> Descriptions]
  /\ state \in [Jobs -> JobStates]
  /\ gantt \in Tables
  /\ queues \in [Queues -> Seq(Jobs)]
  /\ reserved \in Seq(Jobs)
  /\ bpc \in BatchPcs
  /\ stack \subseteq Messages
  /\ asking \in [req : Reqs, answer : Answers]
  /\ rpc \in RmPcs
  /\ rmJob \in Jobs \cup {NoJob}
  /\ rmWake \in Nat
  /\ rmSup \in 0 .. NbSups
  /\ pool \in Seq(Sups)
  /\ cpt \in 0 .. NbSups
  /\ spc \in [Sups -> SupPcs]
  /\ sjob \in [Sups -> Jobs \cup {NoJob}]
  /\ swake \in [Sups -> Nat]
  /\ lpc \in {"sleep", "send"}
  /\ loadPos \in 1 .. Len(Load) + 1
  /\ loadWake \in Nat
  /\ req \in [Requests -> {"new", "sent", "await"} \cup Answers]

Init ==
  /\ clock = 0
  /\ desc \in Workloads
  /\ state = [j \in Jobs |-> desc[j].state]
  /\ gantt = [chart |-> [n \in Nodes |-> <<>>],
              start |-> [j \in Jobs |-> desc[j].start],
              wall  |-> [j \in Jobs |-> desc[j].wall],
              nodes |-> [j \in Jobs |-> {}],
              lead  |-> [j \in Jobs |-> 1]]
  /\ queues = [p \in Queues |-> <<>>]
  /\ reserved = <<>>
  /\ bpc = "recv"
  /\ stack = {}
  /\ asking = [req |-> NoReq, answer |-> "SB_OK"]
  /\ rpc = "wait" /\ rmJob = NoJob /\ rmWake = 0 /\ rmSup = 0
  /\ pool = <<>> /\ cpt = 0
  /\ spc = [s \in Sups |-> "idle"]
  /\ sjob = [s \in Sups |-> NoJob]
  /\ swake = [s \in Sups |-> 0]
  /\ lpc = "sleep" /\ loadPos = 1
  /\ loadWake = IF Load = <<>> THEN 0 ELSE desc[Load[1]].submit
  /\ req = [r \in Requests |-> "new"]

-----------------------------------------------------------------------------
(* Who is blocked in a send to whom.                                       *)

AckPending(s)     == spc[s] = "ack"
TaskPending       == lpc = "send"
RequestPending(r) == req[r] = "sent"
BatchMail == \/ \E s \in Sups : AckPending(s)
             \/ TaskPending
             \/ \E r \in Requests : RequestPending(r)

AttachPending(s) == spc[s] = "attach"
UpdatePending    == bpc = "update"
RmMail == UpdatePending \/ \E s \in Sups : AttachPending(s)

Message(name, j) == [name |-> name, job |-> j]

-----------------------------------------------------------------------------
(* get_task: receive one message, then every other one that is pending.    *)

BatchTakes(m) ==
  /\ bpc \in {"recv", "drain"}
  /\ stack' = stack \cup {m}
  /\ bpc' = "drain"
  /\ UNCHANGED <<clock, desc, clusterVars, asking, rmVars>>

(* The supervisor goes back to waiting for RUN.                            *)
ReceiveAck(s) ==
  /\ AckPending(s)
  /\ BatchTakes(Message("SB_ACK", sjob[s]))
  /\ spc' = [spc EXCEPT ![s] = "idle"]
  /\ sjob' = [sjob EXCEPT ![s] = NoJob]
  /\ UNCHANGED <<swake, loadVars, req>>

(* Mutant: the external load sleeps for the submit time itself.            *)
X_ReceiveTaskAbsolute ==
  /\ TaskPending
  /\ BatchTakes(Message("SB_TASK", Load[loadPos]))
  /\ lpc' = "sleep"
  /\ loadPos' = loadPos + 1
  /\ loadWake' = IF loadPos = Len(Load) THEN clock
                 ELSE clock + desc[Load[loadPos + 1]].submit
  /\ UNCHANGED <<supVars, req>>

(***************************************************************************)
(* The external load goes on with the next job of the file: it sleeps for  *)
(* the difference of the two submit times, if positive, from now on.       *)
(***************************************************************************)
ReceiveTask ==
  /\ TaskPending
  /\ BatchTakes(Message("SB_TASK", Load[loadPos]))
  /\ lpc' = "sleep"
  /\ loadPos' = loadPos + 1
  /\ loadWake' =
       IF loadPos = Len(Load) THEN clock
       ELSE LET gap == desc[Load[loadPos + 1]].submit - desc[Load[loadPos]].submit
            IN  IF gap > 0 THEN clock + gap ELSE clock
  /\ UNCHANGED <<supVars, req>>

LoadDue == lpc = "sleep" /\ loadPos =< Len(Load) /\ clock >= loadWake

(* The external load has slept enough and sends its next job.              *)
LoadSend ==
  /\ LoadDue
  /\ lpc' = "send"
  /\ UNCHANGED <<clock, desc, clusterVars, batchVars, rmVars, supVars, loadPos,
                 loadWake, req>>

ReceiveRequest(r) ==
  /\ RequestPending(r)
  /\ BatchTakes(Message(r.name, r.job))
  /\ req' = [req EXCEPT ![r] = "await"]
  /\ UNCHANGED <<supVars, loadVars>>

(* MSG_task_listen finds nothing more.                                     *)
SortStack ==
  /\ bpc = "drain"
  /\ ~ BatchMail
  /\ bpc' = "handle"
  /\ UNCHANGED <<clock, desc, clusterVars, stack, asking, rmVars, supVars, loadVars, req>>

-----------------------------------------------------------------------------
(***************************************************************************)
(* handle_task: the messages in the alphabetical order of their names,     *)
(* those of the same name in the order qsort happens to leave.  When the   *)
(* stack is empty the batch sends SB_UPDATE.                               *)
(***************************************************************************)
Rank(name) == CASE name = "SB_ACK" -> 1 [] name = "SB_CANCEL" -> 2
                [] name = "SB_RES" -> 3 [] name = "SB_TASK" -> 4

(* Mutant: SB_UPDATE is not sent.                                          *)
X_NextPcSilent(rest) == IF rest = {} THEN "recv" ELSE "handle"

NextPc(rest) == IF rest = {} THEN "update" ELSE "handle"

Handle(name, j) ==
  LET m == Message(name, j)
  IN  /\ bpc = "handle"
      /\ m \in stack
      /\ \A o \in stack : Rank(name) =< Rank(o.name)
      /\ stack' = stack \ {m}
      /\ UNCHANGED <<clock, desc, rmVars, supVars, loadVars>>

DeadlineOpen(j) == desc[j].deadline = NoDeadline \/ desc[j].deadline > clock

(* job->priority, clamped by schedule_task, as an index of queues.         *)
QueueOf(j) ==
  IF desc[j].priority >= NbQueues THEN NbQueues ELSE desc[j].priority + 1

Procs == [j \in Jobs |-> desc[j].procs]

(* Mutant: the reservations leave the table too, and are not put back.     *)
X_RescheduledAll(g, qs, st) ==
  LET movable == {j \in Jobs : st[j] \in {"WAITING", "RESERVED"}}
  IN  Reschedule(Plugin, g, qs, movable, {j \in movable : DeadlineOpen(j)}, Procs, clock)

(* scheduler->reschedule, with the job states st and the queues qs.        *)
Rescheduled(g, qs, st) ==
  LET waiting == {j \in Jobs : st[j] = "WAITING"}
  IN  Reschedule(Plugin, g, qs, waiting, {j \in waiting : DeadlineOpen(j)}, Procs, clock)

Holds(q, j) == \E i \in DOMAIN q : q[i] = j

(* cluster_search_job and xbt_dynar_remove_at: the first j leaves q.       *)
Removed(q, j) ==
  LET k == CHOOSE i \in DOMAIN q : q[i] = j /\ \A h \in 1 .. i - 1 : q[h] # j
  IN  SubSeq(q, 1, k - 1) \o SubSeq(q, k + 1, Len(q))

(***************************************************************************)
(* The trace of j is removed from the reservations or else from its queue. *)
(* When j is in neither the code asks xbt_dynar_remove_at for index -1,    *)
(* whose assertion ends the simulation: no step is left.                   *)
(***************************************************************************)
Untrace(j) ==
  \/ /\ Holds(reserved, j)
     /\ reserved' = Removed(reserved, j)
     /\ UNCHANGED queues
  \/ /\ ~ Holds(reserved, j)
     /\ Holds(queues[QueueOf(j)], j)
     /\ queues' = [queues EXCEPT ![QueueOf(j)] = Removed(@, j)]
     /\ UNCHANGED reserved

(* schedule_task.  A job that is too large, or too late, is dropped.       *)
ScheduleTask(j) ==
  /\ Handle("SB_TASK", j)
  /\ bpc' = NextPc(stack')
  /\ IF desc[j].procs =< NbNodes /\ DeadlineOpen(j)
       THEN /\ queues' = [queues EXCEPT ![QueueOf(j)] = Append(@, j)]
            /\ gantt' = Accept(gantt, j, Schedule(Plugin, gantt, j, desc[j].procs, clock))
       ELSE UNCHANGED <<queues, gantt>>
  /\ UNCHANGED <<state, reserved, asking, req>>

(* Mutant: the reservation is not traced.                                  *)
X_ReserveSlotUntraced(j) ==
  LET r == Message("SB_RES", j)
      date == EarliestStart(gantt, desc[j].procs, gantt.start[j], gantt.wall[j])
  IN  /\ Handle("SB_RES", j)
      /\ bpc' = "resume"
      /\ IF date = gantt.start[j]
           THEN /\ gantt' = Accept(gantt, j, CbfBid(gantt, desc[j].procs, date, gantt.wall[j]))
                /\ req' = [req EXCEPT ![r] = "SB_OK"]
           ELSE /\ req' = [req EXCEPT ![r] = "SB_KO"]
                /\ UNCHANGED gantt
      /\ UNCHANGED <<state, queues, reserved, asking>>

(* reserve_slot.  The answer is sent asynchronously, by a process that is  *)
(* created here: the others may go on before the batch does.               *)
ReserveSlot(j) ==
  LET r == Message("SB_RES", j)
      date == EarliestStart(gantt, desc[j].procs, gantt.start[j], gantt.wall[j])
  IN  /\ Handle("SB_RES", j)
      /\ bpc' = "resume"
      /\ IF date = gantt.start[j]
           THEN /\ reserved' = Append(reserved, j)
                /\ gantt' = Accept(gantt, j, CbfBid(gantt, desc[j].procs, date, gantt.wall[j]))
                /\ req' = [req EXCEPT ![r] = "SB_OK"]
           ELSE /\ req' = [req EXCEPT ![r] = "SB_KO"]
                /\ UNCHANGED <<reserved, gantt>>
      /\ UNCHANGED <<state, queues, asking>>

(* check_ACK.                                                              *)
CheckAck(j) ==
  /\ Handle("SB_ACK", j)
  /\ bpc' = NextPc(stack')
  /\ state' = [state EXCEPT ![j] = "DONE"]
  /\ Untrace(j)
  /\ gantt' = Rescheduled(DeleteDone(gantt, j), queues', state')
  /\ UNCHANGED <<asking, req>>

(***************************************************************************)
(* cancel_task.  The job keeps its state; the batch is blocked until the   *)
(* client has taken the answer.                                            *)
(***************************************************************************)
CancelTask(j) ==
  LET r == Message("SB_CANCEL", j)
  IN  /\ Handle("SB_CANCEL", j)
      /\ bpc' = "reply"
      /\ IF state[j] # "WAITING"
           THEN /\ asking' = [req |-> r, answer |-> "CANCEL_KO"]
                /\ UNCHANGED <<gantt, queues, reserved>>
           ELSE /\ asking' = [req |-> r, answer |-> "CANCEL_OK"]
                /\ Untrace(j)
                /\ gantt' = Rescheduled(DeleteDone(gantt, j), queues', state)
      /\ UNCHANGED <<state, req>>

(* The client takes CANCEL_OK or CANCEL_KO.                                *)
Reply ==
  /\ bpc = "reply"
  /\ req' = [req EXCEPT ![asking.req] = asking.answer]
  /\ bpc' = "resume"
  /\ UNCHANGED <<clock, desc, clusterVars, stack, asking, rmVars, supVars, loadVars>>

(* The batch goes on with its stack once an answer is on its way or taken. *)
Resume ==
  /\ bpc = "resume"
  /\ bpc' = NextPc(stack)
  /\ UNCHANGED <<clock, desc, clusterVars, stack, asking, rmVars, supVars, loadVars, req>>

HandleMessage(j) ==
  ScheduleTask(j) \/ ReserveSlot(j) \/ CheckAck(j) \/ CancelTask(j)

-----------------------------------------------------------------------------
(* The resource manager.                                                   *)

(* Mutant: the supervisor stays in the pool.                               *)
X_DispatchKeep(j, free) ==
  /\ rpc' = "run"
  /\ rmJob' = j
  /\ state' = [state EXCEPT ![j] = "PROCESSING"]
  /\ IF free = <<>>
       THEN cpt < NbSups /\ cpt' = cpt + 1 /\ rmSup' = cpt + 1 /\ pool' = <<>>
       ELSE rmSup' = Head(free) /\ pool' = free /\ UNCHANGED cpt
  /\ UNCHANGED rmWake

(***************************************************************************)
(* The timer of job j is over: j is PROCESSING from now on, and the        *)
(* manager is blocked sending it to the supervisor at the head of the pool,*)
(* created if the pool is empty.                                           *)
(***************************************************************************)
Dispatch(j, free) ==
  /\ rpc' = "run"
  /\ rmJob' = j
  /\ state' = [state EXCEPT ![j] = "PROCESSING"]
  /\ IF free = <<>>
       THEN cpt < NbSups /\ cpt' = cpt + 1 /\ rmSup' = cpt + 1 /\ pool' = <<>>
       ELSE rmSup' = Head(free) /\ pool' = Tail(free) /\ UNCHANGED cpt
  /\ UNCHANGED rmWake

(* Mutant: a job in error is started again.                                *)
X_StartableError == {j \in Jobs : state[j] \in {"WAITING", "RESERVED", "ERROR"}}

Startable == {j \in Jobs : state[j] \in {"WAITING", "RESERVED"}}

(***************************************************************************)
(* get_next_wakeup_time, then back to the top of the loop: with a waiting  *)
(* time of 0 the job is started at once and no message is received.        *)
(***************************************************************************)
NextWakeup(free) ==
  IF NodesToStart(gantt, Startable) = {}
    THEN /\ rpc' = "wait" /\ rmJob' = NoJob /\ pool' = free
         /\ UNCHANGED <<state, rmWake, rmSup, cpt>>
    ELSE LET j == NextJob(gantt, Startable)
         IN  IF gantt.start[j] =< clock
               THEN Dispatch(j, free)
               ELSE /\ rpc' = "wait" /\ rmJob' = j /\ rmWake' = gantt.start[j]
                    /\ pool' = free
                    /\ UNCHANGED <<state, rmSup, cpt>>

TimerDue == rpc = "wait" /\ rmJob # NoJob /\ clock >= rmWake

RmTimeout ==
  /\ TimerDue
  /\ Dispatch(rmJob, pool)
  /\ UNCHANGED <<clock, desc, gantt, queues, reserved, batchVars, supVars, loadVars, req>>

(***************************************************************************)
(* RM_ATTACH: the supervisor is in the pool before it has even posted its  *)
(* SB_ACK, which is a step of its own (TellBatch).                         *)
(***************************************************************************)
ReceiveAttach(s) ==
  /\ rpc \in {"wait", "drain"}
  /\ AttachPending(s)
  /\ spc' = [spc EXCEPT ![s] = "told"]
  /\ pool' = Append(pool, s)
  /\ rpc' = "drain"
  /\ UNCHANGED <<clock, desc, clusterVars, batchVars, rmJob, rmWake, rmSup, cpt,
                 sjob, swake, loadVars, req>>

ReceiveUpdate ==
  /\ rpc \in {"wait", "drain"}
  /\ UpdatePending
  /\ bpc' = "recv"
  /\ rpc' = "drain"
  /\ UNCHANGED <<clock, desc, clusterVars, stack, asking, rmJob, rmWake, rmSup,
                 pool, cpt, supVars, loadVars, req>>

(* Mutant: a timer that is set is not computed again.                      *)
X_RmDrainedOldTimer ==
  /\ rpc = "drain"
  /\ ~ RmMail
  /\ IF rmJob # NoJob /\ rmWake > clock
       THEN rpc' = "wait" /\ UNCHANGED <<state, rmJob, rmWake, rmSup, pool, cpt>>
       ELSE NextWakeup(pool)
  /\ UNCHANGED <<clock, desc, gantt, queues, reserved, batchVars, supVars, loadVars, req>>

RmDrained ==
  /\ rpc = "drain"
  /\ ~ RmMail
  /\ NextWakeup(pool)
  /\ UNCHANGED <<clock, desc, gantt, queues, reserved, batchVars, supVars, loadVars, req>>

(* The supervisor takes RUN.                                               *)
RunTaken ==
  /\ rpc = "run"
  /\ spc[rmSup] = "idle"
  /\ rpc' = "next"
  /\ spc' = [spc EXCEPT ![rmSup] = "start"]
  /\ sjob' = [sjob EXCEPT ![rmSup] = rmJob]
  /\ UNCHANGED <<clock, desc, clusterVars, batchVars, rmJob, rmWake, rmSup, pool, cpt,
                 swake, loadVars, req>>

(* RUN is taken; no message is received before the next timer is computed. *)
RmNext ==
  /\ rpc = "next"
  /\ NextWakeup(pool)
  /\ UNCHANGED <<clock, desc, gantt, queues, reserved, batchVars, supVars, loadVars, req>>

-----------------------------------------------------------------------------
(* The supervisors and the nodes.                                          *)

SupFrame == UNCHANGED <<clock, desc, gantt, queues, reserved, batchVars, rmVars,
                        sjob, loadVars, req>>

(* Mutant: the execution is not cut at the wall time.                      *)
X_ExecuteUncut(s) ==
  LET j    == sjob[s]
      late == /\ desc[j].deadline # NoDeadline
              /\ desc[j].deadline < clock + desc[j].run
  IN  /\ state' = IF late THEN [state EXCEPT ![j] = "ERROR"] ELSE state
      /\ IF DeadlineOpen(j)
           THEN /\ spc' = [spc EXCEPT ![s] = "run"]
                /\ swake' = [swake EXCEPT ![s] =
                               IF late THEN desc[j].deadline ELSE clock + desc[j].run]
           ELSE /\ spc' = [spc EXCEPT ![s] = "attach"]
                /\ UNCHANGED swake

(* Mutant: -1 is taken for a date.                                         *)
X_ExecuteNoDeadline(s) ==
  LET j     == sjob[s]
      sleep == IF gantt.wall[j] < desc[j].run THEN gantt.wall[j] ELSE desc[j].run
      late  == desc[j].deadline < clock + sleep
  IN  /\ state' = IF late THEN [state EXCEPT ![j] = "ERROR"] ELSE state
      /\ IF DeadlineOpen(j)
           THEN /\ spc' = [spc EXCEPT ![s] = "run"]
                /\ swake' = [swake EXCEPT ![s] =
                               IF late THEN desc[j].deadline ELSE clock + sleep]
           ELSE /\ spc' = [spc EXCEPT ![s] = "attach"]
                /\ UNCHANGED swake

(***************************************************************************)
(* The job sleeps for its run time, cut at its wall time, or at its        *)
(* deadline, which makes it ERROR.  A job that is already late does not    *)
(* run at all.                                                             *)
(***************************************************************************)
Execute(s) ==
  LET j     == sjob[s]
      sleep == IF gantt.wall[j] < desc[j].run THEN gantt.wall[j] ELSE desc[j].run
      late  == /\ desc[j].deadline # NoDeadline
               /\ desc[j].deadline < clock + sleep
  IN  /\ state' = IF late THEN [state EXCEPT ![j] = "ERROR"] ELSE state
      /\ IF DeadlineOpen(j)
           THEN /\ spc' = [spc EXCEPT ![s] = "run"]
                /\ swake' = [swake EXCEPT ![s] =
                               IF late THEN desc[j].deadline ELSE clock + sleep]
           ELSE /\ spc' = [spc EXCEPT ![s] = "attach"]
                /\ UNCHANGED swake

(* DATA_IN is sent first, if there is input.                               *)
SupStart(s) ==
  /\ spc[s] = "start"
  /\ IF desc[sjob[s]].input > 0
       THEN spc' = [spc EXCEPT ![s] = "in"] /\ UNCHANGED <<state, swake>>
       ELSE Execute(s)
  /\ SupFrame

(* SB_node serves one transfer at a time.                                  *)
NodeFree(n) ==
  \A s \in Sups : spc[s] \in {"receiving", "returning"} => gantt.lead[sjob[s]] # n

NodeReceive(s) ==
  /\ spc[s] \in {"in", "out"}
  /\ NodeFree(gantt.lead[sjob[s]])
  /\ IF spc[s] = "in"
       THEN /\ spc' = [spc EXCEPT ![s] = "receiving"]
            /\ swake' = [swake EXCEPT ![s] = clock + desc[sjob[s]].input]
       ELSE /\ spc' = [spc EXCEPT ![s] = "returning"]
            /\ swake' = [swake EXCEPT ![s] = clock + desc[sjob[s]].output]
  /\ UNCHANGED state
  /\ SupFrame

Over(s) == clock >= swake[s]

InputReceived(s) ==
  /\ spc[s] = "receiving" /\ Over(s)
  /\ Execute(s)
  /\ SupFrame

(* The sleep is over; DATA_OUT is sent if there is output.                 *)
SupFinish(s) ==
  /\ spc[s] = "run" /\ Over(s)
  /\ spc' = [spc EXCEPT ![s] = IF desc[sjob[s]].output > 0 THEN "out" ELSE "attach"]
  /\ UNCHANGED <<state, swake>>
  /\ SupFrame

OutputReturned(s) ==
  /\ spc[s] = "returning" /\ Over(s)
  /\ spc' = [spc EXCEPT ![s] = "attach"]
  /\ UNCHANGED <<state, swake>>
  /\ SupFrame

(* RM_ATTACH is taken; SB_ACK is sent.                                     *)
TellBatch(s) ==
  /\ spc[s] = "told"
  /\ spc' = [spc EXCEPT ![s] = "ack"]
  /\ UNCHANGED <<state, swake>>
  /\ SupFrame

Supervise(s) ==
  \/ SupStart(s) \/ NodeReceive(s) \/ InputReceived(s)
  \/ SupFinish(s) \/ OutputReturned(s) \/ TellBatch(s)

-----------------------------------------------------------------------------
(***************************************************************************)
(* The clients.  A job is cancelled once it has been submitted or its      *)
(* reservation accepted, and a reservation is for now or later.            *)
(***************************************************************************)
Submitted(j) == \E i \in 1 .. loadPos - 1 : Load[i] = j

Reserved(j) == \E r \in Requests : r = Message("SB_RES", j) /\ req[r] = "SB_OK"

ClientSend(r) ==
  /\ req[r] = "new"
  /\ bpc # "end"
  /\ r.name = "SB_RES" => clock =< desc[r.job].start
  /\ r.name = "SB_CANCEL" => Submitted(r.job) \/ Reserved(r.job)
  /\ req' = [req EXCEPT ![r] = "sent"]
  /\ UNCHANGED <<clock, desc, clusterVars, batchVars, rmVars, supVars, loadVars>>

-----------------------------------------------------------------------------
(* Time.                                                                   *)

(* Some process can go on without waiting for time to pass.                *)
Busy ==
  \/ bpc \in {"drain", "handle", "reply", "resume"}
  \/ bpc = "recv" /\ BatchMail
  \/ LoadDue
  \/ rpc \in {"drain", "next"}
  \/ rpc = "wait" /\ (RmMail \/ TimerDue)
  \/ rpc = "run" /\ spc[rmSup] = "idle"
  \/ \E s \in Sups :
       \/ spc[s] \in {"start", "told"}
       \/ spc[s] \in {"in", "out"} /\ NodeFree(gantt.lead[sjob[s]])
       \/ spc[s] \in {"receiving", "run", "returning"} /\ Over(s)

(* The dates at which a receive times out or a sleep or a transfer ends.   *)
Timers ==
  {t \in {rmWake} : rpc = "wait" /\ rmJob # NoJob}
    \cup {swake[s] : s \in {u \in Sups : spc[u] \in {"receiving", "run", "returning"}}}
    \cup {t \in {loadWake} : lpc = "sleep" /\ loadPos =< Len(Load)}

Alive == \E t \in Timers : t > clock

(* One date at a time: an event of a client can be at any of them.         *)
Tick ==
  /\ ~ Busy
  /\ Alive
  /\ clock' = clock + 1
  /\ UNCHANGED <<desc, clusterVars, batchVars, rmVars, supVars, loadVars, req>>

(***************************************************************************)
(* Nothing will ever happen again: the receives of the servers time out at *)
(* the end of time (DBL_MAX) and the processes return.                     *)
(***************************************************************************)
EndOfTime ==
  /\ ~ Busy /\ ~ Alive
  /\ bpc = "recv" /\ rpc = "wait"
  /\ bpc' = "end" /\ rpc' = "end"
  /\ UNCHANGED <<clock, desc, clusterVars, stack, asking, rmJob, rmWake, rmSup,
                 pool, cpt, supVars, loadVars, req>>

Terminated == bpc = "end" /\ UNCHANGED vars

-----------------------------------------------------------------------------
BatchStep == \/ \E s \in Sups : ReceiveAck(s)
             \/ ReceiveTask
             \/ \E r \in Requests : ReceiveRequest(r)
             \/ SortStack
             \/ Reply
             \/ Resume

RmStep == \/ RmTimeout
          \/ \E s \in Sups : ReceiveAttach(s)
          \/ ReceiveUpdate
          \/ RmDrained
          \/ RunTaken
          \/ RmNext

(***************************************************************************)
(* From one message of its stack to the next the batch makes no MSG call,  *)
(* but for the answers to the clients: nobody else runs.                   *)
(***************************************************************************)
System == \/ \E j \in Jobs : HandleMessage(j)
          \/ /\ bpc # "handle"
             /\ \/ BatchStep
                \/ RmStep
                \/ LoadSend
                \/ \E s \in Sups : Supervise(s)
                \/ Tick
                \/ EndOfTime

Next == \/ System
        \/ bpc # "handle" /\ \E r \in Requests : ClientSend(r)
        \/ Terminated

Spec == Init /\ [][Next]_vars

(***************************************************************************)
(* SimGrid runs every process that is ready and advances the clock when    *)
(* none is; clients owe nothing.  This is weak fairness of System, written *)
(* out: CanStep says when System is enabled.                               *)
(***************************************************************************)
CanStep == Busy \/ Alive \/ (bpc = "recv" /\ rpc = "wait")

FairSpec == Spec /\ ([]<>(~ CanStep) \/ []<><<System>>_vars)
=============================================================================
