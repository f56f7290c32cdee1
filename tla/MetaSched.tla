----------------------------- MODULE MetaSched -----------------------------
(***************************************************************************)
(* The meta-scheduler of example/simple_metaSched: several clusters, each  *)
(* with a batch and a sed in front of it, and one process that asks every  *)
(* cluster when it could start a job and sends the job to the best one.    *)
(*                                                                         *)
(*    metaSched  metaSched, getNbNodesPF   main.c                          *)
(*               MCT_schedule              algos.c                         *)
(*    sed        sed                       main.c                          *)
(*    batch      predict_schedule, init_pf, schedule_task   batch.c        *)
(*                                                                         *)
(* The rest of a cluster is the planner of Cluster, which BatchSystem      *)
(* implements.  metaSched sends with a rendez-vous: its message is its pc. *)
(* Seds and batches send from a process of its own for each message        *)
(* (MSG_task_async_send): these messages are in sets.                      *)
(*                                                                         *)
(* The links of platform.xml have latencies: time can pass while a message *)
(* is under way.  Inside a cluster messages take none, as in Cluster.      *)
(***************************************************************************)
EXTENDS Integers, FiniteSets, Sequences

CONSTANTS Jobs,       \* the jobs of load.wld
          JobList,    \* the jobs in the order of the file
          NbClusters, \* the number of clusters, in the order of argv
          Size,       \* Size[c], the number of nodes of cluster c
          Levels,     \* Levels[c], its number of priority queues
          Plugins,    \* Plugins[c], its scheduler
          Speed,      \* Speed[c], the speed of its host
          Services,   \* Services[c], what its sed offers
          Workloads,  \* the possible contents of the jobs
          MaxLate,    \* bound: the time all messages together can take
          NoJob       \* a NULL job_t

Clusters == 1 .. NbClusters

ASSUME ClustersAssumption == NbClusters \in Nat \ {0}
ASSUME SizesAssumption    == /\ Size \in [Clusters -> Nat \ {0}]
                             /\ Levels \in [Clusters -> Nat \ {0}]
ASSUME SpeedAssumption    == Speed \in [Clusters -> Nat \ {0}]
ASSUME NoJobAssumption    == NoJob \notin Jobs
ASSUME LateAssumption     == MaxLate \in Nat
ASSUME ListAssumption     == JobList \in Seq(Jobs)
(* A job_t is made for each line of the file (wld.c:70).                   *)
ASSUME ListOnceAssumption ==
  \A i, k \in DOMAIN JobList : i # k => JobList[i] # JobList[k]
(* What wld.c makes of a line; find_a_slot does not end for 0 processors.  *)
Descriptions ==
  [submit : Nat, run : Nat, wall : Nat, procs : Nat \ {0}, priority : Nat, service : Nat,
   deadline : {-1}, start : {0}, state : {"WAITING"}]
ASSUME WorkloadsAssumption == \A w \in Workloads : w \in [Jobs -> Descriptions]
(* The file is sorted: MSG_process_sleep is never given a negative date.   *)
ASSUME SortedAssumption ==
  \A w \in Workloads : \A i, k \in DOMAIN JobList :
    i < k => w[JobList[i]].submit =< w[JobList[k]].submit

VARIABLES
  clock,
  late,      \* (ghost) the time that has passed while metaSched did not sleep
  job,       \* the jobs, shared by every process
  clusters,  \* clusters[c], the record of Cluster
  mpc,       \* where metaSched is
  pos,       \* its job, a position in JobList
  at,        \* the cluster it is asking
  nodesPF,   \* clusterInfo of getNbNodesPF
  best,      \* winner: its cluster and completionT, and (ghost) slots[0]->start_time
  failures,  \* failure
  last,      \* time: the submit time of the last job sent
  wake,      \* the end of its sleep
  sedMail,   \* answers of the batch of c to its sed
  batchMail, \* what the sed of c has forwarded to its batch
  metaMail   \* metasched_MB

metaVars == <<mpc, pos, at, nodesPF, best, failures, last, wake>>
mailVars == <<sedMail, batchMail, metaMail>>
vars == <<clock, late, job, clusters, metaVars, mailVars>>

C(c) == INSTANCE Cluster WITH
          NbNodes <- Size[c], NbQueues <- Levels[c], Plugin <- Plugins[c],
          now <- clock, cluster <- clusters[c], todo <- {}, booked <- {},
          stopped <- FALSE

(* No winner yet: completionT = DBL_MAX.                                   *)
NoWinner == [cluster |-> 0, date |-> 0, start |-> 0]

(* Questions go to the batches, answers come back.  The code's answers do  *)
(* not say what they answer; the field job is there for the properties.    *)
Question(name, j) == [name |-> name, job |-> j]
Answer(name, c, j, value) == [name |-> name, from |-> c, job |-> j, value |-> value]

Init ==
  /\ clock = 0 /\ late = 0
  /\ job \in Workloads
  /\ clusters = [c \in Clusters |-> C(c)!EmptyCluster]
  /\ mpc = "init" /\ pos = 1 /\ at = 1
  /\ nodesPF = [c \in Clusters |-> 0]
  /\ best = NoWinner /\ failures = 0 /\ last = 0 /\ wake = 0
  /\ sedMail = [c \in Clusters |-> {}]
  /\ batchMail = [c \in Clusters |-> {}]
  /\ metaMail = {}

-----------------------------------------------------------------------------
(* The sed.                                                                *)

(* What metaSched is sending, and to the sed of which cluster.             *)
Sending == mpc \in {"init", "ask", "send"}
Target == IF mpc = "send" THEN best.cluster ELSE at
Sent == CASE mpc = "init" -> Question("PF_INIT", NoJob)
          [] mpc = "ask"  -> Question("SED_PRED", JobList[pos])
          [] mpc = "send" -> Question("SB_TASK", JobList[pos])

(* Mutant: every service of the sed has to be the one asked for.          *)
X_Available(c, j) == j = NoJob \/ \A s \in Services[c] : job[j].service = s

Available(c, j) == j = NoJob \/ job[j].service \in Services[c]

(* Mutant: the `else' of the service test is lost.                         *)
X_ForwardBoth(c, q) ==
  /\ batchMail' = [batchMail EXCEPT ![c] = @ \cup {q}]
  /\ IF Available(c, q.job)
       THEN UNCHANGED metaMail
       ELSE metaMail' = metaMail \cup {Answer("SB_SERVICE_KO", c, q.job, 0)}

(* A question without job, or for a service that is offered, goes on to the*)
(* batch; otherwise the sed answers itself.                                *)
Forward(c, q) ==
  IF Available(c, q.job)
    THEN batchMail' = [batchMail EXCEPT ![c] = @ \cup {q}] /\ UNCHANGED metaMail
    ELSE /\ metaMail' = metaMail \cup {Answer("SB_SERVICE_KO", c, q.job, 0)}
         /\ UNCHANGED batchMail

(* Mutant: the failures are counted over all jobs.                         *)
X_NextJob(p) ==
  /\ pos' = p
  /\ mpc' = IF p > Len(JobList) THEN "end" ELSE "ask"
  /\ at' = 1 /\ best' = NoWinner /\ UNCHANGED failures

(* The next job, with every cluster to be asked again.                     *)
NextJob(p) ==
  /\ pos' = p
  /\ mpc' = IF p > Len(JobList) THEN "end" ELSE "ask"
  /\ at' = 1 /\ best' = NoWinner /\ failures' = 0

(***************************************************************************)
(* The sed of c takes the message of metaSched, which goes on: to wait for *)
(* an answer, or, when a job has been sent, with the next job.             *)
(***************************************************************************)
SedReceive(c) ==
  /\ Sending /\ c = Target
  /\ Forward(c, Sent)
  /\ IF mpc = "send"
       THEN last' = job[JobList[pos]].submit /\ NextJob(pos + 1)
       ELSE /\ mpc' = IF mpc = "init" THEN "inform" ELSE "answer"
            /\ UNCHANGED <<pos, at, best, failures, last>>
  /\ UNCHANGED <<clock, late, job, clusters, nodesPF, wake, sedMail>>

(* What comes from the batch is for metaSched.                             *)
SedRelay(c) ==
  \E a \in sedMail[c] :
    /\ sedMail' = [sedMail EXCEPT ![c] = @ \ {a}]
    /\ metaMail' = metaMail \cup {a}
    /\ UNCHANGED <<clock, late, job, clusters, metaVars, batchMail>>

-----------------------------------------------------------------------------
(* The batch: the alphabetical order of the pending messages.              *)

X_RankPredFirst(name) ==
  CASE name = "PF_INIT" -> 1 [] name = "SED_PRED" -> 2 [] name = "SB_TASK" -> 3

Rank(name) ==
  CASE name = "PF_INIT" -> 1 [] name = "SB_TASK" -> 2 [] name = "SED_PRED" -> 3

BatchTakes(c, q) ==
  /\ q \in batchMail[c]
  /\ \A o \in batchMail[c] : Rank(q.name) =< Rank(o.name)
  /\ batchMail' = [batchMail EXCEPT ![c] = @ \ {q}]
  /\ UNCHANGED <<clock, late, metaVars, metaMail>>

Reply(c, a) == sedMail' = [sedMail EXCEPT ![c] = @ \cup {a}]

InitPf(c, q) ==
  /\ q.name = "PF_INIT"
  /\ BatchTakes(c, q)
  /\ Reply(c, Answer("SB_INIT", c, q.job, Size[c]))
  /\ UNCHANGED <<job, clusters>>

(* schedule_task and predict_schedule both write the priority they clamp.  *)
Clamped(c, j) ==
  [job EXCEPT ![j].priority = IF @ >= Levels[c] THEN Levels[c] - 1 ELSE @]

(* Mutant: the bid of a prediction is accepted.                            *)
X_PredictAccepts(c, q) ==
  /\ q.name = "SED_PRED"
  /\ BatchTakes(c, q)
  /\ IF job[q.job].procs =< Size[c]
       THEN /\ Reply(c, Answer("SB_PRED", c, q.job,
                               LET bid == C(c)!Bid(clusters[c], q.job)
                               IN  C(c)!LastSlot(clusters[c].gantt, bid.lead, clock)))
            /\ clusters' = [clusters EXCEPT ![c] = C(c)!WithTask(@, q.job)]
            /\ job' = Clamped(c, q.job)
       ELSE /\ Reply(c, Answer("SB_CLUSTER_KO", c, q.job, 0))
            /\ UNCHANGED <<job, clusters>>

(***************************************************************************)
(* slots[0]->start_time: for cbf the date of the job; for fcfs the date the*)
(* first of its nodes is free, although the job starts with the last.      *)
(***************************************************************************)
FirstSlot(c, j) ==
  LET bid == C(c)!Bid(clusters[c], j)
  IN  IF Plugins[c] = "fcfs"
        THEN C(c)!LastSlot(clusters[c].gantt, bid.lead, clock)
        ELSE bid.start

(* predict_schedule.                                                       *)
PredictSchedule(c, q) ==
  /\ q.name = "SED_PRED"
  /\ BatchTakes(c, q)
  /\ IF job[q.job].procs =< Size[c]
       THEN /\ Reply(c, Answer("SB_PRED", c, q.job, FirstSlot(c, q.job)))
            /\ job' = Clamped(c, q.job)
       ELSE /\ Reply(c, Answer("SB_CLUSTER_KO", c, q.job, 0))
            /\ UNCHANGED job
  /\ UNCHANGED clusters

(* schedule_task.                                                          *)
ScheduleTask(c, q) ==
  /\ q.name = "SB_TASK"
  /\ BatchTakes(c, q)
  /\ IF C(c)!Admits(q.job)
       THEN /\ clusters' = [clusters EXCEPT ![c] = C(c)!WithTask(@, q.job)]
            /\ job' = Clamped(c, q.job)
       ELSE UNCHANGED <<job, clusters>>
  /\ UNCHANGED sedMail

BatchHandle(c) ==
  \E q \in batchMail[c] : InitPf(c, q) \/ PredictSchedule(c, q) \/ ScheduleTask(c, q)

-----------------------------------------------------------------------------
(* metaSched.                                                              *)

(* getNbNodesPF, one cluster after the other.                              *)
Inform ==
  /\ mpc = "inform"
  /\ \E a \in metaMail :
       /\ metaMail' = metaMail \ {a}
       /\ nodesPF' = [nodesPF EXCEPT ![at] = a.value]
  /\ IF at = NbClusters
       THEN NextJob(1)
       ELSE mpc' = "init" /\ at' = at + 1 /\ UNCHANGED <<pos, best, failures>>
  /\ UNCHANGED <<clock, late, job, clusters, last, wake, sedMail, batchMail>>

MaxSpeed == CHOOSE s \in {Speed[c] : c \in Clusters} : \A c \in Clusters : Speed[c] =< s

(***************************************************************************)
(* completionT: the wall time, stretched by the speed of the cluster, after*)
(* the first slot.  Dates are scaled so that the ratio is a natural number.*)
(***************************************************************************)
SpeedCoef(c) == MaxSpeed \div Speed[c]

CompletionT(c, j, start) == start + job[j].wall * SpeedCoef(c)

(* Mutant: a refusal is taken for a prediction.                            *)
X_JudgedKO(a) ==
  LET date == CompletionT(at, JobList[pos], a.value)
  IN  [failures |-> failures,
       best |-> IF best = NoWinner \/ date < best.date
                  THEN [cluster |-> a.from, date |-> date, start |-> a.value]
                  ELSE best]

(* The first of the clusters with the least completion date wins.          *)
Judged(a) ==
  LET date == CompletionT(at, JobList[pos], a.value)
  IN  IF a.name = "SB_PRED"
        THEN [failures |-> failures,
              best |-> IF best = NoWinner \/ date < best.date
                         THEN [cluster |-> a.from, date |-> date, start |-> a.value]
                         ELSE best]
        ELSE [failures |-> failures + 1, best |-> best]

(* Mutant: time moves on with a job that has no winner too.                *)
X_DropMovesTime ==
  /\ NextJob(pos + 1)
  /\ last' = job[JobList[pos]].submit
  /\ UNCHANGED wake

(* "no winner": the job is forgotten, and time stays where it was.         *)
Drop == NextJob(pos + 1) /\ UNCHANGED <<last, wake>>

(***************************************************************************)
(* MCT_schedule takes an answer and asks the next cluster; after the last  *)
(* one metaSched drops the job or sleeps until its submit time.            *)
(***************************************************************************)
TakeAnswer ==
  /\ mpc = "answer"
  /\ \E a \in metaMail :
       LET v == Judged(a)
       IN  /\ metaMail' = metaMail \ {a}
           /\ \/ /\ at < NbClusters
                 /\ mpc' = "ask" /\ at' = at + 1
                 /\ best' = v.best /\ failures' = v.failures
                 /\ UNCHANGED <<pos, last, wake>>
              \/ /\ at = NbClusters /\ v.failures = NbClusters
                 /\ Drop
              \/ /\ at = NbClusters /\ v.failures # NbClusters
                 /\ mpc' = "sleep"
                 /\ wake' = clock + (job[JobList[pos]].submit - last)
                 /\ best' = v.best /\ failures' = v.failures
                 /\ UNCHANGED <<pos, at, last>>
  /\ UNCHANGED <<clock, late, job, clusters, nodesPF, sedMail, batchMail>>

WakeUp ==
  /\ mpc = "sleep" /\ clock >= wake
  /\ mpc' = "send"
  /\ UNCHANGED <<clock, late, job, clusters, pos, at, nodesPF, best, failures, last, wake>>
  /\ UNCHANGED mailVars

-----------------------------------------------------------------------------
(* The clusters and time.                                                  *)

StartJob(c, j) ==
  /\ C(c)!Due(clusters[c], j)
  /\ clusters' = [clusters EXCEPT ![c].state[j] = "PROCESSING"]
  /\ UNCHANGED <<clock, late, job, metaVars, mailVars>>

FinishJob(c, j) ==
  /\ C(c)!MayEnd(clusters[c], j)
  /\ clusters' = [clusters EXCEPT ![c] = C(c)!WithoutJob(@, j)]
  /\ UNCHANGED <<clock, late, job, metaVars, mailVars>>

Mail == metaMail # {} \/ \E c \in Clusters : sedMail[c] # {} \/ batchMail[c] # {}

Busy == Sending \/ Mail \/ (mpc = "sleep" /\ clock >= wake)

Pending(c) == C(c)!ToStart(clusters[c]) \cup C(c)!Running(clusters[c])

Alive == Sending \/ Mail \/ mpc = "sleep" \/ \E c \in Clusters : Pending(c) # {}

(***************************************************************************)
(* Nothing wakes metaSched up while a message it has to send or to get is  *)
(* under way, however long that is.                                        *)
(***************************************************************************)
Tick ==
  /\ Alive
  /\ \A c \in Clusters : C(c)!Settled(clusters[c])
  /\ IF mpc = "sleep"
       THEN clock < wake /\ UNCHANGED late
       ELSE IF Sending \/ Mail THEN late < MaxLate /\ late' = late + 1 ELSE UNCHANGED late
  /\ clock' = clock + 1
  /\ UNCHANGED <<job, clusters, metaVars, mailVars>>

Terminated == mpc = "end" /\ ~ Busy /\ ~ Alive /\ UNCHANGED vars

Step == \/ \E c \in Clusters : SedReceive(c) \/ SedRelay(c) \/ BatchHandle(c)
        \/ Inform \/ TakeAnswer \/ WakeUp
        \/ \E c \in Clusters, j \in Jobs : StartJob(c, j) \/ FinishJob(c, j)
        \/ Tick

Next == Step \/ Terminated

Spec == Init /\ [][Next]_vars

(***************************************************************************)
(* SimGrid runs whoever is ready and advances the clock when nobody is.    *)
(* This is weak fairness of Step: Busy \/ Alive says when it is enabled.   *)
(***************************************************************************)
FairSpec == Spec /\ ([]<>(~ Busy /\ ~ Alive) \/ []<><<Step>>_vars)

-----------------------------------------------------------------------------
(* Properties.                                                             *)

TypeOK ==
  /\ clock \in Nat /\ late \in 0 .. MaxLate /\ last \in Nat /\ wake \in Nat
  /\ mpc \in {"init", "inform", "ask", "answer", "sleep", "send", "end"}
  /\ pos \in 1 .. Len(JobList) + 1
  /\ at \in Clusters
  /\ nodesPF \in [Clusters -> Nat]
  /\ best \in [cluster : 0 .. NbClusters, date : Nat, start : Nat]
  /\ failures \in 0 .. NbClusters
  /\ \A c \in Clusters : /\ clusters[c].gantt \in C(c)!Tables
                         /\ \A q \in batchMail[c] : q.job \in Jobs \cup {NoJob}
                         /\ \A a \in sedMail[c] : a.from = c

(* The messages under way: questions and answers.                          *)
Questions == UNION {batchMail[c] : c \in Clusters}
Answers   == metaMail \cup UNION {sedMail[c] : c \in Clusters}

(***************************************************************************)
(* Answers carry no mark of what they answer, and arrive in one mailbox    *)
(* (main.c:106, algos.c:49): the only answer under way is of the cluster   *)
(* and about the job asked last, and none is left when nothing is asked.   *)
(***************************************************************************)
AnswerMatches ==
  LET asked == {q \in Questions : q.name # "SB_TASK"}
  IN  /\ Cardinality(Answers) + Cardinality(asked) =
           (IF mpc \in {"inform", "answer"} THEN 1 ELSE 0)
      /\ \A a \in Answers : a.from = at /\ (mpc = "answer" => a.job = JobList[pos])

(***************************************************************************)
(* A job reaches only a batch that is large enough for it, behind a sed    *)
(* that offers its service: schedule_task drops what is too large without  *)
(* telling anybody (batch.c:350, 371).                                     *)
(***************************************************************************)
SentToAble ==
  \A c \in Clusters : \A q \in batchMail[c] : q.name = "SB_TASK" =>
    job[q.job].procs =< Size[c] /\ job[q.job].service \in Services[c]

(***************************************************************************)
(* A job is sent later than its submit time by the time all conversations  *)
(* up to then took, the first of getNbNodesPF and those about jobs without *)
(* winner included, and by nothing else: sleeps are relative to the last   *)
(* job that was sent, which the wake-up after it is counted from           *)
(* (main.c:165-169).                                                       *)
(***************************************************************************)
LateByTalk ==
  [][mpc = "send" /\ mpc' # "send" => clock = job[JobList[pos]].submit + late]_vars

(* Where the job is planned or traced.                                     *)
ClustersOf(j) ==
  {c \in Clusters : C(c)!Traced(clusters[c], j) \/ j \in C(c)!InTable(clusters[c])}

(***************************************************************************)
(* A job is planned on one cluster at most, and on none before it has been *)
(* sent: a prediction schedules without accepting (batch.c:574), although  *)
(* it uses the same table and the same job.                                *)
(***************************************************************************)
OneCluster ==
  /\ \A j \in Jobs : Cardinality(ClustersOf(j)) =< 1
  /\ \A i \in pos .. Len(JobList) : ClustersOf(JobList[i]) = {}

(* The batch of c is fcfs, and its jobs share one queue.                   *)
InTurn(c) == /\ Plugins[c] = "fcfs"
             /\ \A i, k \in Jobs : C(c)!QueueOf(i) = C(c)!QueueOf(k)

(***************************************************************************)
(* When a job is sent to a batch that takes its jobs in turn, the date it  *)
(* was promised has not got worse, unless it is over: the prediction was   *)
(* made on a table that held every job sent before (batch.c:269-275), and  *)
(* ends only make room.  With priorities, or gaps to fill, it may: an end  *)
(* lets all waiting jobs be planned again, in another order or other gaps. *)
(* So it may with a job of wall time 0: the one behind it, planned for the *)
(* same date, may start first, and an end then plans it behind that one.   *)
(***************************************************************************)
PredictionKept ==
  mpc = "send" =>
    \A c \in Clusters : c = best.cluster /\ InTurn(c) =>
      LET first == FirstSlot(c, JobList[pos])
      IN  first =< best.start \/ first = clock

(* Every job that some cluster can hold is executed in the end, while the  *)
(* servers of no cluster come to wait for each other (stopped of Cluster). *)
Able(c, j) == job[j].procs =< Size[c] /\ job[j].service \in Services[c]

EveryJobRuns ==
  \A j \in Jobs : (\E c \in Clusters : Able(c, j)) =>
    <>(\E c \in Clusters : clusters[c].state[j] = "DONE")

(***************************************************************************)
(* "for each job, choose the cluster where the job will be completed first"*)
(* (main.c:157): when the job is sent, by the measure MCT_schedule uses.   *)
(***************************************************************************)
FirstCompleted ==
  mpc = "send" =>
    LET j == JobList[pos]
    IN  \A c, d \in Clusters : c = best.cluster /\ Able(d, j) =>
          CompletionT(c, j, FirstSlot(c, j)) =< CompletionT(d, j, FirstSlot(d, j))
=============================================================================
