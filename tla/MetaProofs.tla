----------------------------- MODULE MetaProofs -----------------------------
(***************************************************************************)
(* Proofs about MetaSched: the answers metaSched gets are those it waits   *)
(* for, a job is sent to a cluster that can run it, later than its submit  *)
(* time by the talk alone, and is planned on no other; what it counts and  *)
(* is told has its type; and the date a cluster was chosen for lasts until *)
(* the job is sent.                                                        *)
(*                                                                         *)
(* The first three rest on each other.  The time that passes while         *)
(* metaSched waits for an answer is talk because there is exactly one      *)
(* message under way then (OneMessage); the winner can hold the job because*)
(* what its answer is about is the job (GoodAnswer), and not all clusters  *)
(* have failed (WinnerOK).                                                 *)
(*                                                                         *)
(* That a job is on no other cluster (PlacesInv) makes the tables of all   *)
(* clusters those of GanttProofs (TablesInv), which gives the types        *)
(* (Numbers) and the dates (TurnsInv).                                     *)
(***************************************************************************)
EXTENDS MetaSched, FiniteSetTheorems, SequenceTheorems, TLAPS

-----------------------------------------------------------------------------
(* The invariant.                                                          *)

States == {"init", "inform", "ask", "answer", "sleep", "send", "end"}

Waiting == mpc \in {"inform", "answer"}

(* The job the question under way is about.                                *)
About == IF mpc = "answer" THEN JobList[pos] ELSE NoJob

(* The questions under way to the batch of c.                              *)
Asked(c) == {q \in batchMail[c] : q.name # "SB_TASK"}

(* Cluster c can hold j, and offers its service.                           *)
Holds(c, j) == j \in Jobs /\ job[j].procs =< Size[c] /\ job[j].service \in Services[c]

(* Nobody but the sorted file gives the jobs their dates.                  *)
JobsOK ==
  /\ job \in [Jobs -> Descriptions]
  /\ \A i, k \in DOMAIN JobList : i < k => job[JobList[i]].submit =< job[JobList[k]].submit

PlaceOK ==
  /\ mpc \in States
  /\ at \in Clusters
  /\ pos \in Nat \ {0}
  /\ mpc \in {"ask", "answer", "sleep", "send"} => pos =< Len(JobList)
  /\ mpc \in {"init", "inform"} => pos = 1

MailTyped ==
  /\ batchMail = [c \in Clusters |-> batchMail[c]]
  /\ sedMail = [c \in Clusters |-> sedMail[c]]

(* What metaSched has asked, and an answer to it: only a cluster that holds*)
(* the job makes a prediction.                                             *)
GoodQuestion(q) ==
  /\ q.job = About
  /\ mpc = "answer" => q.name = "SED_PRED" /\ job[q.job].service \in Services[at]
  /\ mpc = "inform" => q.name = "PF_INIT"

GoodAnswer(a) ==
  /\ a.from = at /\ a.job = About
  /\ mpc = "answer" /\ a.name = "SB_PRED" => Holds(at, a.job)

NoneAt(c) == Asked(c) = {} /\ sedMail[c] = {}

(* One question or answer is under way while metaSched waits, and none     *)
(* while it does not.                                                      *)
OneMessage ==
  /\ \A c \in Clusters : c # at \/ ~ Waiting => NoneAt(c)
  /\ ~ Waiting => metaMail = {}
  /\ Waiting =>
       \/ \E q \in Asked(at) : /\ GoodQuestion(q) /\ Asked(at) = {q}
                              /\ sedMail[at] = {} /\ metaMail = {}
       \/ \E a \in sedMail[at] : /\ GoodAnswer(a) /\ Asked(at) = {}
                                /\ sedMail[at] = {a} /\ metaMail = {}
       \/ \E a \in metaMail : GoodAnswer(a) /\ Asked(at) = {} /\ sedMail[at] = {} /\ metaMail = {a}

WinnerHolds == best.cluster \in Clusters /\ Holds(best.cluster, JobList[pos])

(* Once one of the clusters asked has not failed, there is a winner.       *)
WinnerOK ==
  /\ mpc \in {"ask", "answer"} => /\ failures \in 0 .. at - 1
                                  /\ best = NoWinner \/ WinnerHolds
                                  /\ failures < at - 1 => WinnerHolds
  /\ mpc \in {"sleep", "send"} => WinnerHolds

(* The jobs under way to a batch.                                          *)
SentOK == \A c \in Clusters : \A q \in batchMail[c] : q.name = "SB_TASK" => Holds(c, q.job)

(* But for the talk, the clock stands at the last submission, and metaSched*)
(* sleeps until the next.                                                  *)
TimeOK ==
  /\ clock \in Nat /\ last \in Nat /\ late \in 0 .. MaxLate
  /\ mpc \in {"init", "inform", "ask", "answer"} => clock = last + late
  /\ mpc = "sleep" => wake = job[JobList[pos]].submit + late /\ clock =< wake
  /\ mpc = "send" => clock = job[JobList[pos]].submit + late
  /\ \A k \in DOMAIN JobList : mpc # "end" /\ k >= pos => last =< job[JobList[k]].submit

MetaInv == JobsOK /\ PlaceOK /\ MailTyped /\ OneMessage /\ WinnerOK /\ SentOK /\ TimeOK

-----------------------------------------------------------------------------
(* Jobs.                                                                   *)

(* The list holds jobs.                                                    *)
LEMMA ListJob ==
  ASSUME NEW k \in DOMAIN JobList
  PROVE  JobList[k] \in Jobs /\ k \in Nat /\ k =< Len(JobList)
<1>1. JobList \in Seq(Jobs)
  BY ListAssumption
<1> QED
  BY <1>1

(* Its current position, while there is one, has a job.                    *)
LEMMA PosJob ==
  ASSUME PlaceOK, pos =< Len(JobList)
  PROVE  pos \in DOMAIN JobList /\ JobList[pos] \in Jobs
<1>1. JobList \in Seq(Jobs)
  BY ListAssumption
<1> QED
  BY <1>1 DEF PlaceOK

(* A prediction changes a priority and nothing else of the jobs.           *)
LEMMA ClampedKeeps ==
  ASSUME job \in [Jobs -> Descriptions], NEW c \in Clusters, NEW j \in Jobs
  PROVE  /\ Clamped(c, j) \in [Jobs -> Descriptions]
         /\ \A k \in Jobs : /\ Clamped(c, j)[k].submit = job[k].submit
                            /\ Clamped(c, j)[k].procs = job[k].procs
                            /\ Clamped(c, j)[k].service = job[k].service
<1>1. Levels[c] \in Nat \ {0}
  BY SizesAssumption
<1>2. job[j].priority \in Nat
  BY DEF Descriptions
<1> QED
  BY <1>1, <1>2 DEF Clamped, Descriptions

-----------------------------------------------------------------------------
(* The invariant holds at first.                                           *)
LEMMA InitHolds == Init => MetaInv
<1> SUFFICES ASSUME Init PROVE MetaInv
  OBVIOUS
<1> USE DEF Init
<1>1. job \in [Jobs -> Descriptions]
  BY WorkloadsAssumption
<1>2. JobsOK
  BY <1>1, SortedAssumption DEF JobsOK
<1>3. PlaceOK
  BY ClustersAssumption DEF PlaceOK, States, Clusters
<1>4. MailTyped /\ OneMessage
  BY DEF MailTyped, OneMessage, Waiting, NoneAt, Asked
<1>5. WinnerOK /\ SentOK
  BY DEF WinnerOK, SentOK
<1>6. TimeOK
  <2> SUFFICES ASSUME NEW k \in DOMAIN JobList PROVE last =< job[JobList[k]].submit
    BY LateAssumption DEF TimeOK
  <2>1. job[JobList[k]] \in Descriptions
    BY <1>1, ListJob
  <2> QED
    BY <2>1 DEF Descriptions
<1> QED
  BY <1>2, <1>3, <1>4, <1>5, <1>6 DEF MetaInv

(* What a cluster does by itself, and nothing.                             *)
LEMMA OthersKeep ==
  ASSUME MetaInv, UNCHANGED <<clock, late, job, metaVars, mailVars>>
  PROVE  MetaInv'
<1> USE DEF MetaInv, metaVars, mailVars
<1>1. JobsOK' /\ PlaceOK' /\ MailTyped'
  BY DEF JobsOK, PlaceOK, MailTyped
<1>2. OneMessage'
  BY DEF OneMessage, Waiting, NoneAt, Asked, GoodQuestion, GoodAnswer, Holds, About
<1>3. WinnerOK' /\ SentOK' /\ TimeOK'
  BY DEF WinnerOK, WinnerHolds, SentOK, TimeOK, Holds
<1> QED
  BY <1>1, <1>2, <1>3

(* Time passes while metaSched sleeps, while there is a message, or after  *)
(* its end.                                                                *)
LEMMA TickKeeps ==
  ASSUME MetaInv, Tick
  PROVE  MetaInv'
<1> USE DEF MetaInv, metaVars, mailVars
<1>1. /\ clock' = clock + 1
      /\ UNCHANGED <<job, metaVars, mailVars>>
      /\ mpc = "sleep" => clock < wake /\ late' = late
      /\ mpc # "sleep" /\ (Sending \/ Mail) => late < MaxLate /\ late' = late + 1
      /\ mpc # "sleep" /\ ~ (Sending \/ Mail) => late' = late
  BY DEF Tick
<1>2. JobsOK' /\ PlaceOK' /\ MailTyped'
  BY <1>1 DEF JobsOK, PlaceOK, MailTyped
<1>3. OneMessage'
  BY <1>1 DEF OneMessage, Waiting, NoneAt, Asked, GoodQuestion, GoodAnswer, Holds, About
<1>4. WinnerOK' /\ SentOK'
  BY <1>1 DEF WinnerOK, WinnerHolds, SentOK, Holds
<1>5. mpc \in {"init", "inform", "ask", "answer", "send"} => Sending \/ Mail
  <2>1. Waiting => Mail
    BY DEF OneMessage, Mail, Asked, PlaceOK
  <2> QED
    BY <2>1 DEF Sending, Waiting
<1>6. TimeOK'
  <2>1. mpc \in {"sleep", "send"} => job[JobList[pos]].submit \in Nat
    BY PosJob DEF JobsOK, Descriptions, PlaceOK
  <2>2. clock \in Nat /\ late \in 0 .. MaxLate /\ MaxLate \in Nat
    BY LateAssumption DEF TimeOK
  <2>3. clock' \in Nat /\ late' \in 0 .. MaxLate
    BY <1>1, <2>2
  <2>4. CASE mpc = "sleep"
    BY <1>1, <2>1, <2>2, <2>3, <2>4 DEF TimeOK
  <2>5. CASE mpc \in {"init", "inform", "ask", "answer", "send"}
    <3>1. late' = late + 1
      BY <1>1, <1>5, <2>5
    <3> QED
      BY <1>1, <2>1, <2>2, <2>3, <2>5, <3>1 DEF TimeOK
  <2>6. CASE mpc = "end"
    BY <1>1, <2>3, <2>6 DEF TimeOK
  <2> QED
    BY <2>4, <2>5, <2>6 DEF PlaceOK, States
<1> QED
  BY <1>2, <1>3, <1>4, <1>6
-----------------------------------------------------------------------------
(* The fields the invariant speaks of.                                     *)
SameJobs ==
  /\ job' \in [Jobs -> Descriptions]
  /\ \A k \in Jobs : /\ job'[k].submit = job[k].submit
                      /\ job'[k].procs = job[k].procs
                      /\ job'[k].service = job[k].service

(* A step that keeps the jobs' data keeps what is said of them here.       *)
LEMMA JobsStay ==
  ASSUME JobsOK, SameJobs
  PROVE  /\ JobsOK'
         /\ \A j \in Jobs : job'[j].submit = job[j].submit
         /\ \A c, j : Holds(c, j)' <=> Holds(c, j)
<1>1. JobsOK'
  BY ListJob DEF JobsOK, SameJobs
<1> QED
  BY <1>1 DEF SameJobs, Holds

(* The conjuncts that speak of metaSched only.                             *)
LEMMA MetaStays ==
  ASSUME MetaInv, SameJobs, UNCHANGED <<clock, late, metaVars>>
  PROVE  JobsOK' /\ PlaceOK' /\ WinnerOK' /\ TimeOK' /\ About' = About
<1> USE DEF metaVars
<1>1. JobsOK' /\ PlaceOK' /\ About' = About
  BY JobsStay DEF MetaInv, PlaceOK, About
<1>2. WinnerOK'
  BY JobsStay DEF MetaInv, WinnerOK, WinnerHolds
<1>3. TimeOK'
  <2>1. \A k \in DOMAIN JobList : job'[JobList[k]].submit = job[JobList[k]].submit
    BY ListJob, JobsStay DEF MetaInv
  <2>2. mpc \in {"sleep", "send"} => pos \in DOMAIN JobList
    BY PosJob DEF MetaInv, PlaceOK
  <2> QED
    BY <2>1, <2>2 DEF MetaInv, TimeOK
<1> QED
  BY <1>1, <1>2, <1>3

(* An answer on its way from the batch to metaSched.                       *)
LEMMA RelayKeeps ==
  ASSUME MetaInv, NEW c \in Clusters, SedRelay(c)
  PROVE  MetaInv'
<1> USE DEF metaVars
<1> PICK a \in sedMail[c] :
      /\ sedMail' = [sedMail EXCEPT ![c] = @ \ {a}]
      /\ metaMail' = metaMail \cup {a}
      /\ UNCHANGED <<clock, late, job, clusters, metaVars, batchMail>>
  BY DEF SedRelay
<1>1. SameJobs
  BY DEF SameJobs, MetaInv, JobsOK
<1>2. JobsOK' /\ PlaceOK' /\ WinnerOK' /\ TimeOK' /\ About' = About
  BY <1>1, MetaStays
<1>3. SentOK' /\ MailTyped'
  BY DEF MetaInv, SentOK, Holds, MailTyped
<1>4. c = at /\ Waiting
  BY DEF MetaInv, OneMessage, NoneAt
<1>5. Asked(at) = {} /\ sedMail[at] = {a} /\ metaMail = {} /\ GoodAnswer(a)
  BY <1>4 DEF MetaInv, OneMessage, Waiting
<1>6. sedMail'[at] = {} /\ metaMail' = {a} /\ Asked(at)' = {} /\ GoodAnswer(a)'
  BY <1>4, <1>5, <1>2 DEF MetaInv, MailTyped, PlaceOK, Asked, GoodAnswer, Holds
<1>7. \A d \in Clusters : d # at => NoneAt(d)'
  BY <1>4 DEF MetaInv, OneMessage, NoneAt, Asked, MailTyped
<1>8. OneMessage'
  BY <1>4, <1>6, <1>7 DEF OneMessage, Waiting
<1> QED
  BY <1>2, <1>3, <1>8 DEF MetaInv

(* A question a batch answers: q leaves its mail and a comes out.          *)
LEMMA AnswerKeeps ==
  ASSUME MetaInv, SameJobs, NEW c \in Clusters, NEW q \in Asked(c), NEW a,
         BatchTakes(c, q), Reply(c, a), GoodAnswer(a)'
  PROVE  MetaInv'
<1> USE DEF metaVars
<1>0. /\ q \in batchMail[c] /\ q.name # "SB_TASK"
      /\ batchMail' = [batchMail EXCEPT ![c] = @ \ {q}]
      /\ sedMail' = [sedMail EXCEPT ![c] = @ \cup {a}]
      /\ UNCHANGED <<clock, late, metaVars, metaMail>>
  BY DEF BatchTakes, Reply, Asked
<1>2. JobsOK' /\ PlaceOK' /\ WinnerOK' /\ TimeOK' /\ About' = About
  BY <1>0, MetaStays
<1>3. SentOK' /\ MailTyped'
  BY <1>0, JobsStay DEF MetaInv, SentOK, MailTyped
<1>4. c = at /\ Waiting
  BY DEF MetaInv, OneMessage, NoneAt
<1>5. Asked(at) = {q} /\ sedMail[at] = {} /\ metaMail = {}
  BY <1>4 DEF MetaInv, OneMessage
<1>6. Asked(at)' = {} /\ sedMail'[at] = {a} /\ metaMail' = {}
  BY <1>0, <1>4, <1>5 DEF MetaInv, MailTyped, Asked
<1>7. \A d \in Clusters : d # at => NoneAt(d)'
  BY <1>0, <1>4 DEF MetaInv, OneMessage, NoneAt, Asked, MailTyped
<1>8. OneMessage'
  BY <1>0, <1>4, <1>6, <1>7 DEF OneMessage, Waiting
<1> QED
  BY <1>2, <1>3, <1>8 DEF MetaInv

(* What is under way to a batch is the question of the place metaSched is. *)
LEMMA AskedIsAsked ==
  ASSUME MetaInv, NEW c \in Clusters, NEW q \in Asked(c)
  PROVE  c = at /\ Waiting /\ GoodQuestion(q)
  BY DEF MetaInv, OneMessage, NoneAt

(* A batch answers PF_INIT.                                                *)
LEMMA InitPfKeeps ==
  ASSUME MetaInv, NEW c \in Clusters, NEW q \in batchMail[c], InitPf(c, q)
  PROVE  MetaInv'
<1>1. q \in Asked(c) /\ q.name = "PF_INIT"
  BY DEF InitPf, Asked
<1>2. c = at /\ Waiting /\ GoodQuestion(q)
  BY <1>1, AskedIsAsked
<1>3. mpc = "inform" /\ q.job = NoJob
  BY <1>1, <1>2 DEF GoodQuestion, Waiting, About
<1>4. SameJobs
  BY DEF InitPf, SameJobs, MetaInv, JobsOK
<1>5. GoodAnswer(Answer("SB_INIT", c, q.job, Size[c]))'
  BY <1>2, <1>3 DEF InitPf, BatchTakes, metaVars, GoodAnswer, Answer, About
<1>6. BatchTakes(c, q) /\ Reply(c, Answer("SB_INIT", c, q.job, Size[c]))
  BY DEF InitPf
<1> QED
  BY <1>1, <1>4, <1>5, <1>6, AnswerKeeps

(* A batch answers SED_PRED.                                               *)
LEMMA PredictKeeps ==
  ASSUME MetaInv, NEW c \in Clusters, NEW q \in batchMail[c], PredictSchedule(c, q)
  PROVE  MetaInv'
<1>1. q \in Asked(c) /\ q.name = "SED_PRED"
  BY DEF PredictSchedule, Asked
<1>2. c = at /\ Waiting /\ GoodQuestion(q)
  BY <1>1, AskedIsAsked
<1>3. mpc = "answer" /\ q.job = JobList[pos]
  BY <1>1, <1>2 DEF GoodQuestion, Waiting, About
<1>4. q.job \in Jobs
  BY <1>3, PosJob DEF MetaInv, PlaceOK
<1>5. BatchTakes(c, q) /\ UNCHANGED <<mpc, at, pos>>
  BY DEF PredictSchedule, BatchTakes, metaVars
<1>6. CASE job[q.job].procs =< Size[c]
  <2> PICK date : date = FirstSlot(c, q.job)
    OBVIOUS
  <2> DEFINE a == Answer("SB_PRED", c, q.job, date)
  <2>1. Reply(c, a) /\ job' = Clamped(c, q.job)
    BY <1>6 DEF PredictSchedule
  <2>2. SameJobs
    BY <2>1, <1>4, ClampedKeeps DEF SameJobs, MetaInv, JobsOK
  <2>3. Holds(c, q.job)
    BY <1>2, <1>3, <1>4, <1>6 DEF Holds, GoodQuestion
  <2>4. Holds(c, q.job)'
    BY <2>2, <2>3, JobsStay DEF MetaInv
  <2>5. GoodAnswer(a)'
    BY <2>4, <1>2, <1>3, <1>5 DEF GoodAnswer, Answer, About
  <2> HIDE DEF a
  <2> QED
    BY <1>1, <1>5, <2>1, <2>2, <2>5, AnswerKeeps
<1>7. CASE ~ (job[q.job].procs =< Size[c])
  <2> DEFINE a == Answer("SB_CLUSTER_KO", c, q.job, 0)
  <2>1. Reply(c, a) /\ UNCHANGED job
    BY <1>7 DEF PredictSchedule
  <2>2. SameJobs
    BY <2>1 DEF SameJobs, MetaInv, JobsOK
  <2>3. GoodAnswer(a)'
    BY <1>2, <1>3, <1>5 DEF GoodAnswer, Answer, About
  <2> HIDE DEF a
  <2> QED
    BY <1>1, <1>5, <2>1, <2>2, <2>3, AnswerKeeps
<1> QED
  BY <1>6, <1>7

(* A batch takes an SB_TASK.                                               *)
LEMMA ScheduleKeeps ==
  ASSUME MetaInv, NEW c \in Clusters, NEW q \in batchMail[c], ScheduleTask(c, q)
  PROVE  MetaInv'
<1> USE DEF metaVars
<1>1. /\ q.name = "SB_TASK"
      /\ batchMail' = [batchMail EXCEPT ![c] = @ \ {q}]
      /\ UNCHANGED <<clock, late, metaVars, metaMail, sedMail>>
  BY DEF ScheduleTask, BatchTakes
<1>2. q.job \in Jobs
  BY <1>1 DEF MetaInv, SentOK, Holds
<1>3. SameJobs
  BY <1>2, ClampedKeeps DEF ScheduleTask, SameJobs, MetaInv, JobsOK
<1>4. JobsOK' /\ PlaceOK' /\ WinnerOK' /\ TimeOK' /\ About' = About
  BY <1>1, <1>3, MetaStays
<1>5. SentOK' /\ MailTyped'
  BY <1>1, <1>3, JobsStay DEF MetaInv, SentOK, MailTyped
<1>6. \A d \in Clusters : Asked(d)' = Asked(d)
  BY <1>1 DEF MetaInv, MailTyped, Asked
<1>7. /\ \A x : GoodQuestion(x) => GoodQuestion(x)'
      /\ \A x : GoodAnswer(x) => GoodAnswer(x)'
  <2>1. \A x : x.job = JobList[pos] /\ mpc = "answer" => x.job \in Jobs
    BY PosJob DEF MetaInv, PlaceOK
  <2>2. \A x : GoodQuestion(x) => GoodQuestion(x)'
    BY <1>1, <1>3, <1>4, <2>1 DEF GoodQuestion, SameJobs, About
  <2>3. \A x : GoodAnswer(x) => GoodAnswer(x)'
    BY <1>1, <1>3, <1>4, JobsStay DEF GoodAnswer, MetaInv
  <2> QED
    BY <2>2, <2>3
<1>8. OneMessage'
  <2>1. \A d \in Clusters : NoneAt(d) => NoneAt(d)'
    BY <1>1, <1>6 DEF NoneAt
  <2>2. at \in Clusters /\ Asked(at)' = Asked(at)
    BY <1>1, <1>6 DEF MetaInv, PlaceOK, Asked
  <2> QED
    BY <1>1, <1>7, <2>1, <2>2 DEF MetaInv, OneMessage, Waiting
<1> QED
  BY <1>4, <1>5, <1>8 DEF MetaInv

-----------------------------------------------------------------------------
(* metaSched.                                                              *)

(* Sleeping until the submit time of its job.                              *)
LEMMA WakeUpKeeps ==
  ASSUME MetaInv, WakeUp
  PROVE  MetaInv'
<1> USE DEF WakeUp, mailVars
<1>1. JobsOK' /\ PlaceOK' /\ MailTyped' /\ SentOK'
  BY DEF MetaInv, JobsOK, PlaceOK, States, MailTyped, SentOK, Holds
<1>2. OneMessage'
  BY DEF MetaInv, OneMessage, Waiting, NoneAt, Asked
<1>3. WinnerOK'
  BY DEF MetaInv, WinnerOK, WinnerHolds, Holds
<1>4. clock = wake
  <2>1. wake \in Nat
    <3>1. job[JobList[pos]].submit \in Nat
      BY PosJob DEF MetaInv, JobsOK, Descriptions, PlaceOK
    <3> QED
      BY <3>1, LateAssumption DEF MetaInv, TimeOK
  <2> QED
    BY <2>1 DEF MetaInv, TimeOK
<1>5. TimeOK'
  BY <1>4 DEF MetaInv, TimeOK
<1> QED
  BY <1>1, <1>2, <1>3, <1>5 DEF MetaInv

(* The answer of getNbNodesPF is taken, and no other message is left.      *)
LEMMA Emptied ==
  ASSUME MetaInv, Waiting, NEW a \in metaMail, metaMail' = metaMail \ {a},
         UNCHANGED <<sedMail, batchMail>>
  PROVE  GoodAnswer(a) /\ metaMail' = {} /\ \A c \in Clusters : NoneAt(c)'
<1>1. GoodAnswer(a) /\ metaMail = {a} /\ NoneAt(at)
  BY DEF MetaInv, OneMessage, NoneAt
<1>2. \A c \in Clusters : NoneAt(c)
  BY <1>1 DEF MetaInv, OneMessage
<1> QED
  BY <1>1, <1>2 DEF NoneAt, Asked

(* The loop goes on with job p: what the invariant says of metaSched then. *)
LEMMA NextJobHolds ==
  ASSUME NEW p \in Nat \ {0}, NextJob(p)
  PROVE  PlaceOK' /\ WinnerOK' /\ ~ Waiting' /\ mpc' \in {"ask", "end"} /\ pos' = p
<1>1. JobList \in Seq(Jobs)
  BY ListAssumption
<1> QED
  BY <1>1, ClustersAssumption
     DEF NextJob, PlaceOK, WinnerOK, Waiting, States, Clusters

(* metaSched takes a number of nodes.                                      *)
LEMMA InformKeeps ==
  ASSUME MetaInv, Inform
  PROVE  MetaInv'
<1> PICK a \in metaMail : metaMail' = metaMail \ {a}
  BY DEF Inform
<1>1. mpc = "inform" /\ Waiting /\ pos = 1
  BY DEF Inform, Waiting, MetaInv, PlaceOK
<1>2. UNCHANGED <<clock, late, job, last, wake, sedMail, batchMail>>
  BY DEF Inform
<1>3. metaMail' = {} /\ \A c \in Clusters : NoneAt(c)'
  BY <1>1, <1>2, Emptied
<1>4. JobsOK' /\ MailTyped' /\ SentOK'
  BY <1>2 DEF MetaInv, JobsOK, MailTyped, SentOK, Holds
<1>5. PlaceOK' /\ WinnerOK' /\ ~ Waiting' /\ mpc' \in {"init", "ask", "end"} /\ pos' = 1
  <2>1. CASE at = NbClusters
    BY <2>1, NextJobHolds DEF Inform
  <2>2. CASE at # NbClusters
    BY <1>1, <2>2, ClustersAssumption
       DEF Inform, MetaInv, PlaceOK, WinnerOK, Waiting, States, Clusters
  <2> QED
    BY <2>1, <2>2
<1>6. OneMessage'
  BY <1>3, <1>5 DEF OneMessage
<1>7. TimeOK'
  BY <1>1, <1>2, <1>5 DEF MetaInv, TimeOK
<1> QED
  BY <1>4, <1>5, <1>6, <1>7 DEF MetaInv

(* A judged answer keeps what is known of the winner.                      *)
LEMMA JudgedHolds ==
  ASSUME MetaInv, mpc = "answer", NEW a, GoodAnswer(a)
  PROVE  LET v == Judged(a)
             winner == v.best.cluster \in Clusters /\ Holds(v.best.cluster, JobList[pos])
         IN  /\ v.failures \in 0 .. at
             /\ v.best = NoWinner \/ winner
             /\ v.failures < at => winner
<1>1. at \in Nat /\ at >= 1
  BY ClustersAssumption DEF MetaInv, PlaceOK, Clusters
<1>2. /\ failures \in 0 .. at - 1
      /\ (best = NoWinner \/ WinnerHolds) /\ (failures < at - 1 => WinnerHolds)
  BY DEF MetaInv, WinnerOK
<1>3. CASE a.name = "SB_PRED"
  <2>1. a.from \in Clusters /\ Holds(a.from, JobList[pos])
    BY <1>3 DEF GoodAnswer, MetaInv, PlaceOK, About
  <2>2. Judged(a).failures = failures
    BY <1>3 DEF Judged
  <2>3. \/ Judged(a).best.cluster = a.from
        \/ best # NoWinner /\ Judged(a).best = best
    BY <1>3 DEF Judged
  <2> QED
    BY <1>1, <1>2, <2>1, <2>2, <2>3 DEF WinnerHolds
<1>4. CASE a.name # "SB_PRED"
  <2>1. Judged(a).failures = failures + 1 /\ Judged(a).best = best
    BY <1>4 DEF Judged
  <2> QED
    BY <1>1, <1>2, <2>1 DEF WinnerHolds
<1> QED
  BY <1>3, <1>4

(* metaSched takes a prediction or a refusal.                              *)
LEMMA TakeAnswerKeeps ==
  ASSUME MetaInv, TakeAnswer
  PROVE  MetaInv'
<1> PICK a \in metaMail :
      LET v == Judged(a)
      IN  /\ metaMail' = metaMail \ {a}
          /\ \/ /\ at < NbClusters
                /\ mpc' = "ask" /\ at' = at + 1
                /\ best' = v.best /\ failures' = v.failures
                /\ UNCHANGED <<pos, last, wake>>
             \/ /\ at = NbClusters /\ v.failures = NbClusters
                /\ Drop
             \/ /\ at = NbClusters /\ v.failures # NbClusters
                /\ mpc' = "sleep"
                /\ wake' = clock + (job[JobList[pos]].submit - last)
                /\ best' = v.best /\ failures' = v.failures
                /\ UNCHANGED <<pos, at, last>>
  BY DEF TakeAnswer
<1>1. mpc = "answer" /\ Waiting
  BY DEF TakeAnswer, Waiting
<1>2. UNCHANGED <<clock, late, job, sedMail, batchMail>>
  BY DEF TakeAnswer
<1>3. GoodAnswer(a) /\ metaMail' = {} /\ \A c \in Clusters : NoneAt(c)'
  BY <1>1, <1>2, Emptied
<1>4. JobsOK' /\ MailTyped' /\ SentOK'
  BY <1>2 DEF MetaInv, JobsOK, MailTyped, SentOK, Holds
<1> DEFINE v == Judged(a)
           winner == v.best.cluster \in Clusters /\ Holds(v.best.cluster, JobList[pos])
<1>5. /\ v.failures \in 0 .. at
      /\ v.best = NoWinner \/ winner
      /\ v.failures < at => winner
  BY <1>1, <1>3, JudgedHolds
<1>6. /\ NbClusters \in Nat /\ at \in 1 .. NbClusters
      /\ pos \in Nat \ {0} /\ pos =< Len(JobList)
      /\ pos \in DOMAIN JobList /\ JobList[pos] \in Jobs
  BY <1>1, PosJob, ClustersAssumption DEF MetaInv, PlaceOK, Clusters
<1> HIDE DEF v
<1>7. CASE at < NbClusters
  <2>1. /\ mpc' = "ask" /\ at' = at + 1 /\ best' = v.best /\ failures' = v.failures
        /\ UNCHANGED <<pos, last, wake>>
    BY <1>7, <1>6 DEF v
  <2>2. PlaceOK'
    BY <2>1, <1>6, <1>7 DEF PlaceOK, States, Clusters
  <2>3. WinnerOK'
    BY <2>1, <1>2, <1>5, <1>6 DEF WinnerOK, WinnerHolds, Holds
  <2>4. OneMessage'
    BY <1>3, <2>1 DEF OneMessage, Waiting
  <2>5. TimeOK'
    BY <1>1, <1>2, <2>1 DEF MetaInv, TimeOK
  <2> QED
    BY <1>4, <2>2, <2>3, <2>4, <2>5 DEF MetaInv
<1>8. CASE at = NbClusters /\ v.failures = NbClusters
  <2>1. NextJob(pos + 1) /\ UNCHANGED <<last, wake>>
    BY <1>8, <1>6 DEF v, Drop
  <2>2. PlaceOK' /\ WinnerOK' /\ ~ Waiting' /\ mpc' \in {"ask", "end"} /\ pos' = pos + 1
    BY <2>1, <1>6, NextJobHolds
  <2>3. OneMessage'
    BY <1>3, <2>2 DEF OneMessage
  <2>4. TimeOK'
    <3>1. \A k \in DOMAIN JobList : k \in Nat
      BY ListJob
    <3> QED
      BY <1>1, <1>2, <1>6, <2>1, <2>2, <3>1 DEF MetaInv, TimeOK
  <2> QED
    BY <1>4, <2>2, <2>3, <2>4 DEF MetaInv
<1>9. CASE at = NbClusters /\ v.failures # NbClusters
  <2>1. /\ mpc' = "sleep" /\ wake' = clock + (job[JobList[pos]].submit - last)
        /\ best' = v.best /\ failures' = v.failures /\ UNCHANGED <<pos, at, last>>
    BY <1>9, <1>6 DEF v
  <2>2. PlaceOK'
    BY <2>1, <1>6 DEF MetaInv, PlaceOK, States
  <2>3. winner
    BY <1>5, <1>6, <1>9
  <2>4. WinnerOK'
    BY <2>1, <2>3, <1>2 DEF WinnerOK, WinnerHolds, Holds
  <2>5. OneMessage'
    BY <1>3, <2>1 DEF OneMessage, Waiting
  <2>6. TimeOK'
    <3>1. /\ clock = last + late /\ clock \in Nat /\ last \in Nat /\ late \in Nat
          /\ last =< job[JobList[pos]].submit
      BY <1>1, <1>6, LateAssumption DEF MetaInv, TimeOK
    <3>2. job[JobList[pos]].submit \in Nat
      BY <1>6 DEF MetaInv, JobsOK, Descriptions
    <3>3. wake' = job[JobList[pos]].submit + late /\ clock =< wake'
      BY <2>1, <3>1, <3>2
    <3> QED
      BY <1>1, <1>2, <2>1, <3>3 DEF MetaInv, TimeOK
  <2> QED
    BY <1>4, <2>2, <2>4, <2>5, <2>6 DEF MetaInv
<1> QED
  BY <1>6, <1>7, <1>8, <1>9

(* The sed of c takes a question, which goes on to the batch or is refused;*)
(* or it takes the job, which always goes on, as the winner can run it.    *)
LEMMA SedReceiveKeeps ==
  ASSUME MetaInv, NEW c \in Clusters, SedReceive(c)
  PROVE  MetaInv'
<1>1. Sending /\ c = Target /\ Forward(c, Sent) /\ UNCHANGED <<clock, late, job, wake, sedMail>>
  BY DEF SedReceive
<1>2. ~ Waiting /\ mpc \in {"init", "ask", "send"}
  BY <1>1 DEF Sending, Waiting
<1>3. \A d \in Clusters : NoneAt(d)
  BY <1>2 DEF MetaInv, OneMessage
<1>4. metaMail = {}
  BY <1>2 DEF MetaInv, OneMessage
<1>5. JobsOK' /\ \A d, j : Holds(d, j)' <=> Holds(d, j)
  BY <1>1 DEF MetaInv, JobsOK, Holds
<1>6. /\ MailTyped'
      /\ \A d \in Clusters : d # c => batchMail'[d] = batchMail[d]
  BY <1>1 DEF Forward, MetaInv, MailTyped
<1>7. \A d \in Clusters : d # c => NoneAt(d)'
  BY <1>1, <1>3, <1>6 DEF NoneAt, Asked
<1>8. CASE mpc = "send"
  <2>1. WinnerHolds /\ c = best.cluster /\ Sent = Question("SB_TASK", JobList[pos])
    BY <1>1, <1>8 DEF MetaInv, WinnerOK, Target, Sent
  <2>2. Available(c, JobList[pos]) /\ Holds(c, JobList[pos])
    BY <2>1 DEF WinnerHolds, Holds, Available
  <2> DEFINE q == Question("SB_TASK", JobList[pos])
  <2>3. q.job = JobList[pos] /\ q.name = "SB_TASK"
    BY DEF Question
  <2>4. batchMail'[c] = batchMail[c] \cup {q} /\ UNCHANGED metaMail
    BY <1>1, <2>1, <2>2, <2>3 DEF Forward, MetaInv, MailTyped
  <2>5. SentOK'
    BY <1>5, <1>6, <2>2, <2>3, <2>4 DEF MetaInv, SentOK
  <2>6. NoneAt(c)'
    BY <1>1, <1>3, <2>3, <2>4 DEF NoneAt, Asked
  <2>7. NextJob(pos + 1) /\ last' = job[JobList[pos]].submit
    BY <1>8 DEF SedReceive
  <2>8. pos \in Nat \ {0} /\ pos \in DOMAIN JobList /\ JobList[pos] \in Jobs
    BY <1>8, PosJob DEF MetaInv, PlaceOK
  <2>9. PlaceOK' /\ WinnerOK' /\ ~ Waiting' /\ mpc' \in {"ask", "end"} /\ pos' = pos + 1
    BY <2>7, <2>8, NextJobHolds
  <2>10. OneMessage'
    BY <1>4, <1>7, <2>4, <2>6, <2>9 DEF OneMessage
  <2>11. TimeOK'
    <3>1. /\ clock = job[JobList[pos]].submit + late
          /\ clock \in Nat /\ late \in 0 .. MaxLate
          /\ job[JobList[pos]].submit \in Nat
      BY <1>8, <2>8 DEF MetaInv, TimeOK, JobsOK, Descriptions
    <3>2. ASSUME NEW k \in DOMAIN JobList, k >= pos + 1
          PROVE  job[JobList[pos]].submit =< job[JobList[k]].submit
      BY <2>8, <3>2, ListJob DEF MetaInv, JobsOK
    <3> QED
      BY <1>1, <2>7, <2>9, <3>1, <3>2 DEF TimeOK
  <2> QED
    BY <1>5, <1>6, <2>5, <2>9, <2>10, <2>11 DEF MetaInv
<1>9. CASE mpc # "send"
  <2>1. /\ mpc' = IF mpc = "init" THEN "inform" ELSE "answer"
        /\ UNCHANGED <<pos, at, best, failures, last>>
    BY <1>9 DEF SedReceive
  <2>2. c = at /\ PlaceOK' /\ Waiting'
    BY <1>1, <1>2, <1>9, <2>1 DEF Target, MetaInv, PlaceOK, States, Waiting
  <2>3. WinnerOK' /\ TimeOK'
    BY <1>1, <1>2, <1>9, <2>1 DEF MetaInv, WinnerOK, WinnerHolds, TimeOK, Holds
  <2> DEFINE q == Sent
  <2>4. /\ q.name # "SB_TASK" /\ q.job = About'
        /\ mpc' = "answer" => q.name = "SED_PRED" /\ q.job \in Jobs
        /\ mpc' = "inform" => q.name = "PF_INIT" /\ q.job = NoJob
    BY <1>2, <1>9, <2>1, PosJob DEF Sent, Question, About, MetaInv, PlaceOK
  <2>5. PICK r : r = q
    OBVIOUS
  <2> HIDE DEF q
  <2>6. CASE Available(c, r.job)
    <3>1. batchMail'[c] = batchMail[c] \cup {r} /\ metaMail' = {}
      BY <1>1, <1>4, <2>5, <2>6 DEF q, Forward, MetaInv, MailTyped
    <3>2. Asked(c)' = {r} /\ sedMail'[c] = {}
      BY <1>1, <1>3, <2>4, <2>5, <3>1 DEF NoneAt, Asked
    <3>3. GoodQuestion(r)'
      BY <1>1, <2>1, <2>2, <2>4, <2>5, <2>6, NoJobAssumption DEF GoodQuestion, Available
    <3>4. OneMessage'
      BY <1>7, <2>1, <2>2, <3>1, <3>2, <3>3 DEF OneMessage
    <3>5. SentOK'
      BY <1>5, <1>6, <2>4, <2>5, <3>1 DEF MetaInv, SentOK
    <3> QED
      BY <1>5, <1>6, <2>2, <2>3, <3>4, <3>5 DEF MetaInv
  <2>7. CASE ~ Available(c, r.job)
    <3> DEFINE a == Answer("SB_SERVICE_KO", c, r.job, 0)
    <3>1. metaMail' = {a} /\ UNCHANGED batchMail
      BY <1>1, <1>4, <2>5, <2>7 DEF q, Forward
    <3>2. NoneAt(c)'
      BY <1>1, <1>3, <3>1 DEF NoneAt, Asked
    <3>3. GoodAnswer(a)'
      BY <2>1, <2>2, <2>4, <2>5 DEF GoodAnswer, Answer
    <3> HIDE DEF a
    <3>4. OneMessage'
      BY <1>7, <2>1, <2>2, <3>1, <3>2, <3>3 DEF OneMessage, NoneAt
    <3>5. SentOK'
      BY <1>5, <3>1 DEF MetaInv, SentOK
    <3> QED
      BY <1>5, <1>6, <2>2, <2>3, <3>4, <3>5 DEF MetaInv
  <2> QED
    BY <2>6, <2>7
<1> QED
  BY <1>8, <1>9

-----------------------------------------------------------------------------
(* Every step keeps the invariant.                                         *)
LEMMA StepKeeps == MetaInv /\ [Next]_vars => MetaInv'
<1> SUFFICES ASSUME MetaInv, [Next]_vars PROVE MetaInv'
  OBVIOUS
<1>1. CASE \E c \in Clusters : SedReceive(c)
  BY <1>1, SedReceiveKeeps
<1>2. CASE \E c \in Clusters : SedRelay(c)
  BY <1>2, RelayKeeps
<1>3. CASE \E c \in Clusters : BatchHandle(c)
  BY <1>3, InitPfKeeps, PredictKeeps, ScheduleKeeps DEF BatchHandle
<1>4. CASE Inform
  BY <1>4, InformKeeps
<1>5. CASE TakeAnswer
  BY <1>5, TakeAnswerKeeps
<1>6. CASE WakeUp
  BY <1>6, WakeUpKeeps
<1>7. CASE \E c \in Clusters, j \in Jobs : StartJob(c, j) \/ FinishJob(c, j)
  BY <1>7, OthersKeep DEF StartJob, FinishJob
<1>8. CASE Tick
  BY <1>8, TickKeeps
<1>9. CASE UNCHANGED vars
  BY <1>9, OthersKeep DEF vars, metaVars, mailVars
<1> QED
  BY <1>1, <1>2, <1>3, <1>4, <1>5, <1>6, <1>7, <1>8, <1>9 DEF Next, Step, Terminated

(* It always holds.                                                        *)
LEMMA Invariance == Spec => []MetaInv
<1>1. Init => MetaInv
  BY InitHolds
<1>2. MetaInv /\ [Next]_vars => MetaInv'
  BY StepKeeps
<1> QED
  BY <1>1, <1>2, PTL DEF Spec

(***************************************************************************)
(* Whatever the clusters, their plugins and the jobs: the only answer under*)
(* way is the one metaSched waits for, although no answer says what it     *)
(* answers (main.c:106, algos.c:49).                                       *)
(***************************************************************************)
THEOREM AnswersMatch == Spec => []AnswerMatches
<1>1. MetaInv => AnswerMatches
  <2> SUFFICES ASSUME MetaInv PROVE AnswerMatches
    OBVIOUS
  <2> DEFINE asked == {q \in Questions : q.name # "SB_TASK"}
  <2>1. asked = UNION {Asked(c) : c \in Clusters}
    BY DEF Questions, Asked
  <2>2. /\ at \in Clusters
        /\ \A c \in Clusters : c # at \/ ~ Waiting => Asked(c) = {} /\ sedMail[c] = {}
    BY DEF MetaInv, OneMessage, NoneAt, PlaceOK
  <2>3. Cardinality({}) = 0 /\ \A x : Cardinality({x}) = 1
    BY FS_EmptySet, FS_Singleton
  <2>4. CASE ~ Waiting
    <3>1. asked = {}
      BY <2>1, <2>2, <2>4
    <3>2. Answers = {}
      BY <2>2, <2>4 DEF Answers, MetaInv, OneMessage
    <3> HIDE DEF asked
    <3>3. Cardinality(Answers) + Cardinality(asked) = 0
      BY <2>3, <3>1, <3>2
    <3> QED
      BY <2>4, <3>2, <3>3 DEF AnswerMatches, Waiting, asked
  <2>5. CASE Waiting
    <3>1. asked = Asked(at)
      BY <2>1, <2>2
    <3>2. Answers = metaMail \cup sedMail[at]
      BY <2>2 DEF Answers
    <3>3. \/ \E q : asked = {q} /\ Answers = {}
          \/ \E a : asked = {} /\ Answers = {a} /\ GoodAnswer(a)
      BY <2>5, <3>1, <3>2 DEF MetaInv, OneMessage
    <3> HIDE DEF asked
    <3>4. Cardinality(Answers) + Cardinality(asked) = 1
      <4>1. \/ Cardinality(asked) = 1 /\ Cardinality(Answers) = 0
            \/ Cardinality(asked) = 0 /\ Cardinality(Answers) = 1
        BY <2>3, <3>3
      <4> QED
        BY <4>1
    <3>5. \A a \in Answers : a.from = at /\ (mpc = "answer" => a.job = JobList[pos])
      BY <3>3 DEF GoodAnswer, About
    <3> QED
      BY <2>5, <3>4, <3>5 DEF AnswerMatches, Waiting, asked
  <2> QED
    BY <2>4, <2>5
<1> QED
  BY <1>1, Invariance, PTL

(***************************************************************************)
(* No batch ever gets a job that it would drop (batch.c:350), or one whose *)
(* service its sed does not offer.                                         *)
(***************************************************************************)
THEOREM AblesOnly == Spec => []SentToAble
<1>1. MetaInv => SentToAble
  BY DEF MetaInv, SentOK, SentToAble, Holds
<1> QED
  BY <1>1, Invariance, PTL

(***************************************************************************)
(* Every job with a winner is sent later than its submit time by exactly   *)
(* the time the messages of all conversations so far have taken: the sleeps*)
(* make up for none of it, and jobs without winner that come between add   *)
(* nothing else (main.c:165).                                              *)
(***************************************************************************)
THEOREM TalkOnly == Spec => LateByTalk
<1>1. MetaInv /\ [Next]_vars =>
        [mpc = "send" /\ mpc' # "send" => clock = job[JobList[pos]].submit + late]_vars
  BY DEF MetaInv, TimeOK
<1> QED
  BY <1>1, Invariance, PTL DEF Spec, LateByTalk

-----------------------------------------------------------------------------
(***************************************************************************)
(* A job is on one cluster.                                                *)
(*                                                                         *)
(* What counts is where a job may come from.  A cluster keeps a job when a *)
(* queue, the reservations or the table holds it; a job is Here when the   *)
(* cluster keeps it or its SB_TASK is under way.  The handlers of a batch  *)
(* add no job but the one of the SB_TASK they take: planning adds slots of *)
(* the job planned, and replanning those of the queues (RescheduleWithin). *)
(* An INIT_PF or SB_PREDICT adds none, so that a job is Here at the winner *)
(* it was sent to and nowhere else (PlacesInv).                            *)
(***************************************************************************)

(* Lemmas about queues of jobs, which no number of nodes plays a part in.  *)
G == INSTANCE GanttProofs WITH NbNodes <- 1

(* What holds at 0 and is kept by a step holds up to n.                    *)
LEMMA Along ==
  ASSUME NEW n \in Nat, NEW T, NEW f, f[0] \in T,
         \A i \in 1 .. n : f[i - 1] \in T => f[i] \in T
  PROVE  \A i \in 0 .. n : f[i] \in T
BY G!FunctionInduction

(* The nodes of cluster c.                                                 *)
Grid(c) == 1 .. Size[c]

(* g is a table of cluster c, as far as the places of the jobs go.         *)
Shaped(c, g) ==
  /\ DOMAIN g = {"chart", "start", "wall", "nodes", "lead"}
  /\ g.chart \in [Grid(c) -> Seq(Jobs)]

(* x has a slot in g.                                                      *)
Placed(c, g, x) == \E n \in Grid(c) : ~ G!NotIn(g.chart[n], x)

(* h is a table where only jobs of g and of S have slots.                  *)
Within(c, g, h, S) ==
  /\ Shaped(c, h)
  /\ \A x : Placed(c, h, x) => Placed(c, g, x) \/ x \in S

(* The places a bid names are places of the table.                         *)
BidInside(c, g, bid) ==
  \A n \in bid.nodes : n \in Grid(c) => bid.pos[n] \in 1 .. Len(g.chart[n]) + 1

(* fcfs.c adds its slots behind the last ones.                             *)
LEMMA FcfsInside ==
  ASSUME NEW c, NEW g, Shaped(c, g), NEW nb, NEW now
  PROVE  BidInside(c, g, C(c)!FcfsBid(g, nb, now))
<1> DEFINE bid == C(c)!FcfsBid(g, nb, now)
<1>1. ASSUME NEW n \in bid.nodes PROVE bid.pos[n] = Len(g.chart[n]) + 1
  BY DEF C!FcfsBid
<1> HIDE DEF bid
<1>2. ASSUME NEW n \in Grid(c) PROVE Len(g.chart[n]) \in Nat
  <2>1. g.chart[n] \in Seq(Jobs)
    BY DEF Shaped
  <2> QED
    BY <2>1
<1>3. BidInside(c, g, bid)
  BY <1>1, <1>2 DEF BidInside
<1> QED
  BY <1>3 DEF bid

(* cbf.c takes the places the search found.                                *)
LEMMA CbfInside ==
  ASSUME NEW c, NEW g, Shaped(c, g), NEW nb, NEW t, NEW dur
  PROVE  BidInside(c, g, C(c)!CbfBid(g, nb, t, dur))
<1> DEFINE bid == C(c)!CbfBid(g, nb, t, dur)
           date == C(c)!EarliestStart(g, nb, t, dur)
<1>1. ASSUME NEW n \in bid.nodes
      PROVE  n \in C(c)!FreeNodes(g, date, dur) /\ bid.pos[n] = C(c)!SlotPosition(g, n, date, dur)
  BY DEF C!CbfBid, C!Least
<1> HIDE DEF bid, date
<1>2. ASSUME NEW n \in C(c)!FreeNodes(g, date, dur)
      PROVE  C(c)!SlotPosition(g, n, date, dur) \in 1 .. Len(g.chart[n]) + 1
  BY <1>2 DEF C!FreeNodes, C!FreeAt, C!SlotPosition
<1>3. BidInside(c, g, bid)
  BY <1>1, <1>2 DEF BidInside
<1> QED
  BY <1>3 DEF bid

(* So does each plugin.                                                    *)
LEMMA ScheduleInside ==
  ASSUME NEW c, NEW g, Shaped(c, g), NEW plugin, NEW j, NEW nb, NEW now
  PROVE  BidInside(c, g, C(c)!Schedule(plugin, g, j, nb, now))
<1>1. CASE plugin = "fcfs"
  BY <1>1, FcfsInside DEF C!Schedule
<1>2. CASE plugin # "fcfs"
  BY <1>2, CbfInside DEF C!Schedule
<1> QED
  BY <1>1, <1>2

(* accept adds slots of its job, and of no other.                          *)
LEMMA AcceptWithin ==
  ASSUME NEW c, NEW g, Shaped(c, g), NEW j \in Jobs, NEW bid, BidInside(c, g, bid)
  PROVE  Within(c, g, C(c)!Accept(g, j, bid), {j})
<1> DEFINE h == C(c)!Accept(g, j, bid)
<1>1. DOMAIN h = DOMAIN g
  BY DEF C!Accept
<1>2. h.chart = [n \in Grid(c) |-> IF n \in bid.nodes
                                     THEN C(c)!InsertJob(g.chart[n], bid.pos[n], j)
                                     ELSE g.chart[n]]
  BY DEF C!Accept, Shaped, C!Nodes, Grid
<1> HIDE DEF h
<1>3. ASSUME NEW n \in Grid(c)
      PROVE  /\ h.chart[n] \in Seq(Jobs)
             /\ \A x : ~ G!NotIn(h.chart[n], x) => ~ G!NotIn(g.chart[n], x) \/ x = j
  <2>1. g.chart[n] \in Seq(Jobs)
    BY DEF Shaped
  <2>2. CASE n \in bid.nodes
    <3>1. h.chart[n] = G!InsertJob(g.chart[n], bid.pos[n], j)
      BY <1>2, <2>2 DEF C!InsertJob, G!InsertJob
    <3>2. bid.pos[n] \in 1 .. Len(g.chart[n]) + 1
      BY <2>2 DEF BidInside
    <3> QED
      BY <2>1, <3>1, <3>2, G!InsertJobType, G!InsertHolds
  <2>3. CASE n \notin bid.nodes
    BY <1>2, <2>1, <2>3
  <2> QED
    BY <2>2, <2>3
<1>4. h.chart \in [Grid(c) -> Seq(Jobs)]
  BY <1>2, <1>3
<1>5. Within(c, g, h, {j})
  BY <1>1, <1>3, <1>4 DEF Within, Shaped, Placed
<1> QED
  BY <1>5 DEF h

(* The jobs kept of a queue are jobs of the queue.                         *)
LEMMA KeptHeld ==
  ASSUME NEW q \in Seq(Jobs), NEW S
  PROVE  /\ G!Keep(q, S) \in Seq(Jobs)
         /\ \A x : ~ G!NotIn(G!Keep(q, S), x) => ~ G!NotIn(q, x) /\ x \in S
<1>1. PICK f : G!KeepSteps(f, q, S) /\ G!Keep(q, S) = f[Len(q)]
  BY G!KeepIsSteps
<1> DEFINE n == Len(q)
           Good(i) == \A k \in 1 .. Len(f[i]) : f[i][k] \in S /\ ~ G!NotIn(q, f[i][k])
           id == [i \in 0 .. n |-> i]
           T == {i \in 0 .. n : Good(i)}
<1>2. n \in Nat /\ f[0] = <<>> /\ f \in [0 .. n -> Seq(Jobs)]
  BY <1>1 DEF G!KeepSteps
<1>3. Good(0)
  BY <1>2
<1>4. ASSUME NEW i \in 1 .. n, Good(i - 1) PROVE Good(i)
  <2>1. i - 1 \in 0 .. n /\ i \in 0 .. n /\ q[i] \in Jobs
    BY <1>2
  <2>2. f[i - 1] \in Seq(Jobs) /\ f[i] \in Seq(Jobs)
    BY <1>2, <2>1
  <2>3. CASE q[i] \notin S
    <3>1. f[i] = f[i - 1]
      BY <1>1, <2>3 DEF G!KeepSteps
    <3> HIDE DEF n
    <3> QED
      BY <1>4, <3>1
  <2>4. CASE q[i] \in S
    <3>1. f[i] = Append(f[i - 1], q[i])
      BY <1>1, <2>4 DEF G!KeepSteps
    <3>2. ~ G!NotIn(q, q[i])
      BY DEF G!NotIn
    <3> DEFINE r == f[i - 1]
               x == q[i]
    <3>3. r \in Seq(Jobs) /\ x \in Jobs
      BY <2>1, <2>2
    <3>4. \A k \in 1 .. Len(r) : r[k] \in S /\ ~ G!NotIn(q, r[k])
      BY <1>4
    <3> HIDE DEF r, x
    <3>5. \A k \in 1 .. Len(Append(r, x)) : 
          \/ Append(r, x)[k] = x
          \/ k \in 1 .. Len(r) /\ Append(r, x)[k] = r[k]
      BY <3>3
    <3> HIDE DEF n
    <3>6. x \in S /\ ~ G!NotIn(q, x)
      BY <2>4, <3>2 DEF x
    <3>7. \A k \in 1 .. Len(Append(r, x)) : Append(r, x)[k] \in S /\ ~ G!NotIn(q, Append(r, x)[k])
      BY <3>4, <3>5, <3>6
    <3> QED
      BY <3>1, <3>7 DEF r, x
  <2> QED
    BY <2>3, <2>4
<1>5. \A i \in 0 .. n : id[i] \in T
  <2> HIDE DEF Good, n
  <2>1. id[0] \in T
    BY <1>2, <1>3
  <2>2. ASSUME NEW i \in 1 .. n, id[i - 1] \in T PROVE id[i] \in T
    <3>1. i - 1 \in 0 .. n /\ i \in 0 .. n
      BY <1>2
    <3> QED
      BY <1>4, <2>2, <3>1
  <2> HIDE DEF id, T
  <2> QED
    BY <1>2, <2>1, <2>2, Along
<1>6. n \in 0 .. n
  BY <1>2
<1>7. Good(n)
  <2> HIDE DEF Good, n
  <2> QED
    BY <1>5, <1>6
<1>8. f[n] \in Seq(Jobs)
  BY <1>2, <1>6
<1> QED
  BY <1>1, <1>7, <1>8 DEF G!NotIn

(* cluster_clean: nothing new.                                             *)
LEMMA CleanWithin ==
  ASSUME NEW c, NEW g, Shaped(c, g), NEW waiting
  PROVE  Within(c, g, C(c)!Clean(g, waiting), {})
<1> DEFINE h == C(c)!Clean(g, waiting)
           S == Jobs \ waiting
<1>1. /\ DOMAIN h = DOMAIN g
      /\ h.chart = [n \in Grid(c) |-> G!Keep(g.chart[n], S)]
  BY DEF C!Clean, Shaped, C!Nodes, Grid, C!Keep, G!Keep
<1> HIDE DEF h, S
<1>2. ASSUME NEW n \in Grid(c)
      PROVE  /\ h.chart[n] \in Seq(Jobs)
             /\ \A x : ~ G!NotIn(h.chart[n], x) => ~ G!NotIn(g.chart[n], x)
  <2>1. g.chart[n] \in Seq(Jobs)
    BY DEF Shaped
  <2> QED
    BY <1>1, <2>1, KeptHeld
<1>3. h.chart \in [Grid(c) -> Seq(Jobs)]
  BY <1>1, <1>2
<1>4. Within(c, g, h, {})
  BY <1>1, <1>2, <1>3 DEF Within, Shaped, Placed
<1> QED
  BY <1>4 DEF h

(* cluster_delete_done_job: nothing new.                                   *)
LEMMA DeleteWithin ==
  ASSUME NEW c, NEW g, Shaped(c, g), NEW j
  PROVE  Within(c, g, C(c)!DeleteDone(g, j), {})
<1> DEFINE h == C(c)!DeleteDone(g, j)
<1>1. /\ DOMAIN h = DOMAIN g
      /\ h.chart = [n \in Grid(c) |-> IF g.chart[n] # <<>> /\ g.chart[n][1] = j
                                        THEN Tail(g.chart[n]) ELSE g.chart[n]]
  BY DEF C!DeleteDone, Shaped, C!Nodes, Grid
<1> HIDE DEF h
<1>2. ASSUME NEW n \in Grid(c)
      PROVE  /\ h.chart[n] \in Seq(Jobs)
             /\ \A x : ~ G!NotIn(h.chart[n], x) => ~ G!NotIn(g.chart[n], x)
  <2> DEFINE q == g.chart[n]
  <2>1. q \in Seq(Jobs)
    BY DEF Shaped
  <2> HIDE DEF q
  <2>2. q # <<>> => /\ Tail(q) \in Seq(Jobs)
                    /\ \A x : ~ G!NotIn(Tail(q), x) => ~ G!NotIn(q, x)
    BY <2>1 DEF G!NotIn
  <2>3. h.chart[n] = q \/ (q # <<>> /\ h.chart[n] = Tail(q))
    BY <1>1 DEF q
  <2>4. /\ h.chart[n] \in Seq(Jobs)
        /\ \A x : ~ G!NotIn(h.chart[n], x) => ~ G!NotIn(q, x)
    BY <2>1, <2>2, <2>3
  <2> QED
    BY <2>4 DEF q
<1>3. h.chart \in [Grid(c) -> Seq(Jobs)]
  BY <1>1, <1>2
<1>4. Within(c, g, h, {})
  BY <1>1, <1>2, <1>3 DEF Within, Shaped, Placed
<1> QED
  BY <1>4 DEF h

(***************************************************************************)
(* The inner loop of generic_reschedule.  Its tables are given by a        *)
(* recursion, which has to be shown to define a function; the dates are of *)
(* no interest here, so that the recursion has no set of tables to stay in.*)
(***************************************************************************)
LEMMA QueueWithin ==
  ASSUME NEW c, NEW g, Shaped(c, g), NEW plugin, NEW q \in Seq(Jobs), NEW movable,
         NEW procs, NEW now
  PROVE  Within(c, g, C(c)!RescheduleQueue(plugin, g, q, movable, procs, now),
                {x \in Jobs : ~ G!NotIn(q, x)})
<1> DEFINE n == Len(q)
           S == {x \in Jobs : ~ G!NotIn(q, x)}
           Moved(i, h) == IF q[i] \in movable
                            THEN C(c)!Accept(h, q[i],
                                   C(c)!Schedule(plugin, h, q[i], procs[q[i]], now))
                            ELSE h
           After(k, f) == f = [i \in 0 .. k |-> IF i = 0 THEN g ELSE Moved(i, f[i - 1])]
           id == [i \in 0 .. n |-> i]
           T == {k \in 0 .. n : \E f : After(k, f)}
           after == CHOOSE f : After(n, f)
           Good(i) == Within(c, g, after[i], S)
           U == {i \in 0 .. n : Good(i)}
<1>1. n \in Nat
  OBVIOUS
<1>2. \A k \in 0 .. n : id[k] \in T
  <2> HIDE DEF Moved, n
  <2>1. id[0] \in T
    <3>1. After(0, [i \in 0 .. 0 |-> g])
      OBVIOUS
    <3> HIDE DEF After
    <3> QED
      BY <1>1, <3>1
  <2>2. ASSUME NEW k \in 1 .. n, id[k - 1] \in T PROVE id[k] \in T
    <3>1. k - 1 \in 0 .. n /\ k \in 0 .. n /\ k \in Nat
      BY <1>1
    <3>2. PICK f : After(k - 1, f)
      <4> HIDE DEF After
      <4> QED
        BY <2>2, <3>1
    <3> DEFINE e == [i \in 0 .. k |-> IF i = k THEN Moved(k, f[k - 1]) ELSE f[i]]
    <3>3. ASSUME NEW i \in 0 .. k PROVE e[i] = IF i = 0 THEN g ELSE Moved(i, e[i - 1])
      <4>1. CASE i = k
        BY <3>1, <4>1
      <4>2. CASE i # k
        <5>1. i \in 0 .. k - 1
          BY <3>1, <4>2
        <5>2. e[i] = f[i] /\ (i # 0 => e[i - 1] = f[i - 1])
          BY <3>1, <4>2
        <5> QED
          BY <3>2, <5>1, <5>2
      <4> QED
        BY <4>1, <4>2
    <3>4. After(k, e)
      BY <3>3
    <3> HIDE DEF e, After
    <3> QED
      BY <3>1, <3>4
  <2> HIDE DEF id, T
  <2> QED
    BY <1>1, <2>1, <2>2, Along
<1>3. After(n, after)
  <2> HIDE DEF After, n
  <2>1. n \in 0 .. n
    BY <1>1
  <2>2. \E f : After(n, f)
    BY <1>2, <2>1
  <2> QED
    BY <2>2
<1>4. C(c)!RescheduleQueue(plugin, g, q, movable, procs, now) = after[n]
  BY DEF C!RescheduleQueue
<1> HIDE DEF after
<1>5. after[0] = g /\ \A i \in 1 .. n : after[i] = Moved(i, after[i - 1])
  <2> HIDE DEF Moved, n
  <2> QED
    BY <1>1, <1>3
<1> HIDE DEF After
<1>6. Good(0)
  BY <1>5 DEF Within
<1>7. ASSUME NEW i \in 1 .. n, Good(i - 1) PROVE Good(i)
  <2> DEFINE h == after[i - 1]
             x == q[i]
             bid == C(c)!Schedule(plugin, h, x, procs[x], now)
  <2>1. x \in Jobs /\ x \in S
    BY DEF G!NotIn
  <2>2. after[i] = IF x \in movable THEN C(c)!Accept(h, x, bid) ELSE h
    BY <1>5
  <2>3. Shaped(c, h)
    BY <1>7 DEF Within
  <2>4. Within(c, g, h, S)
    BY <1>7
  <2> HIDE DEF h, x, S, n
  <2>5. BidInside(c, h, bid)
    BY <2>3, ScheduleInside
  <2> HIDE DEF bid
  <2>6. Within(c, h, C(c)!Accept(h, x, bid), {x})
    BY <2>1, <2>3, <2>5, AcceptWithin
  <2> QED
    BY <2>1, <2>2, <2>4, <2>6 DEF Within
<1>8. \A i \in 0 .. n : id[i] \in U
  <2> HIDE DEF Good, n
  <2>1. id[0] \in U
    BY <1>1, <1>6
  <2>2. ASSUME NEW i \in 1 .. n, id[i - 1] \in U PROVE id[i] \in U
    <3>1. i - 1 \in 0 .. n /\ i \in 0 .. n
      BY <1>1
    <3> QED
      BY <1>7, <2>2, <3>1
  <2> HIDE DEF id, U
  <2> QED
    BY <1>1, <2>1, <2>2, Along
<1>9. Good(n)
  <2> HIDE DEF Good, n
  <2> QED
    BY <1>1, <1>8
<1> QED
  BY <1>4, <1>9

(* The jobs of the queues.                                                 *)
Queued(queues) == {x \in Jobs : \E p \in 1 .. Len(queues) : ~ G!NotIn(queues[p], x)}

(* The outer loop.                                                         *)
LEMMA RescheduleWithin ==
  ASSUME NEW c, NEW g, Shaped(c, g), NEW plugin, NEW queues \in Seq(Seq(Jobs)), NEW waiting,
         NEW movable, NEW procs, NEW now
  PROVE  Within(c, g, C(c)!Reschedule(plugin, g, queues, waiting, movable, procs, now),
                Queued(queues))
<1> DEFINE n == Len(queues)
           S == Queued(queues)
           first == C(c)!Clean(g, waiting)
           Moved(i, h) == C(c)!RescheduleQueue(plugin, h, queues[n + 1 - i], movable, procs, now)
           After(k, f) == f = [i \in 0 .. k |-> IF i = 0 THEN first ELSE Moved(i, f[i - 1])]
           id == [i \in 0 .. n |-> i]
           T == {k \in 0 .. n : \E f : After(k, f)}
           after == CHOOSE f : After(n, f)
           Good(i) == Within(c, g, after[i], S)
           U == {i \in 0 .. n : Good(i)}
<1>1. n \in Nat
  OBVIOUS
<1>2. \A k \in 0 .. n : id[k] \in T
  <2> HIDE DEF Moved, n, first
  <2>1. id[0] \in T
    <3>1. After(0, [i \in 0 .. 0 |-> first])
      OBVIOUS
    <3> HIDE DEF After
    <3> QED
      BY <1>1, <3>1
  <2>2. ASSUME NEW k \in 1 .. n, id[k - 1] \in T PROVE id[k] \in T
    <3>1. k - 1 \in 0 .. n /\ k \in 0 .. n /\ k \in Nat
      BY <1>1
    <3>2. PICK f : After(k - 1, f)
      <4> HIDE DEF After
      <4> QED
        BY <2>2, <3>1
    <3> DEFINE e == [i \in 0 .. k |-> IF i = k THEN Moved(k, f[k - 1]) ELSE f[i]]
    <3>3. ASSUME NEW i \in 0 .. k PROVE e[i] = IF i = 0 THEN first ELSE Moved(i, e[i - 1])
      <4>1. CASE i = k
        BY <3>1, <4>1
      <4>2. CASE i # k
        <5>1. i \in 0 .. k - 1
          BY <3>1, <4>2
        <5>2. e[i] = f[i] /\ (i # 0 => e[i - 1] = f[i - 1])
          BY <3>1, <4>2
        <5> QED
          BY <3>2, <5>1, <5>2
      <4> QED
        BY <4>1, <4>2
    <3>4. After(k, e)
      BY <3>3
    <3> HIDE DEF e, After
    <3> QED
      BY <3>1, <3>4
  <2> HIDE DEF id, T
  <2> QED
    BY <1>1, <2>1, <2>2, Along
<1>3. After(n, after)
  <2> HIDE DEF After, n
  <2>1. n \in 0 .. n
    BY <1>1
  <2>2. \E f : After(n, f)
    BY <1>2, <2>1
  <2> QED
    BY <2>2
<1>4. C(c)!Reschedule(plugin, g, queues, waiting, movable, procs, now) = after[n]
  BY DEF C!Reschedule
<1> HIDE DEF after
<1>5. after[0] = first /\ \A i \in 1 .. n : after[i] = Moved(i, after[i - 1])
  <2> HIDE DEF Moved, n, first
  <2> QED
    BY <1>1, <1>3
<1> HIDE DEF After
<1>6. Good(0)
  <2> HIDE DEF first
  <2>1. Within(c, g, first, {})
    BY CleanWithin DEF first
  <2> QED
    BY <1>5, <2>1 DEF Within
<1>7. ASSUME NEW i \in 1 .. n, Good(i - 1) PROVE Good(i)
  <2> DEFINE h == after[i - 1]
             q == queues[n + 1 - i]
  <2>0. n + 1 - i \in 1 .. n
    BY <1>1
  <2>1. q \in Seq(Jobs)
    BY <2>0, ElementOfSeq
  <2>2. {x \in Jobs : ~ G!NotIn(q, x)} \subseteq S
    BY <2>0 DEF Queued
  <2>3. after[i] = Moved(i, h)
    BY <1>5
  <2>4. Within(c, g, h, S)
    BY <1>7
  <2> HIDE DEF h, q, S, n, first
  <2>5. Shaped(c, h)
    BY <2>4 DEF Within
  <2>6. Within(c, h, C(c)!RescheduleQueue(plugin, h, q, movable, procs, now),
               {x \in Jobs : ~ G!NotIn(q, x)})
    BY <2>1, <2>5, QueueWithin
  <2>7. after[i] = C(c)!RescheduleQueue(plugin, h, q, movable, procs, now)
    BY <2>3 DEF q
  <2> HIDE DEF Moved
  <2> QED
    BY <2>2, <2>4, <2>6, <2>7 DEF Within
<1>8. \A i \in 0 .. n : id[i] \in U
  <2> HIDE DEF Good, n
  <2>1. id[0] \in U
    BY <1>1, <1>6
  <2>2. ASSUME NEW i \in 1 .. n, id[i - 1] \in U PROVE id[i] \in U
    <3>1. i - 1 \in 0 .. n /\ i \in 0 .. n
      BY <1>1
    <3> QED
      BY <1>7, <2>2, <3>1
  <2> HIDE DEF id, U
  <2> QED
    BY <1>1, <2>1, <2>2, Along
<1>9. Good(n)
  <2> HIDE DEF Good, n
  <2> QED
    BY <1>1, <1>8
<1> QED
  BY <1>4, <1>9

-----------------------------------------------------------------------------
(* A cluster.                                                              *)

(* k is a cluster whose tables and queues hold jobs.                       *)
ClusterShaped(c, k) ==
  /\ DOMAIN k = {"state", "gantt", "queues", "reserved"}
  /\ Shaped(c, k.gantt)
  /\ k.queues \in [1 .. Levels[c] -> Seq(Jobs)]
  /\ k.reserved \in Seq(Jobs)

(* x is planned or traced in k.                                            *)
Keeping(c, k, x) ==
  \/ Placed(c, k.gantt, x)
  \/ ~ G!NotIn(k.reserved, x)
  \/ \E p \in 1 .. Levels[c] : ~ G!NotIn(k.queues[p], x)

(* h is a cluster that keeps jobs of k and of S only.                      *)
KeepsWithin(c, k, h, S) ==
  /\ ClusterShaped(c, h)
  /\ \A x : Keeping(c, h, x) => Keeping(c, k, x) \/ x \in S

(* A cluster keeps the jobs that ClustersOf asks it about.                 *)
LEMMA KeepingRead ==
  ASSUME NEW c, NEW k, ClusterShaped(c, k), NEW x
  PROVE  C(c)!Traced(k, x) \/ x \in C(c)!InTable(k) <=> Keeping(c, k, x)
<1>1. \A q \in Seq(Jobs) : (\E i \in DOMAIN q : q[i] = x) <=> ~ G!NotIn(q, x)
  BY DEF G!NotIn
<1>2. C(c)!Traced(k, x) <=> \/ ~ G!NotIn(k.reserved, x)
                            \/ \E p \in 1 .. Levels[c] : ~ G!NotIn(k.queues[p], x)
  BY <1>1 DEF C!Traced, C!Queues, ClusterShaped
<1>3. x \in C(c)!InTable(k) <=>
        \E n \in Grid(c) : \E i \in DOMAIN k.gantt.chart[n] : k.gantt.chart[n][i] = x
  BY DEF C!InTable, C!Planned, C!Nodes, Grid
<1>4. x \in C(c)!InTable(k) <=> Placed(c, k.gantt, x)
  BY <1>1, <1>3 DEF Placed, ClusterShaped, Shaped
<1> QED
  BY <1>2, <1>4 DEF Keeping

(* schedule_task keeps its job and no other.                               *)
LEMMA TaskKeeps ==
  ASSUME NEW c \in Clusters, NEW k, ClusterShaped(c, k), NEW j \in Jobs, job[j].priority \in Nat
  PROVE  KeepsWithin(c, k, C(c)!WithTask(k, j), {j})
<1> DEFINE h == C(c)!WithTask(k, j)
           p == C(c)!QueueOf(j)
           bid == C(c)!Bid(k, j)
<1>1. p \in 1 .. Levels[c] /\ Levels[c] \in Nat
  BY SizesAssumption DEF C!QueueOf
<1>2. /\ DOMAIN h = DOMAIN k
      /\ h.gantt = C(c)!Accept(k.gantt, j, bid)
      /\ h.queues = [k.queues EXCEPT ![p] = Append(k.queues[p], j)]
      /\ h.reserved = k.reserved
  BY DEF C!WithTask, ClusterShaped
<1> HIDE DEF h, p
<1>3. BidInside(c, k.gantt, bid)
  BY ScheduleInside DEF C!Bid, ClusterShaped
<1> HIDE DEF bid
<1>4. Within(c, k.gantt, h.gantt, {j})
  BY <1>2, <1>3, AcceptWithin DEF ClusterShaped
<1>5. ASSUME NEW i \in 1 .. Levels[c]
      PROVE  /\ h.queues[i] \in Seq(Jobs)
             /\ \A x : ~ G!NotIn(h.queues[i], x) => ~ G!NotIn(k.queues[i], x) \/ x = j
  <2> DEFINE q == k.queues[i]
  <2>1. q \in Seq(Jobs)
    BY DEF ClusterShaped
  <2>2. h.queues[i] = q \/ h.queues[i] = Append(q, j)
    BY <1>1, <1>2 DEF ClusterShaped
  <2> HIDE DEF q
  <2>3. /\ Append(q, j) \in Seq(Jobs)
        /\ \A x : ~ G!NotIn(Append(q, j), x) => ~ G!NotIn(q, x) \/ x = j
    BY <2>1 DEF G!NotIn
  <2>4. /\ h.queues[i] \in Seq(Jobs)
        /\ \A x : ~ G!NotIn(h.queues[i], x) => ~ G!NotIn(q, x) \/ x = j
    BY <2>1, <2>2, <2>3
  <2> QED
    BY <2>4 DEF q
<1>6. h.queues \in [1 .. Levels[c] -> Seq(Jobs)]
  BY <1>2, <1>5 DEF ClusterShaped
<1>7. ClusterShaped(c, h)
  BY <1>2, <1>4, <1>6 DEF ClusterShaped, Within
<1>8. ASSUME NEW x, Keeping(c, h, x) PROVE Keeping(c, k, x) \/ x = j
  <2>1. Placed(c, h.gantt, x) => Placed(c, k.gantt, x) \/ x = j
    BY <1>4 DEF Within
  <2>2. \A i \in 1 .. Levels[c] : ~ G!NotIn(h.queues[i], x) => ~ G!NotIn(k.queues[i], x) \/ x = j
    BY <1>5
  <2> QED
    BY <1>2, <1>8, <2>1, <2>2 DEF Keeping
<1>9. KeepsWithin(c, k, h, {j})
  BY <1>7, <1>8 DEF KeepsWithin
<1> QED
  BY <1>9 DEF h

(* check_ACK keeps no other jobs than before.                              *)
LEMMA EndKeeps ==
  ASSUME NEW c \in Clusters, NEW k, ClusterShaped(c, k), NEW j
  PROVE  KeepsWithin(c, k, C(c)!WithoutJob(k, j), {})
<1> DEFINE S == Jobs \ {j}
           g == C(c)!DeleteDone(k.gantt, j)
           qs == [p \in 1 .. Levels[c] |-> G!Keep(k.queues[p], S)]
           rs == G!Keep(k.reserved, S)
           m == [k EXCEPT !.state[j] = "DONE", !.gantt = g, !.reserved = rs, !.queues = qs]
           h == C(c)!WithoutJob(k, j)
<1>1. h = C(c)!Replanned(m)
  BY DEF C!WithoutJob, ClusterShaped, C!Queues, C!Keep, G!Keep
<1>2. /\ DOMAIN m = DOMAIN k
      /\ m.gantt = g /\ m.queues = qs /\ m.reserved = rs
  BY DEF ClusterShaped
<1> DEFINE waiting == {x \in Jobs : m.state[x] = "WAITING"}
           movable == {x \in waiting : C(c)!Open(x)}
           procs == [x \in Jobs |-> job[x].procs]
           e == C(c)!Reschedule(Plugins[c], g, qs, waiting, movable, procs, clock)
<1> HIDE DEF h, m, g, qs, rs
<1>3. /\ DOMAIN h = DOMAIN k
      /\ h.gantt = e /\ h.queues = qs /\ h.reserved = rs
  BY <1>1, <1>2 DEF C!Replanned, ClusterShaped
<1> HIDE DEF waiting, movable, procs
<1>4. Levels[c] \in Nat
  BY SizesAssumption
<1>5. ASSUME NEW p \in 1 .. Levels[c]
      PROVE  /\ qs[p] \in Seq(Jobs)
             /\ \A x : ~ G!NotIn(qs[p], x) => ~ G!NotIn(k.queues[p], x)
  <2>1. k.queues[p] \in Seq(Jobs)
    BY DEF ClusterShaped
  <2> QED
    BY <2>1, KeptHeld DEF qs
<1>6. /\ rs \in Seq(Jobs)
      /\ \A x : ~ G!NotIn(rs, x) => ~ G!NotIn(k.reserved, x)
  BY KeptHeld DEF rs, ClusterShaped
<1>7. qs \in [1 .. Levels[c] -> Seq(Jobs)]
  BY <1>5 DEF qs
<1>8. qs \in Seq(Seq(Jobs)) /\ Len(qs) = Levels[c]
  BY <1>4, <1>7
<1>9. Within(c, k.gantt, g, {})
  BY DeleteWithin DEF g, ClusterShaped
<1>10. Within(c, g, e, Queued(qs))
  <2>1. Shaped(c, g)
    BY <1>9 DEF Within
  <2> QED
    BY <1>8, <2>1, RescheduleWithin
<1> HIDE DEF e
<1>11. ClusterShaped(c, h)
  BY <1>3, <1>6, <1>7, <1>10 DEF ClusterShaped, Within
<1>12. ASSUME NEW x, Keeping(c, h, x) PROVE Keeping(c, k, x)
  <2>1. Placed(c, e, x) => Placed(c, g, x) \/ x \in Queued(qs)
    BY <1>10 DEF Within
  <2>2. Placed(c, g, x) => Placed(c, k.gantt, x)
    BY <1>9 DEF Within
  <2>3. x \in Queued(qs) => \E p \in 1 .. Levels[c] : ~ G!NotIn(qs[p], x)
    BY <1>8 DEF Queued
  <2>4. \A p \in 1 .. Levels[c] : ~ G!NotIn(qs[p], x) => ~ G!NotIn(k.queues[p], x)
    BY <1>5
  <2>5. ~ G!NotIn(rs, x) => ~ G!NotIn(k.reserved, x)
    BY <1>6
  <2> QED
    BY <1>3, <1>12, <2>1, <2>2, <2>3, <2>4, <2>5 DEF Keeping
<1>13. KeepsWithin(c, k, h, {})
  BY <1>11, <1>12 DEF KeepsWithin
<1> QED
  BY <1>13 DEF h

-----------------------------------------------------------------------------
(* All clusters.                                                           *)

(* x is under way to the batch of c.                                       *)
Bound(c, x) == \E q \in batchMail[c] : q.name = "SB_TASK" /\ q.job = x

Here(c, x) == Keeping(c, clusters[c], x) \/ Bound(c, x)

ClustersOK ==
  /\ clusters = [c \in Clusters |-> clusters[c]]
  /\ \A c \in Clusters : ClusterShaped(c, clusters[c])

(* A job that was sent is at one cluster, or on its way to it.             *)
HereOnce == \A c, d \in Clusters : \A x : Here(c, x) /\ Here(d, x) => c = d

(* A job that was not is nowhere.                                          *)
NotYet == \A i \in DOMAIN JobList : i >= pos => \A c \in Clusters : ~ Here(c, JobList[i])

PlacesInv == MetaInv /\ ClustersOK /\ HereOnce /\ NotYet

(* Jobs that are forgotten or go from the mail into the table.             *)
LEMMA NothingNew ==
  ASSUME PlacesInv, \A c \in Clusters : \A x : Here(c, x)' => Here(c, x), pos' >= pos, pos' \in Nat
  PROVE  HereOnce' /\ NotYet'
<1>1. pos \in Nat /\ \A i \in DOMAIN JobList : i \in Nat
  BY ListJob DEF PlacesInv, MetaInv, PlaceOK
<1>2. NotYet'
  BY <1>1 DEF PlacesInv, NotYet
<1>3. HereOnce'
  BY DEF PlacesInv, HereOnce
<1> QED
  BY <1>2, <1>3

(* The steps of metaSched and its seds that send no job.                   *)
LEMMA UnsentPlaces ==
  ASSUME PlacesInv, UNCHANGED clusters, pos' >= pos, pos' \in Nat,
         \A c \in Clusters : \A q \in batchMail'[c] : q.name = "SB_TASK" => q \in batchMail[c]
  PROVE  ClustersOK' /\ HereOnce' /\ NotYet'
<1>1. ClustersOK'
  BY DEF PlacesInv, ClustersOK
<1>2. \A c \in Clusters : \A x : Here(c, x)' => Here(c, x)
  BY DEF Here, Bound
<1> QED
  BY <1>1, <1>2, NothingNew

(* A sed that passes on what it got: a job, if it is the winner.           *)
LEMMA SedPlaces ==
  ASSUME PlacesInv, NEW c \in Clusters, SedReceive(c)
  PROVE  ClustersOK' /\ HereOnce' /\ NotYet'
<1>1. Forward(c, Sent) /\ UNCHANGED clusters
  BY DEF SedReceive
<1>2. /\ \A d \in Clusters : d # c => batchMail'[d] = batchMail[d]
      /\ \A q \in batchMail'[c] : q \in batchMail[c] \/ q = Sent
  BY <1>1 DEF Forward, PlacesInv, MetaInv, MailTyped
<1>3. pos \in Nat
  BY DEF PlacesInv, MetaInv, PlaceOK
<1>4. CASE mpc # "send"
  <2>1. Sent.name # "SB_TASK" /\ pos' = pos
    BY <1>4 DEF SedReceive, Sending, Sent, Question
  <2>2. \A d \in Clusters : \A q \in batchMail'[d] : q.name = "SB_TASK" => q \in batchMail[d]
    BY <1>2, <2>1
  <2> QED
    BY <1>1, <1>3, <2>1, <2>2, UnsentPlaces
<1>5. CASE mpc = "send"
  <2>1. Sent.job = JobList[pos] /\ pos' = pos + 1
    BY <1>5 DEF SedReceive, Sent, Question, NextJob
  <2>2. pos \in DOMAIN JobList
    BY <1>5, PosJob DEF PlacesInv, MetaInv, PlaceOK
  <2>3. ASSUME NEW d \in Clusters, NEW x, Here(d, x)'
        PROVE  Here(d, x) \/ (d = c /\ x = JobList[pos])
    BY <1>1, <1>2, <2>1, <2>3 DEF Here, Bound
  <2>4. \A d \in Clusters : ~ Here(d, JobList[pos])
    BY <1>3, <2>2 DEF PlacesInv, NotYet
  <2>5. HereOnce'
    BY <2>3, <2>4 DEF PlacesInv, HereOnce
  <2>6. NotYet'
    <3> SUFFICES ASSUME NEW i \in DOMAIN JobList, i >= pos',
                        NEW d \in Clusters, Here(d, JobList[i])'
                 PROVE  FALSE
      BY DEF NotYet
    <3>1. i \in Nat /\ i >= pos /\ i # pos
      BY <1>3, <2>1, ListJob
    <3>2. JobList[i] # JobList[pos]
      BY <2>2, <3>1, ListOnceAssumption
    <3>3. ~ Here(d, JobList[i])
      BY <3>1 DEF PlacesInv, NotYet
    <3> QED
      BY <2>3, <3>2, <3>3
  <2>7. ClustersOK'
    BY <1>1 DEF PlacesInv, ClustersOK
  <2> QED
    BY <2>5, <2>6, <2>7
<1> QED
  BY <1>4, <1>5

(* A batch that changes its cluster.                                       *)
LEMMA ClusterPlaces ==
  ASSUME PlacesInv, NEW c \in Clusters, NEW h, clusters' = [clusters EXCEPT ![c] = h],
         NEW S, KeepsWithin(c, clusters[c], h, S), \A x \in S : Bound(c, x),
         \A d \in Clusters : batchMail'[d] \subseteq batchMail[d], pos' = pos
  PROVE  ClustersOK' /\ HereOnce' /\ NotYet'
<1>1. /\ clusters'[c] = h
      /\ \A d \in Clusters : d # c => clusters'[d] = clusters[d]
      /\ clusters' = [d \in Clusters |-> clusters'[d]]
  BY DEF PlacesInv, ClustersOK
<1>2. ClustersOK'
  BY <1>1 DEF PlacesInv, ClustersOK, KeepsWithin
<1>3. \A d \in Clusters : \A x : Bound(d, x)' => Bound(d, x)
  BY DEF Bound
<1>4. ASSUME NEW d \in Clusters, NEW x, Here(d, x)' PROVE Here(d, x)
  <2>1. CASE d # c
    BY <1>1, <1>3, <1>4, <2>1 DEF Here
  <2>2. CASE d = c
    <3>1. Keeping(c, h, x) \/ Bound(c, x)
      BY <1>1, <1>3, <1>4, <2>2 DEF Here
    <3>2. Keeping(c, clusters[c], x) \/ Bound(c, x)
      BY <3>1 DEF KeepsWithin
    <3> QED
      BY <2>2, <3>2 DEF Here
  <2> QED
    BY <2>1, <2>2
<1>5. pos' >= pos /\ pos' \in Nat
  BY DEF PlacesInv, MetaInv, PlaceOK
<1> QED
  BY <1>2, <1>4, <1>5, NothingNew

(* The handlers of a batch.                                                *)
LEMMA BatchPlaces ==
  ASSUME PlacesInv, NEW c \in Clusters, NEW q \in batchMail[c],
         InitPf(c, q) \/ PredictSchedule(c, q) \/ ScheduleTask(c, q)
  PROVE  ClustersOK' /\ HereOnce' /\ NotYet'
<1>1. batchMail' = [batchMail EXCEPT ![c] = @ \ {q}] /\ pos' = pos
  BY DEF InitPf, PredictSchedule, ScheduleTask, BatchTakes, metaVars
<1>2. \A d \in Clusters : batchMail'[d] \subseteq batchMail[d]
  BY <1>1 DEF PlacesInv, MetaInv, MailTyped
<1>3. pos' >= pos /\ pos' \in Nat
  BY <1>1 DEF PlacesInv, MetaInv, PlaceOK
<1>4. CASE UNCHANGED clusters
  BY <1>2, <1>3, <1>4, UnsentPlaces
<1>5. CASE ~ UNCHANGED clusters
  <2> DEFINE h == C(c)!WithTask(clusters[c], q.job)
  <2>1. q.name = "SB_TASK" /\ clusters' = [clusters EXCEPT ![c] = h]
    BY <1>5 DEF InitPf, PredictSchedule, ScheduleTask
  <2>2. q.job \in Jobs /\ job[q.job].priority \in Nat
    BY <2>1 DEF PlacesInv, MetaInv, SentOK, Holds, JobsOK, Descriptions
  <2>3. ClusterShaped(c, clusters[c])
    BY DEF PlacesInv, ClustersOK
  <2>4. KeepsWithin(c, clusters[c], h, {q.job})
    BY <2>2, <2>3, TaskKeeps
  <2>5. Bound(c, q.job)
    BY <2>1 DEF Bound
  <2> HIDE DEF h
  <2> QED
    BY <1>1, <1>2, <2>1, <2>4, <2>5, ClusterPlaces
<1> QED
  BY <1>4, <1>5

(* A job starts, or ends.                                                  *)
LEMMA JobPlaces ==
  ASSUME PlacesInv, NEW c \in Clusters, NEW j \in Jobs, StartJob(c, j) \/ FinishJob(c, j)
  PROVE  ClustersOK' /\ HereOnce' /\ NotYet'
<1> DEFINE k == clusters[c]
           nobody == {}
<1>1. /\ pos' = pos
      /\ \A d \in Clusters : batchMail'[d] \subseteq batchMail[d]
  BY DEF StartJob, FinishJob, metaVars, mailVars
<1>0. \A x \in nobody : Bound(c, x)
  OBVIOUS
<1>2. ClusterShaped(c, k) /\ clusters = [d \in Clusters |-> clusters[d]]
  BY DEF PlacesInv, ClustersOK
<1>3. CASE StartJob(c, j)
  <2> DEFINE h == [k EXCEPT !.state[j] = "PROCESSING"]
  <2>1. clusters' = [clusters EXCEPT ![c] = h]
    BY <1>2, <1>3 DEF StartJob
  <2> HIDE DEF k
  <2>2. /\ DOMAIN h = DOMAIN k
        /\ h.gantt = k.gantt /\ h.queues = k.queues /\ h.reserved = k.reserved
    BY <1>2 DEF ClusterShaped
  <2> HIDE DEF h
  <2>3. KeepsWithin(c, k, h, nobody)
    BY <1>2, <2>2 DEF KeepsWithin, ClusterShaped, Keeping
  <2>4. KeepsWithin(c, clusters[c], h, nobody)
    BY <2>3 DEF k
  <2> HIDE DEF nobody
  <2> QED
    BY <1>0, <1>1, <2>1, <2>4, ClusterPlaces
<1>4. CASE FinishJob(c, j)
  <2> DEFINE h == C(c)!WithoutJob(k, j)
  <2>1. clusters' = [clusters EXCEPT ![c] = h]
    BY <1>4 DEF FinishJob
  <2>2. KeepsWithin(c, clusters[c], h, nobody)
    BY <1>2, EndKeeps
  <2> HIDE DEF h, nobody
  <2> QED
    BY <1>0, <1>1, <2>1, <2>2, ClusterPlaces
<1> QED
  BY <1>3, <1>4

(* No job is anywhere at first.                                            *)
LEMMA PlacesInit == Init => PlacesInv
<1> SUFFICES ASSUME Init PROVE PlacesInv
  OBVIOUS
<1>1. MetaInv
  BY InitHolds
<1>2. clusters = [c \in Clusters |-> C(c)!EmptyCluster] /\ batchMail = [c \in Clusters |-> {}]
  BY DEF Init
<1>3. ASSUME NEW c \in Clusters
      PROVE  ClusterShaped(c, clusters[c]) /\ \A x : ~ Here(c, x)
  <2> DEFINE k == clusters[c]
  <2>1. k = C(c)!EmptyCluster
    BY <1>2
  <2>0. PICK e, g, s, w, n, l :
           k = [state |-> e,
                gantt |-> [chart |-> g, start |-> s, wall |-> w, nodes |-> n, lead |-> l],
                queues |-> [p \in 1 .. Levels[c] |-> <<>>], reserved |-> <<>>]
           /\ g = [m \in Grid(c) |-> <<>>]
    BY <2>1, Zenon DEF C!EmptyCluster, C!Nodes, C!Queues, Grid
  <2> HIDE DEF k
  <2>2. /\ DOMAIN k = {"state", "gantt", "queues", "reserved"}
        /\ DOMAIN k.gantt = {"chart", "start", "wall", "nodes", "lead"}
        /\ k.gantt.chart = [m \in Grid(c) |-> <<>>]
        /\ k.queues = [p \in 1 .. Levels[c] |-> <<>>]
        /\ k.reserved = <<>>
    BY <2>0
  <2> HIDE DEF k
  <2>3. ClusterShaped(c, k)
    BY <2>2 DEF ClusterShaped, Shaped
  <2>4. \A x : ~ Keeping(c, k, x)
    BY <2>2 DEF Keeping, Placed, G!NotIn
  <2> QED
    BY <1>2, <2>3, <2>4 DEF k, Here, Bound
<1>4. ClustersOK /\ HereOnce /\ NotYet
  BY <1>2, <1>3 DEF ClustersOK, HereOnce, NotYet
<1> QED
  BY <1>1, <1>4 DEF PlacesInv

(* The invariant is inductive.                                             *)
LEMMA PlacesStep == PlacesInv /\ [Next]_vars => PlacesInv'
<1> SUFFICES ASSUME PlacesInv, [Next]_vars PROVE ClustersOK' /\ HereOnce' /\ NotYet'
  BY StepKeeps DEF PlacesInv
<1>0. pos \in Nat /\ (mpc = "inform" => pos = 1)
  BY DEF PlacesInv, MetaInv, PlaceOK
<1>1. CASE \E c \in Clusters : SedReceive(c)
  BY <1>1, SedPlaces
<1>2. CASE \E c \in Clusters : BatchHandle(c)
  BY <1>2, BatchPlaces DEF BatchHandle
<1>3. CASE \E c \in Clusters, j \in Jobs : StartJob(c, j) \/ FinishJob(c, j)
  BY <1>3, JobPlaces
<1>4. CASE (\E c \in Clusters : SedRelay(c)) \/ WakeUp \/ Tick \/ UNCHANGED vars
  <2>1. UNCHANGED <<clusters, batchMail, pos>>
    BY <1>4 DEF SedRelay, WakeUp, Tick, vars, metaVars, mailVars
  <2> QED
    BY <1>0, <2>1, UnsentPlaces
<1>5. CASE Inform \/ TakeAnswer
  <2>1. UNCHANGED <<clusters, batchMail>>
    BY <1>5 DEF Inform, TakeAnswer
  <2>2. pos' \in {pos, pos + 1}
    BY <1>0, <1>5 DEF Inform, TakeAnswer, NextJob, Drop
  <2> QED
    BY <1>0, <2>1, <2>2, UnsentPlaces
<1> QED
  BY <1>1, <1>2, <1>3, <1>4, <1>5 DEF Next, Step, Terminated

(***************************************************************************)
(* A prediction leaves nothing behind: whatever the clusters, their plugins*)
(* and the jobs, each job is planned on one cluster at most, and on none   *)
(* before it has been sent (batch.c:574).                                  *)
(***************************************************************************)
THEOREM NeverTwice == Spec => []OneCluster
<1>1. PlacesInv => OneCluster
  <2> SUFFICES ASSUME PlacesInv PROVE OneCluster
    OBVIOUS
  <2>1. \A c \in Clusters : \A x : x \in Jobs =>
          (C(c)!Traced(clusters[c], x) \/ x \in C(c)!InTable(clusters[c])
             <=> Keeping(c, clusters[c], x))
    BY KeepingRead DEF PlacesInv, ClustersOK
  <2>2. \A x \in Jobs : ClustersOf(x) = {c \in Clusters : Keeping(c, clusters[c], x)}
    BY <2>1 DEF ClustersOf
  <2>3. ASSUME NEW x \in Jobs PROVE Cardinality(ClustersOf(x)) =< 1
    <3>1. \A c, d \in ClustersOf(x) : c = d
      BY <2>2 DEF PlacesInv, HereOnce, Here
    <3>2. ClustersOf(x) = {} \/ \E c : ClustersOf(x) = {c}
      BY <3>1
    <3>3. Cardinality({}) = 0 /\ \A c : Cardinality({c}) = 1
      BY FS_EmptySet, FS_Singleton
    <3>4. Cardinality(ClustersOf(x)) \in {0, 1}
      BY <3>2, <3>3
    <3> QED
      BY <3>4
  <2>4. ASSUME NEW i \in pos .. Len(JobList) PROVE ClustersOf(JobList[i]) = {}
    <3>1. i \in DOMAIN JobList /\ i >= pos
      <4>1. JobList \in Seq(Jobs) /\ pos \in Nat \ {0}
        BY ListAssumption DEF PlacesInv, MetaInv, PlaceOK
      <4> QED
        BY <4>1
    <3>2. JobList[i] \in Jobs
      BY <3>1, ListJob
    <3> QED
      BY <2>2, <3>1, <3>2 DEF PlacesInv, NotYet, Here
  <2> QED
    BY <2>3, <2>4 DEF OneCluster
<1>2. Spec => []PlacesInv
  BY PlacesInit, PlacesStep, PTL DEF Spec
<1> QED
  BY <1>1, <1>2, PTL

-----------------------------------------------------------------------------
(***************************************************************************)
(* Every cluster plans as GanttProofs says.                                *)
(*                                                                         *)
(* What GanttProofs proves of a number of nodes holds of the number of each*)
(* cluster.  A lemma cannot be cited of an instance with a parameter, but  *)
(* it can of one number.  So let Odd be a cluster that does not plan as it *)
(* should, if there is any: the lemmas of H, the instance for its number   *)
(* of nodes, show that Odd does, and then all clusters do.                 *)
(***************************************************************************)
P(n) == INSTANCE TableOrder WITH NbNodes <- n

(* What is said of the table and the queues of cluster c.                  *)
IsTable(c, g) == g \in P(Size[c])!Tables
Tidy(c, g, qs, procs) == P(Size[c])!Tidy(g, qs, procs)
InTurns(c, g, qs, W, procs, t) == P(Size[c])!InTurns(g, qs, W, procs, t)

(* The date node n of cluster c has no more job.                           *)
Free(c, g, n, t) == P(Size[c])!LastSlot(g, n, t)

(* The queues without job j.                                               *)
LeftBy(ks, qs, j) == /\ ks \in Seq(Seq(Jobs)) /\ Len(ks) = Len(qs)
                     /\ \A p \in 1 .. Len(qs) : ks[p] = G!Keep(qs[p], Jobs \ {j})

(* schedule_task makes h of g.                                             *)
TaskDone(c, g, h, qs, procs, x, p, t) ==
  /\ Tidy(c, h, G!Grown(qs, p, x), procs) /\ h.wall = g.wall
  /\ \A W \in SUBSET Jobs :
       Plugins[c] = "fcfs" /\ x \in W /\ InTurns(c, g, qs, W, procs, t) /\ G!Alone(qs, p)
         => InTurns(c, h, G!Grown(qs, p, x), W, procs, t)

NextTable(c, g, x, nb, t) == C(c)!Accept(g, x, C(c)!Schedule(Plugins[c], g, x, nb, t))

TaskFits(c, g, qs, procs, x, p, t) ==
  /\ Tidy(c, g, qs, procs) /\ x \in Jobs /\ ~ Placed(c, g, x) /\ G!Untraced(qs, x)
  /\ procs[x] \in Grid(c) /\ p \in 1 .. Len(qs) /\ t \in Nat

TaskPlans(c) ==
  \A g, qs, procs, x, p, t :
    TaskFits(c, g, qs, procs, x, p, t)
      => TaskDone(c, g, NextTable(c, g, x, procs[x], t), qs, procs, x, p, t)

(* check_ACK makes h of g.                                                 *)
EndDone(c, g, h, qs, ks, procs, j, W, t) ==
  /\ Tidy(c, h, ks, procs) /\ h.wall = g.wall
  /\ Plugins[c] = "fcfs" /\ j \notin W /\ InTurns(c, g, qs, W, procs, t)
       => /\ InTurns(c, h, ks, W, procs, t)
          /\ \A n \in Grid(c) : \E m \in Grid(c) : Free(c, h, m, t) =< Free(c, g, n, t)

EndPlans(c) ==
  \A g, qs, ks, procs, j, W, t :
    /\ Tidy(c, g, qs, procs) /\ j \in Jobs /\ W \in SUBSET Jobs /\ t \in Nat
    /\ LeftBy(ks, qs, j)
    => EndDone(c, g, C(c)!Reschedule(Plugins[c], C(c)!DeleteDone(g, j), ks, W, W, procs, t),
               qs, ks, procs, j, W, t)

(* A job starts.                                                           *)
StartPlans(c) ==
  \A g, qs, procs, x, W, t :
    /\ Tidy(c, g, qs, procs) /\ InTurns(c, g, qs, W, procs, t)
    /\ \A y \in Jobs : g.wall[y] > 0
    /\ W \in SUBSET Jobs /\ x \in W /\ Placed(c, g, x) /\ g.start[x] = t /\ t \in Nat
    => InTurns(c, g, qs, W \ {x}, procs, t)

(* Time passes.                                                            *)
TickPlans(c) ==
  \A g, qs, procs, W, t :
    /\ Tidy(c, g, qs, procs) /\ InTurns(c, g, qs, W, procs, t)
    /\ W \in SUBSET Jobs /\ t \in Nat /\ \A x \in W : Placed(c, g, x) => g.start[x] > t
    => InTurns(c, g, qs, W, procs, t + 1)

(* Nothing is planned yet.                                                 *)
EmptyPlans(c) ==
  \A g, qs, W, procs, t :
    /\ IsTable(c, g) /\ \A n \in Grid(c) : g.chart[n] = <<>>
    /\ qs \in Seq(Seq(Jobs)) /\ Len(qs) # 0 /\ \A p \in 1 .. Len(qs) : qs[p] = <<>>
    => Tidy(c, g, qs, procs) /\ InTurns(c, g, qs, W, procs, t)

(* The dates of bids.                                                      *)
FirstPlans(c) ==
  \A g, nb, t, dur :
    IsTable(c, g) /\ nb \in Grid(c) /\ t \in Nat =>
      LET lead == C(c)!FcfsBid(g, nb, t).lead
      IN  /\ lead \in Grid(c)
          /\ \A n \in Grid(c) : Free(c, g, lead, t) =< Free(c, g, n, t)
          /\ C(c)!CbfBid(g, nb, t, dur).start \in Nat

FreePlans(c) ==
  \A g, n, t :
    IsTable(c, g) /\ n \in Grid(c) /\ t \in Nat =>
      /\ Free(c, g, n, t) \in Nat /\ t =< Free(c, g, n, t)
      /\ Free(c, g, n, t + 1) = Free(c, g, n, t) \/ Free(c, g, n, t + 1) = t + 1

Plans(c) == /\ TaskPlans(c) /\ EndPlans(c) /\ StartPlans(c) /\ TickPlans(c)
            /\ EmptyPlans(c) /\ FirstPlans(c) /\ FreePlans(c)

Odd == CHOOSE c \in Clusters : (\E d \in Clusters : ~ Plans(d)) => ~ Plans(c)

H == INSTANCE GanttProofs WITH NbNodes <- Size[Odd]

(* It is a cluster, with as many nodes.                                    *)
LEMMA OddCluster == Odd \in Clusters /\ Size[Odd] \in Nat \ {0}
<1>1. 1 \in Clusters
  BY ClustersAssumption DEF Clusters
<1>2. \E c \in Clusters : (\E d \in Clusters : ~ Plans(d)) => ~ Plans(c)
  BY <1>1
<1>3. Odd \in Clusters
  BY <1>2 DEF Odd
<1>. QED
  BY <1>3, SizesAssumption

(* The operators of H are those of its cluster.                            *)
LEMMA OddSlots ==
  ASSUME NEW g, NEW q, NEW j, NEW S
  PROVE  /\ C(Odd)!DeleteDone(g, j) = H!DeleteDone(g, j)
         /\ G!Keep(q, S) = H!Keep(q, S)
         /\ C(Odd)!Clean(g, S) = H!Clean(g, S)
BY DEF C!DeleteDone, H!DeleteDone, C!Keep, H!Keep, G!Keep, C!Clean, H!Clean, C!Nodes, H!Nodes

(* The code accepts a bid there as H says.                                 *)
LEMMA OddAccept ==
  ASSUME NEW g, NEW j, NEW bid
  PROVE  C(Odd)!Accept(g, j, bid) = H!Accept(g, j, bid)
BY DEF C!Accept, H!Accept, C!Nodes, H!Nodes, C!InsertJob, H!InsertJob

(* The bids of cbf there are those of H.                                   *)
LEMMA OddCbfBid ==
  ASSUME NEW g, NEW nb, NEW t, NEW dur
  PROVE  C(Odd)!CbfBid(g, nb, t, dur) = H!CbfBid(g, nb, t, dur)
BY DEF C!CbfBid, H!CbfBid, C!EarliestStart, H!EarliestStart, C!ReleaseDates,
   H!ReleaseDates, C!Cardinality, H!Cardinality, C!Nodes, H!Nodes, C!FreeNodes,
   H!FreeNodes, C!FreeAt, H!FreeAt, C!FitsAt, H!FitsAt, C!End, H!End,
   C!Planned, H!Planned, C!Least, H!Least, C!Before, H!Before,
   C!SlotPosition, H!SlotPosition

(* And those of fcfs.                                                      *)
LEMMA OddFcfsBid ==
  ASSUME NEW g, NEW nb, NEW t
  PROVE  C(Odd)!FcfsBid(g, nb, t) = H!FcfsBid(g, nb, t)
BY DEF C!FcfsBid, H!FcfsBid, C!LastSlot, H!LastSlot, C!Cardinality, H!Cardinality,
   C!Nodes, H!Nodes, C!End, H!End, C!Least, H!Least, C!Before, H!Before

(* Hence those of the scheduler the cluster has.                           *)
LEMMA OddSchedule ==
  ASSUME NEW plugin, NEW g, NEW j, NEW nb, NEW t
  PROVE  C(Odd)!Schedule(plugin, g, j, nb, t) = H!Schedule(plugin, g, j, nb, t)
BY OddFcfsBid, OddCbfBid DEF C!Schedule, H!Schedule

(* Planning a queue again runs through the same tables.                    *)
LEMMA OddRescheduleQueue ==
  ASSUME NEW plugin, NEW g, NEW q, NEW movable, NEW procs, NEW t
  PROVE  C(Odd)!RescheduleQueue(plugin, g, q, movable, procs, t)
           = H!RescheduleQueue(plugin, g, q, movable, procs, t)
<1>. DEFINE n == Len(q)
            Ours(f) == f = [i \in 0 .. n |->
                              IF i = 0 THEN g
                              ELSE IF q[i] \in movable
                                   THEN H!Accept(f[i - 1], q[i],
                                          H!Schedule(plugin, f[i - 1], q[i], procs[q[i]], t))
                                   ELSE f[i - 1]]
            Theirs(f) == f = [i \in 0 .. n |->
                                IF i = 0 THEN g
                                ELSE IF q[i] \in movable
                                     THEN C(Odd)!Accept(f[i - 1], q[i],
                                            C(Odd)!Schedule(plugin, f[i - 1], q[i], procs[q[i]], t))
                                     ELSE f[i - 1]]
<1>1. ASSUME NEW f PROVE Ours(f) <=> Theirs(f)
  BY OddAccept, OddSchedule
<1>2. /\ H!RescheduleQueue(plugin, g, q, movable, procs, t) = (CHOOSE f : Ours(f))[n]
      /\ C(Odd)!RescheduleQueue(plugin, g, q, movable, procs, t) = (CHOOSE f : Theirs(f))[n]
  BY DEF H!RescheduleQueue, C!RescheduleQueue
<1>. HIDE DEF Ours, Theirs, n
<1>3. (CHOOSE f : Ours(f)) = (CHOOSE f : Theirs(f))
  BY <1>1
<1>. QED
  BY <1>2, <1>3

(* And so does planning all queues again.                                  *)
LEMMA OddReschedule ==
  ASSUME NEW plugin, NEW g, NEW qs, NEW waiting, NEW movable, NEW procs, NEW t
  PROVE  C(Odd)!Reschedule(plugin, g, qs, waiting, movable, procs, t)
           = H!Reschedule(plugin, g, qs, waiting, movable, procs, t)
<1>. DEFINE n == Len(qs)
            Ours(f) == f = [i \in 0 .. n |->
                              IF i = 0 THEN H!Clean(g, waiting)
                              ELSE H!RescheduleQueue(plugin, f[i - 1], qs[n + 1 - i],
                                                     movable, procs, t)]
            Theirs(f) == f = [i \in 0 .. n |->
                                IF i = 0 THEN C(Odd)!Clean(g, waiting)
                                ELSE C(Odd)!RescheduleQueue(plugin, f[i - 1], qs[n + 1 - i],
                                                            movable, procs, t)]
<1>1. ASSUME NEW f PROVE Ours(f) <=> Theirs(f)
  <2>1. C(Odd)!Clean(g, waiting) = H!Clean(g, waiting)
    BY OddSlots
  <2>. HIDE DEF n
  <2>. QED
    BY <2>1, OddRescheduleQueue
<1>2. /\ H!Reschedule(plugin, g, qs, waiting, movable, procs, t) = (CHOOSE f : Ours(f))[n]
      /\ C(Odd)!Reschedule(plugin, g, qs, waiting, movable, procs, t) = (CHOOSE f : Theirs(f))[n]
  BY DEF H!Reschedule, C!Reschedule
<1>. HIDE DEF Ours, Theirs, n
<1>3. (CHOOSE f : Ours(f)) = (CHOOSE f : Theirs(f))
  BY <1>1
<1>. QED
  BY <1>2, <1>3

(* What is said of tables is the same.                                     *)
LEMMA OddOrder ==
  ASSUME NEW g, NEW qs, NEW procs
  PROVE  /\ IsTable(Odd, g) <=> g \in H!Tables
         /\ Tidy(Odd, g, qs, procs) <=> H!Tidy(g, qs, procs)
<1>1. IsTable(Odd, g) <=> g \in H!Tables
  BY DEF IsTable, P!Tables, H!Tables, P!Nodes, H!Nodes
<1>2. P(Size[Odd])!AllOrdered(g) <=> H!AllOrdered(g)
  BY DEF P!AllOrdered, H!AllOrdered, P!Nodes, H!Nodes, P!Ordered, H!Ordered, P!End, H!End
<1>3. P(Size[Odd])!Once(qs) <=> H!Once(qs)
  BY DEF P!Once, H!Once
<1>4. P(Size[Odd])!MovableFit(qs, Jobs, procs) <=> H!MovableFit(qs, Jobs, procs)
  BY DEF P!MovableFit, H!MovableFit
<1>. QED
  BY <1>1, <1>2, <1>3, <1>4 DEF Tidy, IsTable, P!Tidy, H!Tidy

(* Its nodes are free when H says so.                                      *)
LEMMA OddFree ==
  ASSUME NEW g, NEW n, NEW t
  PROVE  Free(Odd, g, n, t) = H!LastSlot(g, n, t)
BY DEF Free, P!LastSlot, H!LastSlot, P!End, H!End

(* A job starts there when H says so.                                      *)
LEMMA OddAfterOf ==
  ASSUME NEW g, NEW x, NEW A, NEW nb, NEW t
  PROVE  P(Size[Odd])!AfterOf(g, x, A, nb, t) <=> H!AfterOf(g, x, A, nb, t)
<1>1. P(Size[Odd])!On(g, x) = H!On(g, x)
  BY DEF P!On, H!On, P!Nodes, H!Nodes, P!Planned, H!Planned
<1>2. ASSUME NEW n, NEW e PROVE P(Size[Odd])!Clears(g, n, A, e) <=> H!Clears(g, n, A, e)
  BY DEF P!Clears, H!Clears, P!Planned, H!Planned, P!End, H!End
<1>3. P(Size[Odd])!Cardinality(H!On(g, x)) = H!Cardinality(H!On(g, x))
  BY DEF P!Cardinality, H!Cardinality
<1>4. P(Size[Odd])!Nodes = H!Nodes
  BY DEF P!Nodes, H!Nodes
<1>. QED
  BY <1>1, <1>2, <1>3, <1>4 DEF P!AfterOf, H!AfterOf

(* Its jobs take their turns when those of H do.                           *)
LEMMA OddTurns ==
  ASSUME NEW g, NEW qs, NEW W, NEW procs, NEW t
  PROVE  InTurns(Odd, g, qs, W, procs, t) <=> H!InTurns(g, qs, W, procs, t)
<1>1. ASSUME NEW q, NEW i PROVE P(Size[Odd])!Ahead(q, i, W) = H!Ahead(q, i, W)
  BY DEF P!Ahead, H!Ahead
<1>2. ASSUME NEW q, NEW m
      PROVE  P(Size[Odd])!Turn(g, q, m, W, procs, t) <=> H!Turn(g, q, m, W, procs, t)
  <2>1. P(Size[Odd])!Nodes = H!Nodes /\ \A n : P(Size[Odd])!Planned(g, n) = H!Planned(g, n)
    BY DEF P!Nodes, H!Nodes, P!Planned, H!Planned
  <2>. QED
    BY <1>1, <2>1, OddAfterOf DEF P!Turn, H!Turn
<1>. QED
  BY <1>2 DEF InTurns, P!InTurns, H!InTurns

(* A job is planned there when it is in H.                                 *)
LEMMA OddPlaced ==
  ASSUME NEW g, NEW x
  PROVE  Placed(Odd, g, x) <=> ~ H!Absent(g, x)
BY DEF Placed, H!Absent, Grid, H!Nodes, G!NotIn, H!NotIn

(* Odd plans as it should.                                                 *)
LEMMA OddTask == TaskPlans(Odd)
<1>. SUFFICES ASSUME NEW g, NEW qs, NEW procs, NEW x, NEW p, NEW t,
                     TaskFits(Odd, g, qs, procs, x, p, t)
              PROVE  TaskDone(Odd, g, NextTable(Odd, g, x, procs[x], t), qs, procs, x, p, t)
  BY DEF TaskPlans
<1>. DEFINE plugin == Plugins[Odd]
            h == H!Accept(g, x, H!Schedule(plugin, g, x, procs[x], t))
            ks == H!Grown(qs, p, x)
<1>0. /\ Tidy(Odd, g, qs, procs) /\ x \in Jobs /\ ~ Placed(Odd, g, x)
      /\ G!Untraced(qs, x) /\ procs[x] \in Grid(Odd) /\ p \in 1 .. Len(qs) /\ t \in Nat
  BY DEF TaskFits
<1>1. NextTable(Odd, g, x, procs[x], t) = h
  BY OddAccept, OddSchedule DEF NextTable
<1>2. H!Tidy(g, qs, procs) /\ H!Absent(g, x)
  BY <1>0, OddOrder, OddPlaced
<1>3. H!Untraced(qs, x) /\ procs[x] \in 1 .. Size[Odd]
  BY <1>0 DEF G!Untraced, H!Untraced, G!NotIn, H!NotIn, Grid
<1>4. /\ H!Tidy(h, ks, procs) /\ h.wall = g.wall
      /\ \A W \in SUBSET Jobs :
           /\ plugin = "fcfs" /\ x \in W /\ H!InTurns(g, qs, W, procs, t)
           /\ \A r \in 1 .. Len(qs) : r # p => qs[r] = <<>>
           => H!InTurns(h, ks, W, procs, t)
  BY <1>0, <1>2, <1>3, OddCluster, H!OrderTask
<1>5. G!Grown(qs, p, x) = ks
  BY DEF G!Grown, H!Grown
<1>. HIDE DEF h, ks
<1>6. Tidy(Odd, h, ks, procs)
  BY <1>4, OddOrder
<1>7. ASSUME NEW W \in SUBSET Jobs, plugin = "fcfs", x \in W, InTurns(Odd, g, qs, W, procs, t),
             G!Alone(qs, p)
      PROVE  InTurns(Odd, h, ks, W, procs, t)
  <2>1. H!InTurns(g, qs, W, procs, t)
    BY <1>7, OddTurns
  <2>2. \A r \in 1 .. Len(qs) : r # p => qs[r] = <<>>
    BY <1>7 DEF G!Alone
  <2>3. H!InTurns(h, ks, W, procs, t)
    BY <1>4, <1>7, <2>1, <2>2
  <2>. QED
    BY <2>3, OddTurns
<1>8. TaskDone(Odd, g, h, qs, procs, x, p, t)
  BY <1>4, <1>5, <1>6, <1>7 DEF TaskDone
<1>. QED
  BY <1>1, <1>8

(* An end there is one of H.                                               *)
LEMMA OddEnd == EndPlans(Odd)
<1>. SUFFICES ASSUME NEW g, NEW qs, NEW ks, NEW procs, NEW j, NEW W, NEW t,
                     Tidy(Odd, g, qs, procs), j \in Jobs, W \in SUBSET Jobs, t \in Nat,
                     LeftBy(ks, qs, j)
              PROVE  EndDone(Odd, g,
                       C(Odd)!Reschedule(Plugins[Odd], C(Odd)!DeleteDone(g, j), ks, W, W, procs, t),
                       qs, ks, procs, j, W, t)
  BY DEF EndPlans
<1>. DEFINE plugin == Plugins[Odd]
            h == H!Reschedule(plugin, H!DeleteDone(g, j), ks, W, W, procs, t)
<1>1. C(Odd)!Reschedule(plugin, C(Odd)!DeleteDone(g, j), ks, W, W, procs, t) = h
  BY OddReschedule, OddSlots
<1>2. H!Tidy(g, qs, procs)
  BY OddOrder
<1>3. /\ ks \in Seq(Seq(Jobs)) /\ Len(ks) = Len(qs)
      /\ \A p \in 1 .. Len(qs) : ks[p] = H!Keep(qs[p], Jobs \ {j})
  BY OddSlots DEF LeftBy
<1>4. /\ H!Tidy(h, ks, procs) /\ h.wall = g.wall
      /\ plugin = "fcfs" /\ j \notin W /\ H!InTurns(g, qs, W, procs, t)
           => H!InTurns(h, ks, W, procs, t) /\ H!NoWorse(g, h, t)
  BY <1>2, <1>3, OddCluster, H!OrderEnd
<1>. HIDE DEF h
<1>5. H!NoWorse(g, h, t) =>
        \A n \in Grid(Odd) : \E m \in Grid(Odd) : Free(Odd, h, m, t) =< Free(Odd, g, n, t)
  BY OddFree DEF H!NoWorse, H!Nodes, Grid
<1>6. Tidy(Odd, h, ks, procs)
  BY <1>4, OddOrder
<1>7. InTurns(Odd, g, qs, W, procs, t) => H!InTurns(g, qs, W, procs, t)
  BY OddTurns
<1>8. H!InTurns(h, ks, W, procs, t) => InTurns(Odd, h, ks, W, procs, t)
  BY OddTurns
<1>9. EndDone(Odd, g, h, qs, ks, procs, j, W, t)
  BY <1>4, <1>5, <1>6, <1>7, <1>8 DEF EndDone
<1>. QED
  BY <1>1, <1>9

(* So is a start.                                                          *)
LEMMA OddStart == StartPlans(Odd)
<1>. SUFFICES ASSUME NEW g, NEW qs, NEW procs, NEW x, NEW W, NEW t,
                     Tidy(Odd, g, qs, procs), InTurns(Odd, g, qs, W, procs, t),
                     \A y \in Jobs : g.wall[y] > 0, W \in SUBSET Jobs, x \in W,
                     Placed(Odd, g, x), g.start[x] = t, t \in Nat
              PROVE  InTurns(Odd, g, qs, W \ {x}, procs, t)
  BY DEF StartPlans
<1>1. H!Tidy(g, qs, procs) /\ H!InTurns(g, qs, W, procs, t) /\ ~ H!Absent(g, x)
  BY OddOrder, OddTurns, OddPlaced
<1>2. g \in H!Tables /\ qs \in Seq(Seq(Jobs))
  BY <1>1 DEF H!Tidy
<1>3. H!InTurns(g, qs, W \ {x}, procs, t)
  BY <1>1, <1>2, OddCluster, H!TurnsStart
<1>. QED
  BY <1>3, OddTurns

(* So is the passage of time.                                              *)
LEMMA OddTick == TickPlans(Odd)
<1>. SUFFICES ASSUME NEW g, NEW qs, NEW procs, NEW W, NEW t,
                     Tidy(Odd, g, qs, procs), InTurns(Odd, g, qs, W, procs, t),
                     W \in SUBSET Jobs, t \in Nat, \A x \in W : Placed(Odd, g, x) => g.start[x] > t
              PROVE  InTurns(Odd, g, qs, W, procs, t + 1)
  BY DEF TickPlans
<1>1. H!Tidy(g, qs, procs) /\ H!InTurns(g, qs, W, procs, t)
  BY OddOrder, OddTurns
<1>2. /\ g \in H!Tables /\ qs \in Seq(Seq(Jobs))
      /\ \A x \in W : ~ H!Absent(g, x) => g.start[x] > t
  BY <1>1, OddPlaced DEF H!Tidy
<1>3. H!MovableFit(qs, W, procs)
  BY <1>1 DEF H!Tidy, H!MovableFit
<1>4. H!InTurns(g, qs, W, procs, t + 1)
  BY <1>1, <1>2, <1>3, OddCluster, H!TurnsTick
<1>. QED
  BY <1>4, OddTurns

(* And the empty table.                                                    *)
LEMMA OddEmpty == EmptyPlans(Odd)
<1>. SUFFICES ASSUME NEW g, NEW qs, NEW W, NEW procs, NEW t,
                     IsTable(Odd, g), \A n \in Grid(Odd) : g.chart[n] = <<>>,
                     qs \in Seq(Seq(Jobs)), Len(qs) # 0, \A p \in 1 .. Len(qs) : qs[p] = <<>>
              PROVE  Tidy(Odd, g, qs, procs) /\ InTurns(Odd, g, qs, W, procs, t)
  BY DEF EmptyPlans
<1>1. g \in H!Tables /\ \A n \in H!Nodes : g.chart[n] = <<>>
  BY OddOrder DEF Grid, H!Nodes
<1>2. H!Tidy(g, qs, procs) /\ H!InTurns(g, qs, W, procs, t)
  BY <1>1, OddCluster, H!OrderEmpty
<1>. QED
  BY <1>2, OddOrder, OddTurns

(* What its bids say of dates is true.                                     *)
LEMMA OddFirst == FirstPlans(Odd)
<1>. SUFFICES ASSUME NEW g, NEW nb, NEW t, NEW dur,
                     IsTable(Odd, g), nb \in Grid(Odd), t \in Nat
              PROVE  LET lead == C(Odd)!FcfsBid(g, nb, t).lead
                     IN  /\ lead \in Grid(Odd)
                         /\ \A n \in Grid(Odd) : Free(Odd, g, lead, t) =< Free(Odd, g, n, t)
                         /\ C(Odd)!CbfBid(g, nb, t, dur).start \in Nat
  BY DEF FirstPlans
<1>. DEFINE bid == H!FcfsBid(g, nb, t)
            gap == H!CbfBid(g, nb, t, dur)
<1>1. C(Odd)!FcfsBid(g, nb, t) = bid /\ C(Odd)!CbfBid(g, nb, t, dur) = gap
  BY OddFcfsBid, OddCbfBid
<1>2. g \in H!Tables /\ nb \in 1 .. Size[Odd] /\ nb \in Nat \ {0}
  BY OddOrder, OddCluster DEF Grid
<1>3. H!BidFits(g, bid) /\ H!BidFits(g, gap)
  BY <1>2, OddCluster, H!FcfsBidFits, H!CbfBidFits
<1>4. \A n \in H!Nodes : H!LastSlot(g, bid.lead, t) =< H!LastSlot(g, n, t)
  BY <1>2, OddCluster, H!FcfsFirst
<1>. HIDE DEF bid, gap
<1>5. bid.lead \in Grid(Odd) /\ gap.start \in Nat
  BY <1>3 DEF H!BidFits, H!Nodes, Grid
<1>6. \A n \in Grid(Odd) : Free(Odd, g, bid.lead, t) =< Free(Odd, g, n, t)
  BY <1>4, OddFree DEF H!Nodes, Grid
<1>. QED
  BY <1>1, <1>5, <1>6

(* And of the nodes.                                                       *)
LEMMA OddTime == FreePlans(Odd)
<1>. SUFFICES ASSUME NEW g, NEW n, NEW t, IsTable(Odd, g), n \in Grid(Odd), t \in Nat
              PROVE  /\ Free(Odd, g, n, t) \in Nat /\ t =< Free(Odd, g, n, t)
                     /\ \/ Free(Odd, g, n, t + 1) = Free(Odd, g, n, t)
                        \/ Free(Odd, g, n, t + 1) = t + 1
  BY DEF FreePlans
<1>1. g \in H!Tables /\ n \in H!Nodes
  BY OddOrder DEF Grid, H!Nodes
<1>2. H!LastSlot(g, n, t) \in Nat /\ t =< H!LastSlot(g, n, t)
  BY <1>1, OddCluster, H!LastSlotType
<1>3. H!LastSlot(g, n, t + 1) = H!LastSlot(g, n, t) \/ H!LastSlot(g, n, t + 1) = t + 1
  BY <1>1, OddCluster, H!LastSlotTick
<1>. QED
  BY <1>2, <1>3, OddFree

(* So no cluster is odd.                                                   *)
LEMMA AllPlan == \A c \in Clusters : Plans(c)
<1>1. Plans(Odd)
  BY OddTask, OddEnd, OddStart, OddTick, OddEmpty, OddFirst, OddTime DEF Plans
<1>2. \E c \in Clusters : (\E d \in Clusters : ~ Plans(d)) => ~ Plans(c)
  BY OddCluster
<1>3. (\E d \in Clusters : ~ Plans(d)) => ~ Plans(Odd)
  BY <1>2 DEF Odd
<1>. QED
  BY <1>1, <1>3

(* The operators of a cluster on its table.                                *)
LEMMA SameFree ==
  ASSUME NEW c, NEW g, NEW n, NEW t
  PROVE  C(c)!LastSlot(g, n, t) = Free(c, g, n, t) /\ (g \in C(c)!Tables <=> IsTable(c, g))
BY DEF Free, C!LastSlot, P!LastSlot, C!End, P!End, IsTable, C!Tables, P!Tables, C!Nodes, P!Nodes

-----------------------------------------------------------------------------
(***************************************************************************)
(* The tables of the clusters.                                             *)
(*                                                                         *)
(* The table of each cluster is in order, and its queues hold what it can  *)
(* plan, each job once and in the queue of its priority.  That stays true  *)
(* because a batch gets each job once (Bound) and its priority is clamped  *)
(* before it is sent: a prediction writes the priority of the job metaSched*)
(* asks for, which is in no queue yet.                                     *)
(***************************************************************************)
Procs == [x \in Jobs |-> job[x].procs]

Waits(k) == {x \in Jobs : k.state[x] = "WAITING"}

(* The queue of x, if c gets it.                                           *)
Level(c, x) == IF job[x].priority >= Levels[c] THEN Levels[c] ELSE job[x].priority + 1

(* metaSched is through with x.                                            *)
SentJob(x) == \E i \in DOMAIN JobList : i < pos /\ JobList[i] = x

TableOK(c) ==
  /\ Tidy(c, clusters[c].gantt, clusters[c].queues, Procs)
  /\ clusters[c].gantt.wall = [x \in Jobs |-> job[x].wall]
  /\ clusters[c].state = [x \in Jobs |-> clusters[c].state[x]]
  /\ \A p \in 1 .. Levels[c] : \A x \in Jobs :
       ~ G!NotIn(clusters[c].queues[p], x) => Level(c, x) = p

(* A job has to be sent before anything happens to it.                     *)
PhaseOK(c) ==
  \A x \in Jobs : /\ Here(c, x) => SentJob(x)
                  /\ clusters[c].state[x] # "WAITING" => SentJob(x) /\ ~ Bound(c, x)
                  /\ Bound(c, x) => ~ Keeping(c, clusters[c], x)

(* A message is no more than its name and its job, which a prediction has  *)
(* given a priority the cluster knows.                                     *)
MessageOK(c, q) ==
  /\ q = Question(q.name, q.job)
  /\ q.job \in Jobs \cup {NoJob}
  /\ q.name = "SB_TASK" => q.job \in Jobs /\ job[q.job].priority < Levels[c]

MessagesOK == \A c \in Clusters : \A q \in batchMail[c] : MessageOK(c, q)

(* metaSched has a job.                                                    *)
Choosing == mpc \in {"ask", "answer", "sleep", "send"}

(* A prediction has clamped the priority for the cluster that made it.     *)
ClampOK(c) == job[JobList[pos]].priority < Levels[c]

ClampsOK ==
  /\ mpc = "answer" => \A a \in Answers : a.name = "SB_PRED" => ClampOK(a.from)
  /\ Choosing /\ best # NoWinner => ClampOK(best.cluster)

TablesOK == \A c \in Clusters : TableOK(c) /\ PhaseOK(c)

TablesInv == PlacesInv /\ TablesOK /\ MessagesOK /\ ClampsOK

(* No step changes what the cluster knows of a job.                        *)
JobsKept ==
  /\ job' \in [Jobs -> Descriptions]
  /\ \A x \in Jobs : /\ job'[x].procs = job[x].procs /\ job'[x].wall = job[x].wall
                     /\ job'[x].priority =< job[x].priority
                     /\ SentJob(x) => job'[x].priority = job[x].priority

(* The queue of a job that was sent stays the same.                        *)
LEMMA LevelKept ==
  ASSUME JobsKept
  PROVE  /\ Procs' = Procs
         /\ [x \in Jobs |-> job[x].wall]' = [x \in Jobs |-> job[x].wall]
         /\ \A c \in Clusters : \A x \in Jobs : SentJob(x) => Level(c, x)' = Level(c, x)
BY DEF JobsKept, Procs, Level

(* A job that was sent stays so.                                           *)
LEMMA SentStays ==
  ASSUME pos \in Nat, pos' \in Nat, pos' >= pos
  PROVE  \A x : SentJob(x) => SentJob(x)'
<1>1. \A i \in DOMAIN JobList : i \in Nat
  BY ListJob
<1>. QED
  BY <1>1 DEF SentJob

(* A cluster that keeps its record.                                        *)
LEMMA CalmTable ==
  ASSUME TablesInv, JobsKept, pos' \in Nat, pos' >= pos, NEW c \in Clusters,
         clusters'[c] = clusters[c],
         \A q \in batchMail'[c] : q.name = "SB_TASK" => q \in batchMail[c]
  PROVE  TableOK(c)' /\ PhaseOK(c)'
<1>1. TableOK(c) /\ PhaseOK(c) /\ pos \in Nat
  BY DEF TablesInv, TablesOK, PlacesInv, MetaInv, PlaceOK
<1>2. \A x \in Jobs : SentJob(x) => SentJob(x)'
  BY <1>1, SentStays
<1>3. \A x : Bound(c, x)' => Bound(c, x)
  BY DEF Bound
<1>4. PhaseOK(c)'
  BY <1>1, <1>2, <1>3 DEF PhaseOK, Here
<1>5. ASSUME NEW p \in 1 .. Levels[c], NEW x \in Jobs, ~ G!NotIn(clusters[c].queues[p], x)
      PROVE  Level(c, x)' = p
  <2>1. SentJob(x)
    BY <1>1, <1>5 DEF PhaseOK, Here, Keeping
  <2>. QED
    BY <1>1, <1>5, <2>1, LevelKept DEF TableOK
<1>6. TableOK(c)'
  BY <1>1, <1>5, LevelKept DEF TableOK
<1>. QED
  BY <1>4, <1>6

(* What a batch does with the job it gets.                                 *)
TaskStep(c, x) ==
  /\ x \in Jobs /\ Level(c, x) \in 1 .. Levels[c] /\ Bound(c, x) /\ ~ Keeping(c, clusters[c], x)
  /\ clusters[c].state[x] = "WAITING"
  /\ UNCHANGED <<job, clock, pos>>
  /\ TaskDone(c, clusters[c].gantt, clusters'[c].gantt, clusters[c].queues, Procs, x,
              Level(c, x), clock)
  /\ clusters'[c].queues = G!Grown(clusters[c].queues, Level(c, x), x)
  /\ clusters'[c].state = clusters[c].state
  /\ KeepsWithin(c, clusters[c], clusters'[c], {x})
  /\ \A d \in Clusters : d # c => clusters'[d] = clusters[d]

(* A cluster that handles its SB_TASK keeps its table in order.            *)
LEMMA TaskSteps ==
  ASSUME TablesInv, NEW c \in Clusters, NEW q \in batchMail[c], ScheduleTask(c, q)
  PROVE  TaskStep(c, q.job)
<1>. DEFINE x == q.job
            k == clusters[c]
            p == Level(c, x)
            h == C(c)!WithTask(k, x)
<1>1. q.name = "SB_TASK" /\ UNCHANGED <<clock, pos>>
  BY DEF ScheduleTask, BatchTakes, metaVars
<1>2. x \in Jobs /\ job[x].priority < Levels[c] /\ Holds(c, x)
  BY <1>1 DEF TablesInv, MessagesOK, MessageOK, PlacesInv, MetaInv, SentOK
<1>3. /\ job \in [Jobs -> Descriptions] /\ ClusterShaped(c, k)
      /\ clusters = [d \in Clusters |-> clusters[d]]
  BY DEF TablesInv, PlacesInv, MetaInv, JobsOK, ClustersOK
<1>4. job[x].priority \in Nat /\ job[x].procs \in Nat \ {0} /\ job[x].deadline = -1
  BY <1>2, <1>3 DEF Descriptions
<1>5. Levels[c] \in Nat \ {0} /\ Size[c] \in Nat \ {0}
  BY SizesAssumption
<1>6. p \in 1 .. Levels[c] /\ C(c)!QueueOf(x) = p
  BY <1>4, <1>5 DEF C!QueueOf, Level
<1>7. C(c)!Admits(x)
  BY <1>2, <1>4 DEF C!Admits, C!Open, C!NoDeadline, Holds
<1>8. clusters' = [clusters EXCEPT ![c] = h] /\ job' = Clamped(c, x)
  BY <1>7 DEF ScheduleTask
<1>9. job' = job
  <2>1. ~ (job[x].priority >= Levels[c])
    BY <1>2, <1>4, <1>5
  <2>. QED
    BY <1>2, <1>3, <1>8, <2>1 DEF Clamped, Descriptions
<1>10. Bound(c, x) /\ ~ Keeping(c, k, x) /\ k.state[x] = "WAITING"
  BY <1>1, <1>2 DEF Bound, TablesInv, TablesOK, PhaseOK
<1>11. clusters'[c] = h /\ \A d \in Clusters : d # c => clusters'[d] = clusters[d]
  <2>. HIDE DEF h
  <2>. QED
    BY <1>3, <1>8
<1>12. /\ h.gantt = C(c)!Accept(k.gantt, x, C(c)!Bid(k, x))
       /\ h.queues = [k.queues EXCEPT ![p] = Append(k.queues[p], x)]
       /\ h.state = k.state
  BY <1>3, <1>6 DEF C!WithTask, ClusterShaped
<1>21. KeepsWithin(c, k, h, {x})
  BY <1>2, <1>3, <1>4, TaskKeeps
<1>. HIDE DEF h, k
<1>13. h.gantt = NextTable(c, k.gantt, x, Procs[x], clock)
  BY <1>2, <1>12 DEF C!Bid, NextTable, Procs
<1>14. h.queues = G!Grown(k.queues, p, x)
  BY <1>12 DEF G!Grown
<1>15. Tidy(c, k.gantt, k.queues, Procs)
  BY DEF TablesInv, TablesOK, TableOK, k
<1>16. Procs[x] \in Grid(c)
  BY <1>2, <1>4, <1>5 DEF Procs, Grid, Holds
<1>17. ~ Placed(c, k.gantt, x) /\ Len(k.queues) = Levels[c]
  BY <1>3, <1>5, <1>10 DEF Keeping, ClusterShaped
<1>18. G!Untraced(k.queues, x)
  BY <1>10, <1>17 DEF G!Untraced, Keeping
<1>19. clock \in Nat
  BY DEF TablesInv, PlacesInv, MetaInv, TimeOK
<1>. HIDE DEF p, x
<1>20. TaskFits(c, k.gantt, k.queues, Procs, x, p, clock)
  BY <1>2, <1>6, <1>15, <1>16, <1>17, <1>18, <1>19 DEF TaskFits
<1>22. TaskDone(c, k.gantt, h.gantt, k.queues, Procs, x, p, clock)
  BY <1>13, <1>20, AllPlan DEF Plans, TaskPlans
<1>. QED
  BY <1>1, <1>2, <1>6, <1>9, <1>10, <1>11, <1>12, <1>14, <1>21, <1>22 DEF TaskStep, k, p, x

(* What the end of j does.                                                 *)
EndStep(c, j) ==
  /\ clusters[c].state[j] = "PROCESSING"
  /\ EndDone(c, clusters[c].gantt, clusters'[c].gantt, clusters[c].queues, clusters'[c].queues,
             Procs, j, Waits(clusters[c]), clock)
  /\ LeftBy(clusters'[c].queues, clusters[c].queues, j)
  /\ clusters'[c].state = [clusters[c].state EXCEPT ![j] = "DONE"]
  /\ KeepsWithin(c, clusters[c], clusters'[c], {})
  /\ \A d \in Clusters : d # c => clusters'[d] = clusters[d]

(* So does one that handles an end.                                        *)
LEMMA EndSteps ==
  ASSUME TablesInv, NEW c \in Clusters, NEW j \in Jobs, FinishJob(c, j)
  PROVE  EndStep(c, j)
<1>. DEFINE k == clusters[c]
            S == Jobs \ {j}
            g == C(c)!DeleteDone(k.gantt, j)
            qs == [p \in 1 .. Levels[c] |-> G!Keep(k.queues[p], S)]
            rs == G!Keep(k.reserved, S)
            m == [k EXCEPT !.state[j] = "DONE", !.gantt = g, !.reserved = rs, !.queues = qs]
            h == C(c)!WithoutJob(k, j)
            W == Waits(k)
            procs == [x \in Jobs |-> job[x].procs]
<1>1. clusters' = [clusters EXCEPT ![c] = h] /\ k.state[j] = "PROCESSING"
  BY DEF FinishJob, C!MayEnd
<1>2. /\ job \in [Jobs -> Descriptions] /\ ClusterShaped(c, k)
      /\ clusters = [d \in Clusters |-> clusters[d]] /\ clock \in Nat
  BY DEF TablesInv, PlacesInv, MetaInv, JobsOK, ClustersOK, TimeOK
<1>3. Tidy(c, k.gantt, k.queues, Procs) /\ k.state = [x \in Jobs |-> k.state[x]]
  BY DEF TablesInv, TablesOK, TableOK
<1>4. clusters'[c] = h /\ \A d \in Clusters : d # c => clusters'[d] = clusters[d]
  <2>. HIDE DEF h
  <2>. QED
    BY <1>1, <1>2
<1>5. h = C(c)!Replanned(m)
  BY <1>2 DEF C!WithoutJob, ClusterShaped, C!Queues, C!Keep, G!Keep
<1>6. /\ DOMAIN m = DOMAIN k
      /\ m.gantt = g /\ m.queues = qs /\ m.reserved = rs
      /\ m.state = [k.state EXCEPT ![j] = "DONE"]
  BY <1>2 DEF ClusterShaped
<1>7. \A x \in Jobs : C(c)!Open(x)
  BY <1>2 DEF C!Open, C!NoDeadline, Descriptions
<1>14. KeepsWithin(c, k, h, {})
  BY <1>2, EndKeeps
<1>. DEFINE waiting == {x \in Jobs : m.state[x] = "WAITING"}
            movable == {x \in waiting : C(c)!Open(x)}
<1>. HIDE DEF h, m, g, qs, rs, k
<1>8. /\ h.gantt = C(c)!Reschedule(Plugins[c], g, qs, waiting, movable, procs, clock)
      /\ h.queues = qs /\ h.state = m.state
  BY <1>2, <1>5, <1>6 DEF C!Replanned, ClusterShaped
<1>9. waiting = W /\ movable = W /\ W \in SUBSET Jobs
  <2>1. \A x \in Jobs : m.state[x] = "WAITING" <=> k.state[x] = "WAITING"
    BY <1>1, <1>3, <1>6 DEF k
  <2>. QED
    BY <1>7, <2>1 DEF Waits
<1>. HIDE DEF waiting, movable, W
<1>10. Levels[c] \in Nat
  BY SizesAssumption
<1>11. LeftBy(qs, k.queues, j)
  <2>1. \A p \in 1 .. Levels[c] : G!Keep(k.queues[p], S) \in Seq(Jobs)
    BY <1>2, KeptHeld DEF ClusterShaped
  <2>2. qs \in [1 .. Levels[c] -> Seq(Jobs)]
    BY <2>1 DEF qs
  <2>3. qs \in Seq(Seq(Jobs)) /\ Len(qs) = Levels[c] /\ Len(k.queues) = Levels[c]
    BY <1>2, <1>10, <2>2 DEF ClusterShaped
  <2>. QED
    BY <2>3 DEF LeftBy, qs
<1>12. EndDone(c, k.gantt, h.gantt, k.queues, qs, procs, j, W, clock)
  <2>1. Tidy(c, k.gantt, k.queues, procs)
    BY <1>3 DEF Procs, k
  <2>. HIDE DEF procs
  <2>2. h.gantt = C(c)!Reschedule(Plugins[c], C(c)!DeleteDone(k.gantt, j), qs, W, W, procs, clock)
    BY <1>8, <1>9 DEF g
  <2>. QED
    BY <1>2, <1>9, <1>11, <2>1, <2>2, AllPlan DEF Plans, EndPlans
<1>13. procs = Procs
  BY DEF Procs
<1>. HIDE DEF procs
<1>. QED
  BY <1>1, <1>4, <1>6, <1>8, <1>11, <1>12, <1>13, <1>14 DEF EndStep, k, W

(* What the start of j does.                                               *)
StartStep(c, j) ==
  /\ Placed(c, clusters[c].gantt, j) /\ clusters[c].gantt.start[j] = clock
  /\ clusters[c].state[j] \in {"WAITING", "RESERVED"}
  /\ clusters'[c].gantt = clusters[c].gantt /\ clusters'[c].queues = clusters[c].queues
  /\ clusters'[c].reserved = clusters[c].reserved
  /\ clusters'[c].state = [clusters[c].state EXCEPT ![j] = "PROCESSING"]
  /\ \A d \in Clusters : d # c => clusters'[d] = clusters[d]

(* So does one that starts a job.                                          *)
LEMMA StartSteps ==
  ASSUME TablesInv, NEW c \in Clusters, NEW j \in Jobs, StartJob(c, j)
  PROVE  StartStep(c, j)
<1>. DEFINE k == clusters[c]
            h == [k EXCEPT !.state[j] = "PROCESSING"]
<1>1. /\ clusters = [d \in Clusters |-> clusters[d]] /\ ClusterShaped(c, k)
  BY DEF TablesInv, PlacesInv, ClustersOK
<1>2. clusters' = [clusters EXCEPT ![c] = h]
  BY <1>1 DEF StartJob
<1>3. j \in C(c)!InTable(k) /\ k.state[j] \in {"WAITING", "RESERVED"} /\ k.gantt.start[j] = clock
  BY DEF StartJob, C!Due, C!ToStart
<1>4. Placed(c, k.gantt, j)
  <2>1. \E n \in Grid(c) : \E i \in DOMAIN k.gantt.chart[n] : k.gantt.chart[n][i] = j
    BY <1>3 DEF C!InTable, C!Planned, C!Nodes, Grid
  <2>. QED
    BY <1>1, <2>1 DEF Placed, ClusterShaped, Shaped, G!NotIn
<1>5. clusters'[c] = h /\ \A d \in Clusters : d # c => clusters'[d] = clusters[d]
  <2>. HIDE DEF h
  <2>. QED
    BY <1>1, <1>2
<1>. HIDE DEF k
<1>6. /\ h.gantt = k.gantt /\ h.queues = k.queues /\ h.reserved = k.reserved
      /\ h.state = [k.state EXCEPT ![j] = "PROCESSING"]
  BY <1>1 DEF ClusterShaped
<1>. QED
  BY <1>3, <1>4, <1>5, <1>6 DEF StartStep, k

(* The steps that write no job.                                            *)
LEMMA SameKept ==
  ASSUME TablesInv, UNCHANGED job
  PROVE  JobsKept
BY DEF TablesInv, PlacesInv, MetaInv, JobsOK, JobsKept, Descriptions

(* metaSched is not through with the job it has.                           *)
LEMMA NotSent ==
  ASSUME TablesInv, Choosing
  PROVE  /\ pos \in DOMAIN JobList /\ pos \in Nat /\ JobList[pos] \in Jobs
         /\ ~ SentJob(JobList[pos])
<1>1. pos \in DOMAIN JobList /\ pos \in Nat /\ JobList[pos] \in Jobs
  BY PosJob DEF TablesInv, PlacesInv, MetaInv, PlaceOK, Choosing
<1>2. \A i \in DOMAIN JobList : i \in Nat
  BY ListJob
<1>3. ASSUME SentJob(JobList[pos]) PROVE FALSE
  <2>1. PICK i \in DOMAIN JobList : i < pos /\ JobList[i] = JobList[pos]
    BY <1>3 DEF SentJob
  <2>. QED
    BY <1>1, <1>2, <2>1, ListOnceAssumption
<1>. QED
  BY <1>1, <1>3

(* A prediction writes the priority of the job metaSched has.              *)
LEMMA PredictKept ==
  ASSUME TablesInv, NEW c \in Clusters, NEW q \in batchMail[c], PredictSchedule(c, q)
  PROVE  /\ mpc = "answer" /\ c = at /\ q.job = JobList[pos] /\ JobsKept
         /\ job[q.job].procs =< Size[c] => ClampOK(c)'
<1>1. q \in Asked(c) /\ q.name = "SED_PRED" /\ pos' = pos
  BY DEF PredictSchedule, Asked, BatchTakes, metaVars
<1>2. c = at /\ Waiting /\ GoodQuestion(q)
  BY <1>1, AskedIsAsked DEF TablesInv, PlacesInv
<1>3. mpc = "answer" /\ q.job = JobList[pos]
  BY <1>1, <1>2 DEF GoodQuestion, Waiting, About
<1>4. q.job \in Jobs /\ ~ SentJob(q.job)
  BY <1>3, NotSent DEF Choosing
<1>5. job \in [Jobs -> Descriptions]
  BY DEF TablesInv, PlacesInv, MetaInv, JobsOK
<1>6. Levels[c] \in Nat \ {0} /\ job[q.job].priority \in Nat
  BY <1>4, <1>5, SizesAssumption DEF Descriptions
<1>7. CASE job[q.job].procs =< Size[c]
  <2>1. job' = Clamped(c, q.job)
    BY <1>7 DEF PredictSchedule
  <2>2. /\ job'[q.job].priority = IF job[q.job].priority >= Levels[c] THEN Levels[c] - 1
                                    ELSE job[q.job].priority
        /\ job'[q.job].procs = job[q.job].procs /\ job'[q.job].wall = job[q.job].wall
        /\ \A x \in Jobs : x # q.job => job'[x] = job[x]
    BY <1>4, <1>5, <2>1 DEF Clamped, Descriptions
  <2>3. job' \in [Jobs -> Descriptions]
    BY <1>4, <1>5, <2>1, ClampedKeeps
  <2>4. \A x \in Jobs : job[x].priority \in Nat
    BY <1>5 DEF Descriptions
  <2>5. JobsKept
    BY <1>4, <1>6, <2>2, <2>3, <2>4 DEF JobsKept
  <2>6. ClampOK(c)'
    BY <1>1, <1>3, <1>6, <2>2 DEF ClampOK
  <2>. QED
    BY <1>2, <1>3, <2>5, <2>6
<1>8. CASE ~ (job[q.job].procs =< Size[c])
  <2>1. JobsKept
    BY <1>8, SameKept DEF PredictSchedule
  <2>. QED
    BY <1>2, <1>3, <1>8, <2>1
<1>. QED
  BY <1>7, <1>8

(* The batches write no record.                                            *)
LEMMA CalmTables ==
  ASSUME TablesInv, JobsKept, pos' \in Nat, pos' >= pos, UNCHANGED clusters,
         \A c \in Clusters : \A q \in batchMail'[c] : q.name = "SB_TASK" => q \in batchMail[c]
  PROVE  TablesOK'
<1>1. \A c \in Clusters : TableOK(c)' /\ PhaseOK(c)'
  BY CalmTable
<1>. QED
  BY <1>1 DEF TablesOK

(* No message is added.                                                    *)
LEMMA MessagesStay ==
  ASSUME TablesInv, JobsKept, \A c \in Clusters : batchMail'[c] \subseteq batchMail[c]
  PROVE  MessagesOK'
<1>1. ASSUME NEW c \in Clusters, NEW q \in batchMail'[c] PROVE MessageOK(c, q)'
  <2>1. MessageOK(c, q)
    BY DEF TablesInv, MessagesOK
  <2>2. Levels[c] \in Nat
    BY SizesAssumption
  <2>3. \A x \in Jobs : /\ job[x].priority \in Nat /\ job'[x].priority \in Nat
                        /\ job'[x].priority =< job[x].priority
    BY DEF JobsKept, Descriptions, TablesInv, PlacesInv, MetaInv, JobsOK
  <2>. QED
    BY <2>1, <2>2, <2>3 DEF MessageOK
<1>. QED
  BY <1>1 DEF MessagesOK

(* It has the job it had, and what it knows of it.                         *)
LEMMA ClampStays ==
  ASSUME TablesInv, JobsKept, Choosing, pos' = pos, NEW c \in Clusters, ClampOK(c)
  PROVE  ClampOK(c)'
<1>1. JobList[pos] \in Jobs
  BY NotSent
<1>2. /\ job[JobList[pos]].priority \in Nat /\ job'[JobList[pos]].priority \in Nat
      /\ job'[JobList[pos]].priority =< job[JobList[pos]].priority
  BY <1>1 DEF JobsKept, Descriptions, TablesInv, PlacesInv, MetaInv, JobsOK
<1>3. Levels[c] \in Nat
  BY SizesAssumption
<1>. QED
  BY <1>2, <1>3 DEF ClampOK

(* The winner is a cluster; so is who answers.                             *)
LEMMA FromClusters ==
  ASSUME MetaInv
  PROVE  /\ Choosing /\ best # NoWinner => best.cluster \in Clusters
         /\ at \in Clusters
         /\ \A a \in Answers : Waiting /\ GoodAnswer(a) /\ a.from = at
         /\ metaMail \subseteq Answers /\ \A c \in Clusters : sedMail[c] \subseteq Answers
<1>1. \A a \in Answers : Waiting /\ GoodAnswer(a)
  <2>1. \A c \in Clusters : c # at \/ ~ Waiting => sedMail[c] = {}
    BY DEF MetaInv, OneMessage, NoneAt
  <2>. QED
    BY <2>1 DEF Answers, MetaInv, OneMessage
<1>2. metaMail \subseteq Answers /\ \A c \in Clusters : sedMail[c] \subseteq Answers
  BY DEF Answers
<1>3. Choosing /\ best # NoWinner => best.cluster \in Clusters
  BY DEF MetaInv, WinnerOK, WinnerHolds, Choosing
<1>. QED
  BY <1>1, <1>2, <1>3 DEF MetaInv, PlaceOK, GoodAnswer

(* The steps metaSched has no part in.                                     *)
LEMMA ClampsStay ==
  ASSUME TablesInv, JobsKept, pos' = pos, best' = best, mpc' = "answer" => mpc = "answer",
         Choosing' => Choosing,
         \A a \in Answers' :
           a \in Answers \/ (a.name = "SB_PRED" => a.from \in Clusters /\ ClampOK(a.from)')
  PROVE  ClampsOK'
<1>0. MetaInv
  BY DEF TablesInv, PlacesInv
<1>1. ASSUME mpc' = "answer", NEW a \in Answers', a.name = "SB_PRED"
      PROVE  ClampOK(a.from)'
  <2>1. CASE a \in Answers
    <3>1. a.from \in Clusters /\ Choosing
      BY <1>0, <1>1, <2>1, FromClusters DEF Choosing
    <3>2. ClampOK(a.from)
      BY <1>1, <2>1 DEF TablesInv, ClampsOK
    <3>. QED
      BY <3>1, <3>2, ClampStays
  <2>. QED
    BY <1>1, <2>1
<1>2. ASSUME Choosing', best' # NoWinner
      PROVE  ClampOK(best.cluster)'
  <2>1. best.cluster \in Clusters /\ ClampOK(best.cluster)
    BY <1>0, <1>2, FromClusters DEF TablesInv, ClampsOK
  <2>. QED
    BY <1>2, <2>1, ClampStays
<1>. QED
  BY <1>1, <1>2 DEF ClampsOK

(* The next job has no winner yet.                                         *)
LEMMA NextClamps ==
  ASSUME NEW p, NextJob(p)
  PROVE  ClampsOK'
BY DEF NextJob, ClampsOK

-----------------------------------------------------------------------------
(* The steps.                                                              *)

(* A sed hands a message of metaSched on to its batch.                     *)
LEMMA SedTables ==
  ASSUME TablesInv, NEW c \in Clusters, SedReceive(c)
  PROVE  TablesOK' /\ MessagesOK' /\ ClampsOK'
<1>1. Sending /\ c = Target /\ Forward(c, Sent) /\ UNCHANGED <<clock, job, clusters, sedMail>>
  BY DEF SedReceive
<1>2. JobsKept
  BY <1>1, SameKept
<1>3. /\ batchMail = [d \in Clusters |-> batchMail[d]] /\ pos \in Nat \ {0} /\ MetaInv
      /\ ~ Waiting
  BY <1>1 DEF TablesInv, PlacesInv, MetaInv, MailTyped, PlaceOK, Sending, Waiting
<1>4. /\ \A d \in Clusters : d # c => batchMail'[d] = batchMail[d]
      /\ \A q \in batchMail'[c] : q \in batchMail[c] \/ q = Sent
  BY <1>1, <1>3 DEF Forward
<1>5. CASE mpc # "send"
  <2>1. pos' = pos /\ best' = best /\ (mpc' = "answer" <=> mpc = "ask") /\ Sent.name # "SB_TASK"
    BY <1>1, <1>5 DEF SedReceive, Sending, Sent, Question
  <2>2. \A d \in Clusters : \A q \in batchMail'[d] : q.name = "SB_TASK" => q \in batchMail[d]
    BY <1>4, <2>1
  <2>3. TablesOK'
    BY <1>1, <1>2, <1>3, <2>1, <2>2, CalmTables
  <2>4. /\ Sent = Question(Sent.name, Sent.job) /\ Sent.job \in Jobs \cup {NoJob}
    <3>1. CASE mpc = "init"
      BY <3>1 DEF Sent, Question
    <3>2. CASE mpc = "ask"
      <4>1. JobList[pos] \in Jobs
        BY <3>2, NotSent DEF Choosing
      <4>. QED
        BY <3>2, <4>1 DEF Sent, Question
    <3>. QED
      BY <1>1, <1>5, <3>1, <3>2 DEF Sending
  <2>5. MessagesOK'
    <3>1. ASSUME NEW d \in Clusters, NEW q \in batchMail'[d] PROVE MessageOK(d, q)'
      <4>1. CASE q \in batchMail[d]
        BY <1>1, <4>1 DEF TablesInv, MessagesOK, MessageOK
      <4>2. CASE q = Sent
        BY <2>1, <2>4, <4>2 DEF MessageOK
      <4>. QED
        BY <1>4, <4>1, <4>2
    <3>. QED
      BY <3>1 DEF MessagesOK
  <2>6. ClampsOK'
    <3>1. Answers = {}
      BY <1>3, FromClusters
    <3>2. \A a \in Answers' : a.name # "SB_PRED"
      <4>1. \A a \in metaMail' : a \in metaMail \/ a = Answer("SB_SERVICE_KO", c, Sent.job, 0)
        BY <1>1 DEF Forward
      <4>2. \A a \in metaMail' : a.name # "SB_PRED"
        BY <3>1, <4>1 DEF Answers, Answer
      <4>. QED
        BY <1>1, <3>1, <4>2 DEF Answers
    <3>3. ASSUME Choosing', best' # NoWinner PROVE ClampOK(best.cluster)'
      <4>1. Choosing
        BY <1>1, <1>5, <3>3 DEF SedReceive, Choosing, Sending
      <4>2. ClampOK(best.cluster)
        BY <2>1, <3>3, <4>1 DEF TablesInv, ClampsOK
      <4>. QED
        BY <1>1, <2>1, <4>2 DEF ClampOK
    <3>. QED
      BY <2>1, <3>2, <3>3 DEF ClampsOK
  <2>. QED
    BY <2>3, <2>5, <2>6
<1>6. CASE mpc = "send"
  <2>0. PICK x : x = JobList[pos]
    OBVIOUS
  <2>1. Sent = Question("SB_TASK", x) /\ NextJob(pos + 1) /\ c = best.cluster /\ pos' = pos + 1
    BY <1>1, <1>6, <2>0 DEF SedReceive, Sent, NextJob, Target
  <2>2. ClampsOK'
    BY <2>1, NextClamps
  <2>3. ClampOK(c)
    <3>1. best # NoWinner
      BY <2>1, ClustersAssumption DEF NoWinner, Clusters
    <3>. QED
      BY <1>6, <2>1, <3>1 DEF TablesInv, ClampsOK, Choosing
  <2>4. x \in Jobs /\ pos \in DOMAIN JobList /\ ~ SentJob(x)
    BY <1>6, <2>0, NotSent DEF Choosing
  <2>5. MessagesOK'
    <3>1. ASSUME NEW d \in Clusters, NEW q \in batchMail'[d] PROVE MessageOK(d, q)'
      <4>1. CASE q \in batchMail[d]
        BY <1>1, <4>1 DEF TablesInv, MessagesOK, MessageOK
      <4>2. CASE q = Sent /\ d = c
        BY <1>1, <2>0, <2>1, <2>3, <2>4, <4>2 DEF MessageOK, Question, ClampOK
      <4>. QED
        BY <1>4, <4>1, <4>2
    <3>. QED
      BY <3>1 DEF MessagesOK
  <2>6. \A d \in Clusters : ~ Here(d, x)
    <3>1. pos >= pos
      BY <1>3
    <3>. QED
      BY <2>0, <2>4, <3>1 DEF TablesInv, PlacesInv, NotYet
  <2>7. pos \in Nat /\ pos' \in Nat /\ pos' >= pos /\ pos < pos'
    BY <1>3, <2>1
  <2>8. SentJob(x)'
    <3>1. pos \in DOMAIN JobList /\ pos < pos' /\ JobList[pos] = x
      BY <2>0, <2>4, <2>7
    <3>. QED
      BY <3>1 DEF SentJob
  <2>9. \A y : SentJob(y) => SentJob(y)'
    BY <2>7, SentStays
  <2>10. ASSUME NEW d \in Clusters PROVE TableOK(d)' /\ PhaseOK(d)'
    <3>1. TableOK(d) /\ PhaseOK(d)
      BY DEF TablesInv, TablesOK
    <3>2. \A y : Bound(d, y)' => Bound(d, y) \/ (y = x /\ d = c)
      BY <1>4, <2>1 DEF Bound, Question
    <3>3. TableOK(d)'
      BY <1>1, <3>1 DEF TableOK, Procs, Level
    <3>4. PhaseOK(d)'
      <4>1. SUFFICES ASSUME NEW y \in Jobs
                     PROVE  /\ Here(d, y)' => SentJob(y)'
                            /\ clusters[d].state[y] # "WAITING" => SentJob(y)' /\ ~ Bound(d, y)'
                            /\ Bound(d, y)' => ~ Keeping(d, clusters[d], y)
        BY <1>1 DEF PhaseOK
      <4>2. Here(d, y)' => Here(d, y) \/ Bound(d, y)'
        BY <1>1 DEF Here
      <4>3. CASE y # x
        BY <2>9, <3>1, <3>2, <4>2, <4>3 DEF PhaseOK, Here
      <4>4. CASE y = x
        BY <2>4, <2>6, <2>8, <3>1, <4>4 DEF PhaseOK, Here
      <4>. QED
        BY <4>3, <4>4
    <3>. QED
      BY <3>3, <3>4
  <2>. QED
    BY <2>2, <2>5, <2>10 DEF TablesOK
<1>. QED
  BY <1>5, <1>6

(* Steps that write neither a record nor a job.                            *)
LEMMA CalmSteps ==
  ASSUME TablesInv, UNCHANGED <<job, clusters>>, pos' \in Nat, pos' >= pos,
         \A c \in Clusters : batchMail'[c] \subseteq batchMail[c]
  PROVE  TablesOK' /\ MessagesOK'
<1>1. JobsKept
  BY SameKept
<1>2. MessagesOK'
  BY <1>1, MessagesStay
<1>3. TablesOK'
  BY <1>1, CalmTables
<1>. QED
  BY <1>2, <1>3

(* An answer that is handed on changes no table.                           *)
LEMMA RelayTables ==
  ASSUME TablesInv, NEW c \in Clusters, SedRelay(c)
  PROVE  TablesOK' /\ MessagesOK' /\ ClampsOK'
<1>1. PICK a \in sedMail[c] :
        /\ sedMail' = [sedMail EXCEPT ![c] = @ \ {a}] /\ metaMail' = metaMail \cup {a}
        /\ UNCHANGED <<clock, job, clusters, metaVars, batchMail>>
  BY DEF SedRelay
<1>2. /\ pos' = pos /\ best' = best /\ mpc' = mpc /\ pos \in Nat
      /\ sedMail = [d \in Clusters |-> sedMail[d]]
  BY <1>1 DEF metaVars, TablesInv, PlacesInv, MetaInv, PlaceOK, MailTyped
<1>3. TablesOK' /\ MessagesOK'
  BY <1>1, <1>2, CalmSteps
<1>4. \A d \in Clusters : sedMail'[d] \subseteq sedMail[d]
  BY <1>1, <1>2
<1>5. \A b \in Answers' : b \in Answers
  BY <1>1, <1>4 DEF Answers
<1>6. JobsKept
  BY <1>1, SameKept
<1>7. ClampsOK'
  BY <1>2, <1>5, <1>6, ClampsStay DEF Choosing
<1>. QED
  BY <1>3, <1>7

(* An answer of the batch to its sed.                                      *)
LEMMA ReplyAdds ==
  ASSUME MetaInv, NEW c \in Clusters, NEW a, Reply(c, a), UNCHANGED metaMail
  PROVE  \A b \in Answers' : b \in Answers \/ b = a
<1>1. sedMail = [d \in Clusters |-> sedMail[d]]
  BY DEF MetaInv, MailTyped
<1>2. \A d \in Clusters : \A b \in sedMail'[d] : b \in sedMail[d] \/ b = a
  BY <1>1 DEF Reply
<1>. QED
  BY <1>2 DEF Answers

(* What a batch takes from its mail.                                       *)
LEMMA BatchLess ==
  ASSUME TablesInv, NEW c \in Clusters, NEW q \in batchMail[c], BatchTakes(c, q)
  PROVE  /\ \A d \in Clusters : batchMail'[d] \subseteq batchMail[d]
         /\ q \notin batchMail'[c]
         /\ UNCHANGED <<clock, metaVars, metaMail>> /\ pos' = pos /\ pos \in Nat
         /\ best' = best /\ mpc' = mpc
<1>1. /\ batchMail' = [batchMail EXCEPT ![c] = @ \ {q}] /\ UNCHANGED <<clock, metaVars, metaMail>>
      /\ batchMail = [d \in Clusters |-> batchMail[d]] /\ pos \in Nat
  BY DEF BatchTakes, TablesInv, PlacesInv, MetaInv, MailTyped, PlaceOK
<1>. QED
  BY <1>1 DEF metaVars

(* Nor does the answer to PF_INIT.                                         *)
LEMMA InitPfTables ==
  ASSUME TablesInv, NEW c \in Clusters, NEW q \in batchMail[c], InitPf(c, q)
  PROVE  TablesOK' /\ MessagesOK' /\ ClampsOK'
<1>0. PICK a : a = Answer("SB_INIT", c, q.job, Size[c])
  OBVIOUS
<1>1. Reply(c, a) /\ BatchTakes(c, q) /\ UNCHANGED <<job, clusters>> /\ a.name # "SB_PRED"
  BY <1>0 DEF InitPf, Answer
<1>2. /\ \A d \in Clusters : batchMail'[d] \subseteq batchMail[d]
      /\ UNCHANGED metaMail /\ pos' = pos /\ pos \in Nat /\ best' = best /\ mpc' = mpc
  BY <1>1, BatchLess
<1>3. TablesOK' /\ MessagesOK'
  BY <1>1, <1>2, CalmSteps
<1>4. JobsKept /\ MetaInv
  BY <1>1, SameKept DEF TablesInv, PlacesInv
<1>5. \A b \in Answers' : b \in Answers \/ b = a
  BY <1>1, <1>2, <1>4, ReplyAdds
<1>6. ClampsOK'
  BY <1>1, <1>2, <1>4, <1>5, ClampsStay DEF Choosing
<1>. QED
  BY <1>3, <1>6

(* A prediction clamps the priority of its job, and no other.              *)
LEMMA PredictTables ==
  ASSUME TablesInv, NEW c \in Clusters, NEW q \in batchMail[c], PredictSchedule(c, q)
  PROVE  TablesOK' /\ MessagesOK' /\ ClampsOK'
<1>0. PICK a : a = IF job[q.job].procs =< Size[c]
                     THEN Answer("SB_PRED", c, q.job, FirstSlot(c, q.job))
                     ELSE Answer("SB_CLUSTER_KO", c, q.job, 0)
  OBVIOUS
<1>1. Reply(c, a) /\ BatchTakes(c, q) /\ UNCHANGED clusters
  BY <1>0 DEF PredictSchedule
<1>2. /\ \A d \in Clusters : batchMail'[d] \subseteq batchMail[d]
      /\ UNCHANGED metaMail /\ pos' = pos /\ pos \in Nat /\ best' = best /\ mpc' = mpc
  BY <1>1, BatchLess
<1>3. /\ JobsKept /\ MetaInv
      /\ job[q.job].procs =< Size[c] => ClampOK(c)'
  BY PredictKept DEF TablesInv, PlacesInv
<1>4. TablesOK'
  BY <1>1, <1>2, <1>3, CalmTables
<1>5. MessagesOK'
  BY <1>2, <1>3, MessagesStay
<1>6. \A b \in Answers' : b \in Answers \/ b = a
  BY <1>1, <1>2, <1>3, ReplyAdds
<1>7. a.name = "SB_PRED" => a.from = c /\ ClampOK(c)'
  BY <1>0, <1>3 DEF Answer
<1>8. ClampsOK'
  BY <1>2, <1>3, <1>6, <1>7, ClampsStay DEF Choosing
<1>. QED
  BY <1>4, <1>5, <1>8

(* metaSched takes the number of nodes.                                    *)
LEMMA InformTables ==
  ASSUME TablesInv, Inform
  PROVE  TablesOK' /\ MessagesOK' /\ ClampsOK'
<1>1. /\ mpc = "inform" /\ UNCHANGED <<job, clusters, batchMail>> /\ pos = 1
      /\ \/ NextJob(1)
         \/ mpc' = "init" /\ pos' = pos
  BY DEF Inform, TablesInv, PlacesInv, MetaInv, PlaceOK
<1>2. pos' = pos
  BY <1>1 DEF NextJob
<1>3. TablesOK' /\ MessagesOK'
  BY <1>1, <1>2, CalmSteps
<1>4. ClampsOK'
  <2>1. CASE NextJob(1)
    BY <2>1, NextClamps
  <2>2. CASE mpc' = "init"
    BY <2>2 DEF ClampsOK, Choosing
  <2>. QED
    BY <1>1, <2>1, <2>2
<1>. QED
  BY <1>3, <1>4

(* The best answer so far is one of a cluster that has clamped.            *)
LEMMA TakeTables ==
  ASSUME TablesInv, TakeAnswer
  PROVE  TablesOK' /\ MessagesOK' /\ ClampsOK'
<1>1. PICK a \in metaMail :
        \/ at < NbClusters /\ mpc' = "ask" /\ best' = Judged(a).best /\ pos' = pos
        \/ Drop
        \/ at = NbClusters /\ mpc' = "sleep" /\ best' = Judged(a).best /\ pos' = pos
  BY DEF TakeAnswer
<1>2. /\ mpc = "answer" /\ UNCHANGED <<job, clusters, batchMail>> /\ pos \in Nat /\ MetaInv
  BY DEF TakeAnswer, TablesInv, PlacesInv, MetaInv, PlaceOK
<1>3. pos' \in Nat /\ pos' >= pos
  BY <1>1, <1>2 DEF Drop, NextJob
<1>4. TablesOK' /\ MessagesOK'
  BY <1>2, <1>3, CalmSteps
<1>5. CASE Drop
  <2>1. PICK p : NextJob(p)
    BY <1>5 DEF Drop
  <2>. QED
    BY <1>4, <2>1, NextClamps
<1>6. CASE ~ Drop
  <2>1. mpc' # "answer" /\ best' = Judged(a).best /\ pos' = pos
    BY <1>1, <1>6
  <2>2. a \in Answers
    BY DEF Answers
  <2>3. a.from = at /\ at \in Clusters
    BY <1>2, <2>2, FromClusters
  <2>4. a.name = "SB_PRED" => ClampOK(a.from)
    BY <1>2, <2>2 DEF TablesInv, ClampsOK
  <2>5. \/ best' = best
        \/ a.name = "SB_PRED" /\ best'.cluster = a.from
    BY <2>1 DEF Judged
  <2>6. ASSUME best' # NoWinner PROVE ClampOK(best.cluster)'
    <3>1. \/ best.cluster \in Clusters /\ ClampOK(best.cluster) /\ best'.cluster = best.cluster
          \/ a.from \in Clusters /\ ClampOK(a.from) /\ best'.cluster = a.from
      BY <1>2, <2>3, <2>4, <2>5, <2>6, FromClusters DEF TablesInv, ClampsOK, Choosing
    <3>. QED
      BY <1>2, <2>1, <3>1 DEF ClampOK
  <2>. QED
    BY <1>4, <2>1, <2>6 DEF ClampsOK
<1>. QED
  BY <1>4, <1>5, <1>6

(* Nobody takes part in it who sends a message.                            *)
LEMMA QuietClamps ==
  ASSUME TablesInv, UNCHANGED <<job, metaMail, sedMail, batchMail, pos, best>>,
         mpc' = "answer" => mpc = "answer", Choosing' => Choosing
  PROVE  MessagesOK' /\ ClampsOK'
<1>1. JobsKept
  BY SameKept
<1>2. \A a \in Answers' : a \in Answers
  BY DEF Answers
<1>3. ClampsOK'
  BY <1>1, <1>2, ClampsStay
<1>4. MessagesOK'
  BY <1>1, MessagesStay
<1>. QED
  BY <1>3, <1>4

(* Time, and the end of a sleep, change no table.                          *)
LEMMA QuietTables ==
  ASSUME TablesInv, WakeUp \/ Tick \/ UNCHANGED vars
  PROVE  TablesOK' /\ MessagesOK' /\ ClampsOK'
<1>1. /\ UNCHANGED <<job, clusters, metaMail, sedMail, batchMail, pos, best>>
      /\ mpc' = "answer" => mpc = "answer"
      /\ Choosing' => Choosing
  BY DEF WakeUp, Tick, vars, metaVars, mailVars, Choosing
<1>2. pos \in Nat
  BY DEF TablesInv, PlacesInv, MetaInv, PlaceOK
<1>3. TablesOK'
  BY <1>1, <1>2, CalmSteps
<1>4. MessagesOK' /\ ClampsOK'
  BY <1>1, QuietClamps
<1>. QED
  BY <1>3, <1>4

(* The one message that sends x to c.                                      *)
LEMMA BoundBy ==
  ASSUME MessagesOK, NEW c \in Clusters, NEW q \in batchMail[c], q.name = "SB_TASK",
         q \notin batchMail'[c], batchMail'[c] \subseteq batchMail[c]
  PROVE  ~ Bound(c, q.job)'
<1>1. q = Question("SB_TASK", q.job)
  BY DEF MessagesOK, MessageOK
<1>2. SUFFICES ASSUME NEW o \in batchMail'[c], o.name = "SB_TASK", o.job = q.job PROVE FALSE
  BY DEF Bound
<1>3. o = Question("SB_TASK", q.job)
  BY <1>2 DEF MessagesOK, MessageOK
<1>. QED
  BY <1>1, <1>3

(* A batch plans the job it got.                                           *)
LEMMA TaskTables ==
  ASSUME TablesInv, NEW c \in Clusters, NEW q \in batchMail[c], ScheduleTask(c, q)
  PROVE  TablesOK' /\ MessagesOK' /\ ClampsOK'
<1>0. PICK x : x = q.job
  OBVIOUS
<1>1. TaskStep(c, x) /\ BatchTakes(c, q) /\ q.name = "SB_TASK" /\ sedMail' = sedMail
  BY <1>0, TaskSteps DEF ScheduleTask
<1>2. /\ \A d \in Clusters : batchMail'[d] \subseteq batchMail[d]
      /\ q \notin batchMail'[c] /\ pos' = pos /\ pos \in Nat /\ best' = best /\ mpc' = mpc
      /\ metaMail' = metaMail
  BY <1>1, BatchLess
<1>3. job' = job /\ JobsKept
  BY <1>1, SameKept DEF TaskStep
<1>4. MessagesOK' /\ ClampsOK'
  <2>1. \A b \in Answers' : b \in Answers
    BY <1>1, <1>2 DEF Answers
  <2>. QED
    BY <1>2, <1>3, <2>1, ClampsStay, MessagesStay DEF Choosing
<1>5. ASSUME NEW d \in Clusters, d # c PROVE TableOK(d)' /\ PhaseOK(d)'
  BY <1>1, <1>2, <1>3, <1>5, CalmTable DEF TaskStep
<1>6. TableOK(c) /\ PhaseOK(c) /\ ClusterShaped(c, clusters[c]) /\ Levels[c] \in Nat \ {0}
  BY SizesAssumption DEF TablesInv, TablesOK, PlacesInv, ClustersOK
<1>7. /\ x \in Jobs /\ Level(c, x) \in 1 .. Levels[c]
      /\ clusters'[c].state = clusters[c].state
      /\ clusters'[c].queues = G!Grown(clusters[c].queues, Level(c, x), x)
      /\ KeepsWithin(c, clusters[c], clusters'[c], {x}) /\ Bound(c, x)
      /\ Tidy(c, clusters'[c].gantt, clusters'[c].queues, Procs)
      /\ clusters'[c].gantt.wall = clusters[c].gantt.wall
  BY <1>1 DEF TaskStep, TaskDone
<1>8. TableOK(c)'
  <2>1. ASSUME NEW p \in 1 .. Levels[c], NEW y \in Jobs, ~ G!NotIn(clusters'[c].queues[p], y)
        PROVE  Level(c, y)' = p
    <3>. DEFINE r == clusters[c].queues[p]
    <3>1. clusters[c].queues \in [1 .. Levels[c] -> Seq(Jobs)]
      BY <1>6 DEF ClusterShaped
    <3>2. r \in Seq(Jobs)
      BY <3>1
    <3>3. clusters'[c].queues[p] = IF p = Level(c, x) THEN Append(r, x) ELSE r
      BY <1>7, <3>1 DEF G!Grown
    <3>. HIDE DEF r
    <3>4. ~ G!NotIn(Append(r, x), y) => ~ G!NotIn(r, y) \/ y = x
      BY <1>7, <3>2 DEF G!NotIn
    <3>5. ~ G!NotIn(r, y) => Level(c, y) = p
      BY <1>6 DEF TableOK, r
    <3>6. Level(c, y)' = Level(c, y)
      BY <1>3 DEF Level
    <3>. QED
      BY <2>1, <3>3, <3>4, <3>5, <3>6
  <2>2. Procs' = Procs
    BY <1>3 DEF Procs
  <2>. QED
    BY <1>3, <1>6, <1>7, <2>1, <2>2 DEF TableOK
<1>9. PhaseOK(c)'
  <2>1. \A y : Bound(c, y)' => Bound(c, y)
    BY <1>2 DEF Bound
  <2>2. \A y : Keeping(c, clusters'[c], y) => Keeping(c, clusters[c], y) \/ y = x
    BY <1>7 DEF KeepsWithin
  <2>3. \A y : SentJob(y)' <=> SentJob(y)
    BY <1>2 DEF SentJob
  <2>4. ~ Bound(c, x)'
    BY <1>0, <1>1, <1>2, BoundBy DEF TablesInv
  <2>. QED
    BY <1>6, <1>7, <2>1, <2>2, <2>3, <2>4 DEF PhaseOK, Here
<1>. QED
  BY <1>4, <1>5, <1>8, <1>9 DEF TablesOK

(* A job starts.                                                           *)
LEMMA StartTables ==
  ASSUME TablesInv, NEW c \in Clusters, NEW j \in Jobs, StartJob(c, j)
  PROVE  TablesOK' /\ MessagesOK' /\ ClampsOK'
<1>1. StartStep(c, j) /\ UNCHANGED <<clock, job, metaVars, mailVars>>
  BY StartSteps DEF StartJob
<1>2. /\ UNCHANGED <<job, metaMail, sedMail, batchMail, pos, best, mpc>> /\ pos \in Nat
      /\ Choosing' => Choosing
  BY <1>1 DEF metaVars, mailVars, Choosing, TablesInv, PlacesInv, MetaInv, PlaceOK
<1>3. MessagesOK' /\ ClampsOK'
  BY <1>2, QuietClamps
<1>4. JobsKept
  BY <1>2, SameKept
<1>5. ASSUME NEW d \in Clusters, d # c PROVE TableOK(d)' /\ PhaseOK(d)'
  BY <1>1, <1>2, <1>4, <1>5, CalmTable DEF StartStep
<1>6. TableOK(c) /\ PhaseOK(c)
  BY DEF TablesInv, TablesOK
<1>7. \A y : /\ Keeping(c, clusters'[c], y) <=> Keeping(c, clusters[c], y)
             /\ Bound(c, y)' <=> Bound(c, y)
             /\ SentJob(y)' <=> SentJob(y)
  BY <1>1, <1>2 DEF StartStep, Keeping, Bound, SentJob
<1>8. Keeping(c, clusters[c], j)
  BY <1>1 DEF StartStep, Keeping
<1>9. TableOK(c)'
  BY <1>1, <1>2, <1>6 DEF TableOK, StartStep, Procs, Level
<1>10. PhaseOK(c)'
  <2>1. \A y \in Jobs : y # j => clusters'[c].state[y] = clusters[c].state[y]
    BY <1>1, <1>6 DEF StartStep, TableOK
  <2>. QED
    BY <1>6, <1>7, <1>8, <2>1 DEF PhaseOK, Here
<1>. QED
  BY <1>3, <1>5, <1>9, <1>10 DEF TablesOK

(* A job ends.                                                             *)
LEMMA EndTables ==
  ASSUME TablesInv, NEW c \in Clusters, NEW j \in Jobs, FinishJob(c, j)
  PROVE  TablesOK' /\ MessagesOK' /\ ClampsOK'
<1>1. EndStep(c, j) /\ UNCHANGED <<clock, job, metaVars, mailVars>>
  BY EndSteps DEF FinishJob
<1>2. /\ UNCHANGED <<job, metaMail, sedMail, batchMail, pos, best, mpc>> /\ pos \in Nat
      /\ Choosing' => Choosing
  BY <1>1 DEF metaVars, mailVars, Choosing, TablesInv, PlacesInv, MetaInv, PlaceOK
<1>3. MessagesOK' /\ ClampsOK'
  BY <1>2, QuietClamps
<1>4. JobsKept
  BY <1>2, SameKept
<1>5. ASSUME NEW d \in Clusters, d # c PROVE TableOK(d)' /\ PhaseOK(d)'
  BY <1>1, <1>2, <1>4, <1>5, CalmTable DEF EndStep
<1>6. TableOK(c) /\ PhaseOK(c) /\ ClusterShaped(c, clusters[c]) /\ Levels[c] \in Nat
  BY SizesAssumption DEF TablesInv, TablesOK, PlacesInv, ClustersOK
<1>7. \A y : /\ Keeping(c, clusters'[c], y) => Keeping(c, clusters[c], y)
             /\ Bound(c, y)' <=> Bound(c, y)
             /\ SentJob(y)' <=> SentJob(y)
  BY <1>1, <1>2 DEF EndStep, KeepsWithin, Bound, SentJob
<1>8. TableOK(c)'
  <2>1. ASSUME NEW p \in 1 .. Levels[c], NEW y \in Jobs, ~ G!NotIn(clusters'[c].queues[p], y)
        PROVE  Level(c, y)' = p
    <3>1. /\ clusters[c].queues[p] \in Seq(Jobs) /\ Len(clusters[c].queues) = Levels[c]
      BY <1>6 DEF ClusterShaped
    <3>2. clusters'[c].queues[p] = G!Keep(clusters[c].queues[p], Jobs \ {j})
      BY <1>1, <3>1 DEF EndStep, LeftBy
    <3>3. ~ G!NotIn(clusters[c].queues[p], y)
      BY <2>1, <3>1, <3>2, KeptHeld
    <3>4. Level(c, y) = p
      BY <1>6, <3>3 DEF TableOK
    <3>. QED
      BY <1>2, <3>4 DEF Level
  <2>2. Procs' = Procs /\ [x \in Jobs |-> job[x].wall]' = [x \in Jobs |-> job[x].wall]
    BY <1>2 DEF Procs
  <2>3. /\ Tidy(c, clusters'[c].gantt, clusters'[c].queues, Procs)
        /\ clusters'[c].gantt.wall = clusters[c].gantt.wall
        /\ clusters'[c].state = [clusters[c].state EXCEPT ![j] = "DONE"]
    BY <1>1 DEF EndStep, EndDone
  <2>. QED
    BY <1>6, <2>1, <2>2, <2>3 DEF TableOK
<1>9. PhaseOK(c)'
  <2>1. \A y \in Jobs : clusters'[c].state[y] # "WAITING" => clusters[c].state[y] # "WAITING"
    BY <1>1, <1>6 DEF EndStep, TableOK
  <2>. QED
    BY <1>6, <1>7, <2>1 DEF PhaseOK, Here
<1>. QED
  BY <1>3, <1>5, <1>8, <1>9 DEF TablesOK

(* Nothing is planned at first.                                            *)
LEMMA TablesInit == Init => TablesInv
<1>. SUFFICES ASSUME Init PROVE TablesInv
  OBVIOUS
<1>1. PlacesInv
  BY PlacesInit
<1>2. /\ clusters = [c \in Clusters |-> C(c)!EmptyCluster] /\ batchMail = [c \in Clusters |-> {}]
      /\ metaMail = {} /\ sedMail = [c \in Clusters |-> {}] /\ mpc = "init" /\ job \in Workloads
  BY DEF Init
<1>3. \A x \in Jobs : /\ job[x].wall \in Nat /\ job[x].start = 0 /\ job[x].state = "WAITING"
  BY <1>2, WorkloadsAssumption DEF Descriptions
<1>4. ASSUME NEW c \in Clusters PROVE TableOK(c) /\ PhaseOK(c)
  <2>. DEFINE k == clusters[c]
              e == [x \in Jobs |-> job[x].state]
              g == [m \in Grid(c) |-> <<>>]
              s == [x \in Jobs |-> job[x].start]
              w == [x \in Jobs |-> job[x].wall]
              n == [x \in Jobs |-> {}]
              l == [x \in Jobs |-> 1]
              qs == [p \in 1 .. Levels[c] |-> <<>>]
              t == [chart |-> g, start |-> s, wall |-> w, nodes |-> n, lead |-> l]
  <2>0. k = C(c)!EmptyCluster
    BY <1>2
  <2>1. k = [state |-> e, gantt |-> t, queues |-> qs, reserved |-> <<>>]
    BY <2>0, Zenon DEF C!EmptyCluster, C!Nodes, C!Queues, Grid
  <2>2. Size[c] \in Nat \ {0} /\ Levels[c] \in Nat \ {0}
    BY SizesAssumption
  <2>3. /\ g \in [Grid(c) -> Seq(Jobs)] /\ s \in [Jobs -> Nat] /\ w \in [Jobs -> Nat]
        /\ n \in [Jobs -> SUBSET Grid(c)] /\ l \in [Jobs -> Grid(c)]
    BY <1>3, <2>2 DEF Grid
  <2>4. /\ qs \in Seq(Seq(Jobs)) /\ Len(qs) = Levels[c] /\ \A p \in 1 .. Levels[c] : qs[p] = <<>>
    <3>1. \A p \in 1 .. Levels[c] : qs[p] = <<>>
      OBVIOUS
    <3>2. DOMAIN qs = 1 .. Levels[c] /\ <<>> \in Seq(Jobs)
      OBVIOUS
    <3>3. qs \in [1 .. Levels[c] -> Seq(Jobs)]
      BY <3>2
    <3>. HIDE DEF qs
    <3>. QED
      BY <2>2, <3>1, <3>3
  <2>5. \A x \in Jobs : e[x] = "WAITING"
    BY <1>3
  <2>6. \A m \in Grid(c) : g[m] = <<>>
    OBVIOUS
  <2>7. e = [x \in Jobs |-> e[x]]
    OBVIOUS
  <2>. HIDE DEF k, g, s, w, n, l, qs
  <2>8. IsTable(c, t) /\ t.chart = g /\ t.wall = w
    BY <2>3 DEF IsTable, P!Tables, P!Nodes, Grid
  <2>. HIDE DEF t, e
  <2>9. k.state = e /\ k.gantt = t /\ k.queues = qs /\ k.reserved = <<>>
    BY <2>1
  <2>10. Tidy(c, t, qs, Procs)
    BY <2>2, <2>4, <2>6, <2>8, AllPlan DEF Plans, EmptyPlans
  <2>11. \A p \in 1 .. Levels[c] : \A x : G!NotIn(qs[p], x)
    BY <2>4 DEF G!NotIn
  <2>12. TableOK(c)
    BY <2>7, <2>8, <2>9, <2>10, <2>11 DEF TableOK, k, w
  <2>13. \A x : ~ Keeping(c, k, x)
    <3>1. \A x : G!NotIn(<<>>, x)
      BY DEF G!NotIn
    <3>2. \A x : ~ Placed(c, t, x)
      BY <2>6, <2>8, <3>1 DEF Placed
    <3>. QED
      BY <2>9, <2>11, <3>1, <3>2 DEF Keeping
  <2>14. \A x : ~ Bound(c, x)
    BY <1>2 DEF Bound
  <2>15. PhaseOK(c)
    BY <2>5, <2>9, <2>13, <2>14 DEF PhaseOK, Here, k
  <2>. QED
    BY <2>12, <2>15
<1>5. MessagesOK
  BY <1>2 DEF MessagesOK
<1>6. ClampsOK
  BY <1>2 DEF ClampsOK, Choosing
<1>. QED
  BY <1>1, <1>4, <1>5, <1>6 DEF TablesInv, TablesOK

(* The tables stay in order.                                               *)
LEMMA TablesStep == TablesInv /\ [Next]_vars => TablesInv'
<1>. SUFFICES ASSUME TablesInv, [Next]_vars PROVE TablesOK' /\ MessagesOK' /\ ClampsOK'
  BY PlacesStep DEF TablesInv
<1>1. CASE \E c \in Clusters : SedReceive(c)
  BY <1>1, SedTables
<1>2. CASE \E c \in Clusters : SedRelay(c)
  BY <1>2, RelayTables
<1>3. CASE \E c \in Clusters : BatchHandle(c)
  BY <1>3, InitPfTables, PredictTables, TaskTables DEF BatchHandle
<1>4. CASE Inform
  BY <1>4, InformTables
<1>5. CASE TakeAnswer
  BY <1>5, TakeTables
<1>6. CASE \E c \in Clusters, j \in Jobs : StartJob(c, j)
  BY <1>6, StartTables
<1>7. CASE \E c \in Clusters, j \in Jobs : FinishJob(c, j)
  BY <1>7, EndTables
<1>8. CASE WakeUp \/ Tick \/ UNCHANGED vars
  BY <1>8, QuietTables
<1>. QED
  BY <1>1, <1>2, <1>3, <1>4, <1>5, <1>6, <1>7, <1>8 DEF Next, Step, Terminated

(* All tables stay in order.                                               *)
LEMMA TablesLast == Spec => []TablesInv
<1>. QED
  BY TablesInit, TablesStep, PTL DEF Spec

-----------------------------------------------------------------------------
(***************************************************************************)
(* Types.                                                                  *)
(***************************************************************************)

(* Some cluster is the fastest.                                            *)
LEMMA Fastest == MaxSpeed \in Nat
<1>. DEFINE Top(k) == \E m \in 1 .. k : \A i \in 1 .. k : Speed[i] =< Speed[m]
            T == {k \in 1 .. NbClusters : ~ Top(k)}
<1>1. /\ NbClusters \in Nat \ {0} /\ Clusters = 1 .. NbClusters
      /\ \A c \in 1 .. NbClusters : Speed[c] \in Nat
  BY ClustersAssumption, SpeedAssumption DEF Clusters
<1>2. T = {}
  <2>1. T \subseteq Nat
    OBVIOUS
  <2>. SUFFICES ASSUME T # {} PROVE FALSE
    OBVIOUS
  <2>. HIDE DEF T
  <2>2. PICK k \in T : \A i \in T : k =< i
    <3>1. 1 \in Nat \ {0}
      OBVIOUS
    <3>. QED
      BY <2>1, <3>1, G!LeastElement
  <2>3. k \in 1 .. NbClusters /\ ~ Top(k)
    BY DEF T
  <2>4. k # 1
    <3>1. Top(1)
      <4>1. 1 \in 1 .. 1 /\ \A i \in 1 .. 1 : Speed[i] =< Speed[1]
        BY <1>1
      <4>. QED
        BY <4>1
    <3>. QED
      BY <2>3, <3>1
  <2>5. k - 1 \in 1 .. NbClusters /\ k - 1 \notin T
    BY <1>1, <2>1, <2>2, <2>3, <2>4
  <2>6. Top(k - 1)
    BY <2>5 DEF T
  <2>7. PICK m \in 1 .. k - 1 : \A i \in 1 .. k - 1 : Speed[i] =< Speed[m]
    BY <2>6
  <2>8. /\ k \in 1 .. k /\ m \in 1 .. k
        /\ \A i \in 1 .. k : i \in 1 .. k - 1 \/ i = k
        /\ \A i \in 1 .. k : Speed[i] \in Nat
    <3>. HIDE DEF Top
    <3>1. k \in Nat \ {0} /\ k =< NbClusters
      BY <1>1, <2>3
    <3>. QED
      BY <1>1, <3>1
  <2>9. CASE Speed[k] =< Speed[m]
    <3>1. \A i \in 1 .. k : Speed[i] =< Speed[m]
      BY <2>7, <2>8, <2>9
    <3>. QED
      BY <2>3, <2>8, <3>1
  <2>10. CASE Speed[m] =< Speed[k]
    <3>1. \A i \in 1 .. k : Speed[i] =< Speed[k]
      BY <2>7, <2>8, <2>10
    <3>. QED
      BY <2>3, <2>8, <3>1
  <2>. QED
    BY <2>8, <2>9, <2>10
<1>3. Top(NbClusters)
  <2>1. NbClusters \in 1 .. NbClusters
    BY <1>1
  <2>. HIDE DEF Top
  <2>. QED
    BY <1>2, <2>1
<1>4. PICK m \in Clusters : \A c \in Clusters : Speed[c] =< Speed[m]
  BY <1>1, <1>3
<1>5. \E s \in {Speed[c] : c \in Clusters} : \A c \in Clusters : Speed[c] =< s
  BY <1>4
<1>6. MaxSpeed \in {Speed[c] : c \in Clusters}
  BY <1>5 DEF MaxSpeed
<1>. QED
  BY <1>1, <1>6

(* A completion date is a natural number.                                  *)
LEMMA CompletionNat ==
  ASSUME NEW c \in Clusters, NEW j \in Jobs, NEW start \in Nat, job[j].wall \in Nat
  PROVE  CompletionT(c, j, start) \in Nat
<1>1. Speed[c] \in Nat \ {0}
  BY SpeedAssumption
<1>2. SpeedCoef(c) \in Nat
  BY <1>1, Fastest DEF SpeedCoef
<1>3. \A u, v \in Nat : u * v \in Nat
  OBVIOUS
<1>4. job[j].wall * SpeedCoef(c) \in Nat
  BY <1>2, <1>3
<1>. QED
  BY <1>4 DEF CompletionT

(* What metaSched counts and is told.                                      *)
Numbers ==
  /\ pos \in 1 .. Len(JobList) + 1
  /\ wake \in Nat
  /\ nodesPF \in [Clusters -> Nat]
  /\ best \in [cluster : 0 .. NbClusters, date : Nat, start : Nat]
  /\ failures \in 0 .. NbClusters
  /\ \A a \in Answers : a.value \in Nat

(* The date of a prediction.                                               *)
LEMMA FirstSlotNat ==
  ASSUME TablesInv, NEW c \in Clusters, NEW j \in Jobs, job[j].procs =< Size[c]
  PROVE  /\ FirstSlot(c, j) \in Nat
         /\ Plugins[c] = "fcfs" =>
              /\ \A n \in Grid(c) : FirstSlot(c, j) =< Free(c, clusters[c].gantt, n, clock)
              /\ \E n \in Grid(c) : FirstSlot(c, j) = Free(c, clusters[c].gantt, n, clock)
<1>. DEFINE g == clusters[c].gantt
            nb == job[j].procs
            bid == C(c)!Bid(clusters[c], j)
<1>1. Tidy(c, g, clusters[c].queues, Procs)
  BY DEF TablesInv, TablesOK, TableOK
<1>2. IsTable(c, g)
  BY <1>1 DEF Tidy, P!Tidy, IsTable
<1>3. clock \in Nat /\ nb \in Nat \ {0} /\ Size[c] \in Nat
  BY SizesAssumption DEF TablesInv, PlacesInv, MetaInv, TimeOK, JobsOK, Descriptions
<1>4. nb \in Grid(c)
  BY <1>3 DEF Grid
<1>5. bid = IF Plugins[c] = "fcfs" THEN C(c)!FcfsBid(g, nb, clock)
            ELSE C(c)!CbfBid(g, nb, clock, g.wall[j])
  BY DEF C!Bid, C!Schedule
<1>6. FirstSlot(c, j) = IF Plugins[c] = "fcfs" THEN Free(c, g, bid.lead, clock) ELSE bid.start
  BY SameFree DEF FirstSlot
<1>. HIDE DEF bid, g, nb
<1>7. Plans(c)
  BY AllPlan
<1>8. CASE Plugins[c] = "fcfs"
  <2>1. /\ bid.lead \in Grid(c)
        /\ \A n \in Grid(c) : Free(c, g, bid.lead, clock) =< Free(c, g, n, clock)
    BY <1>2, <1>3, <1>4, <1>5, <1>7, <1>8 DEF Plans, FirstPlans
  <2>2. Free(c, g, bid.lead, clock) \in Nat
    BY <1>2, <1>3, <1>7, <2>1 DEF Plans, FreePlans
  <2>. QED
    BY <1>6, <1>8, <2>1, <2>2 DEF g
<1>9. CASE Plugins[c] # "fcfs"
  <2>1. bid.start \in Nat
    BY <1>2, <1>3, <1>4, <1>5, <1>7, <1>9 DEF Plans, FirstPlans
  <2>. QED
    BY <1>6, <1>9, <2>1
<1>. QED
  BY <1>8, <1>9

(* The next job, or none, is still a position of the list.                 *)
LEMMA NextNumbers ==
  ASSUME NEW p \in 1 .. Len(JobList) + 1, NextJob(p)
  PROVE  /\ pos' \in 1 .. Len(JobList) + 1
         /\ best' \in [cluster : 0 .. NbClusters, date : Nat, start : Nat]
         /\ failures' \in 0 .. NbClusters
BY ClustersAssumption DEF NextJob, NoWinner

(* The list has a length.                                                  *)
LEMMA LenList == Len(JobList) \in Nat
BY ListAssumption

(* A sed passes on what it gets.                                           *)
LEMMA SedNumbers ==
  ASSUME TablesInv, Numbers, NEW c \in Clusters, SedReceive(c)
  PROVE  Numbers'
<1>1. /\ UNCHANGED <<nodesPF, wake, sedMail>>
      /\ \A a \in metaMail' : a \in metaMail \/ a = Answer("SB_SERVICE_KO", c, Sent.job, 0)
  BY DEF SedReceive, Forward
<1>2. \A a \in Answers' : a.value \in Nat
  BY <1>1 DEF Answers, Numbers, Answer
<1>3. CASE mpc = "send"
  <2>1. PICK p : p = pos + 1
    OBVIOUS
  <2>2. NextJob(p)
    BY <1>3, <2>1 DEF SedReceive
  <2>3. pos \in Nat \ {0} /\ pos =< Len(JobList)
    BY <1>3 DEF TablesInv, PlacesInv, MetaInv, PlaceOK
  <2>4. p \in 1 .. Len(JobList) + 1
    BY <2>1, <2>3, LenList
  <2>. QED
    BY <1>1, <1>2, <2>2, <2>4, NextNumbers DEF Numbers
<1>4. CASE mpc # "send"
  BY <1>1, <1>2, <1>4 DEF SedReceive, Numbers
<1>. QED
  BY <1>3, <1>4

(* The batches.                                                            *)
LEMMA BatchNumbers ==
  ASSUME TablesInv, Numbers, NEW c \in Clusters, NEW q \in batchMail[c],
         InitPf(c, q) \/ PredictSchedule(c, q) \/ ScheduleTask(c, q)
  PROVE  Numbers'
<1>1. UNCHANGED <<metaVars, metaMail>>
  BY DEF InitPf, PredictSchedule, ScheduleTask, BatchTakes
<1>2. \/ UNCHANGED sedMail
      \/ Reply(c, Answer("SB_INIT", c, q.job, Size[c]))
      \/ Reply(c, Answer("SB_CLUSTER_KO", c, q.job, 0))
      \/ PredictSchedule(c, q) /\ job[q.job].procs =< Size[c]
           /\ Reply(c, Answer("SB_PRED", c, q.job, FirstSlot(c, q.job)))
  BY DEF InitPf, PredictSchedule, ScheduleTask
<1>3. MetaInv
  BY DEF TablesInv, PlacesInv
<1>4. \A a \in Answers' : a \in Answers \/ a.value \in Nat
  <2>1. CASE UNCHANGED sedMail
    BY <1>1, <2>1 DEF Answers
  <2>2. ASSUME NEW a, a.value \in Nat, Reply(c, a)
        PROVE  \A b \in Answers' : b \in Answers \/ b.value \in Nat
    BY <1>1, <1>3, <2>2, ReplyAdds
  <2>3. CASE Reply(c, Answer("SB_INIT", c, q.job, Size[c]))
    <3>1. PICK a : a = Answer("SB_INIT", c, q.job, Size[c])
      OBVIOUS
    <3>2. a.value \in Nat
      BY <3>1, SizesAssumption DEF Answer
    <3>. QED
      BY <2>2, <2>3, <3>1, <3>2
  <2>4. CASE Reply(c, Answer("SB_CLUSTER_KO", c, q.job, 0))
    <3>1. PICK a : a = Answer("SB_CLUSTER_KO", c, q.job, 0)
      OBVIOUS
    <3>2. a.value \in Nat
      BY <3>1 DEF Answer
    <3>. QED
      BY <2>2, <2>4, <3>1, <3>2
  <2>5. CASE /\ PredictSchedule(c, q) /\ job[q.job].procs =< Size[c]
             /\ Reply(c, Answer("SB_PRED", c, q.job, FirstSlot(c, q.job)))
    <3>1. PICK a : a = Answer("SB_PRED", c, q.job, FirstSlot(c, q.job))
      OBVIOUS
    <3>2. q.job \in Jobs
      BY <2>5, PredictKept, NotSent DEF Choosing
    <3>3. a.value \in Nat
      BY <2>5, <3>1, <3>2, FirstSlotNat DEF Answer
    <3>. QED
      BY <2>2, <2>5, <3>1, <3>3
  <2>. QED
    BY <1>2, <2>1, <2>3, <2>4, <2>5
<1>5. \A a \in Answers' : a.value \in Nat
  BY <1>4 DEF Numbers
<1>. QED
  BY <1>1, <1>5 DEF Numbers, metaVars

(* metaSched takes a number it was told.                                   *)
LEMMA InformNumbers ==
  ASSUME TablesInv, Numbers, Inform
  PROVE  Numbers'
<1>1. PICK a \in metaMail : /\ metaMail' = metaMail \ {a}
                            /\ nodesPF' = [nodesPF EXCEPT ![at] = a.value]
  BY DEF Inform
<1>2. a.value \in Nat
  BY DEF Numbers, Answers
<1>3. /\ UNCHANGED <<wake, sedMail>>
      /\ NextJob(1) \/ UNCHANGED <<pos, best, failures>>
  BY DEF Inform
<1>4. nodesPF' \in [Clusters -> Nat]
  BY <1>1, <1>2 DEF Numbers
<1>5. \A b \in Answers' : b.value \in Nat
  BY <1>1, <1>3 DEF Answers, Numbers
<1>6. 1 \in 1 .. Len(JobList) + 1
  BY LenList
<1>. QED
  BY <1>3, <1>4, <1>5, <1>6, NextNumbers DEF Numbers

(* It counts a failure, or notes a winner.                                 *)
LEMMA TakeNumbers ==
  ASSUME TablesInv, Numbers, TakeAnswer, MetaInv'
  PROVE  Numbers'
<1>1. PICK a \in metaMail :
        /\ metaMail' = metaMail \ {a}
        /\ \/ /\ at < NbClusters /\ mpc' = "ask" /\ wake' = wake /\ pos' = pos
              /\ best' = Judged(a).best /\ failures' = Judged(a).failures
           \/ Drop
           \/ /\ at = NbClusters /\ mpc' = "sleep" /\ pos' = pos
              /\ best' = Judged(a).best /\ failures' = Judged(a).failures
  BY DEF TakeAnswer
<1>2. /\ mpc = "answer" /\ UNCHANGED <<job, nodesPF, sedMail>> /\ MetaInv
      /\ pos \in Nat \ {0} /\ pos =< Len(JobList) /\ at \in Clusters
  BY DEF TakeAnswer, TablesInv, PlacesInv, MetaInv, PlaceOK
<1>3. \A b \in Answers' : b.value \in Nat
  BY <1>1, <1>2 DEF Answers, Numbers
<1>4. CASE Drop
  <2>1. PICK p : p = pos + 1
    OBVIOUS
  <2>2. NextJob(p) /\ wake' = wake
    BY <1>4, <2>1 DEF Drop
  <2>3. p \in 1 .. Len(JobList) + 1
    BY <1>2, <2>1, LenList
  <2>. QED
    BY <1>2, <1>3, <2>2, <2>3, NextNumbers DEF Numbers
<1>5. CASE ~ Drop
  <2>1. best' = Judged(a).best /\ failures' = Judged(a).failures /\ pos' = pos
    BY <1>1, <1>5
  <2>2. a \in Answers /\ a.value \in Nat
    BY DEF Answers, Numbers
  <2>3. a.from \in Clusters
    BY <1>2, <2>2, FromClusters
  <2>4. JobList[pos] \in Jobs
    BY <1>2, NotSent DEF Choosing
  <2>5. job \in [Jobs -> Descriptions] /\ failures \in 0 .. at - 1
    BY <1>2 DEF MetaInv, JobsOK, WinnerOK
  <2>6. job[JobList[pos]].wall \in Nat
    BY <2>4, <2>5 DEF Descriptions
  <2>7. CompletionT(at, JobList[pos], a.value) \in Nat
    BY <1>2, <2>2, <2>4, <2>6, CompletionNat
  <2>8. best' \in [cluster : 0 .. NbClusters, date : Nat, start : Nat]
    <3>. DEFINE date == CompletionT(at, JobList[pos], a.value)
    <3>1. a.from \in 0 .. NbClusters
      BY <2>3, ClustersAssumption DEF Clusters
    <3>2. best' = best \/ best' = [cluster |-> a.from, date |-> date, start |-> a.value]
      BY <2>1 DEF Judged
    <3>. HIDE DEF date
    <3>. QED
      BY <2>2, <2>7, <3>1, <3>2 DEF Numbers, date
  <2>9. failures' \in 0 .. NbClusters
    <3>1. failures' \in {failures, failures + 1}
      BY <2>1 DEF Judged
    <3>2. at \in 1 .. NbClusters /\ NbClusters \in Nat
      BY <1>2, ClustersAssumption DEF Clusters
    <3>. QED
      BY <2>5, <3>1, <3>2
  <2>10. wake' \in Nat
    <3>1. CASE mpc' = "sleep"
      <4>1. wake' = job[JobList[pos]].submit + late
        BY <1>2, <2>1, <3>1 DEF MetaInv, TimeOK, TakeAnswer
      <4>2. late \in Nat
        BY <1>2, LateAssumption DEF MetaInv, TimeOK
      <4>. QED
        BY <2>4, <2>5, <4>1, <4>2 DEF Descriptions
    <3>2. CASE mpc' # "sleep"
      BY <1>1, <1>5, <3>2 DEF Numbers
    <3>. QED
      BY <3>1, <3>2
  <2>. QED
    BY <1>2, <1>3, <2>1, <2>8, <2>9, <2>10 DEF Numbers
<1>. QED
  BY <1>4, <1>5

(* The steps that count nothing.                                           *)
LEMMA QuietNumbers ==
  ASSUME TablesInv, Numbers,
         \/ \E c \in Clusters : SedRelay(c)
         \/ \E c \in Clusters, j \in Jobs : StartJob(c, j) \/ FinishJob(c, j)
         \/ WakeUp \/ Tick \/ UNCHANGED vars
  PROVE  Numbers'
<1>1. UNCHANGED <<pos, wake, nodesPF, best, failures>>
  BY DEF SedRelay, StartJob, FinishJob, WakeUp, Tick, vars, metaVars
<1>2. \A a \in Answers' : a \in Answers
  <2>1. CASE \E c \in Clusters : SedRelay(c)
    <3>0. PICK c \in Clusters : SedRelay(c)
      BY <2>1
    <3>1. PICK a \in sedMail[c] :
            sedMail' = [sedMail EXCEPT ![c] = @ \ {a}] /\ metaMail' = metaMail \cup {a}
      BY <3>0 DEF SedRelay
    <3>2. sedMail = [d \in Clusters |-> sedMail[d]]
      BY DEF TablesInv, PlacesInv, MetaInv, MailTyped
    <3>3. \A d \in Clusters : sedMail'[d] \subseteq sedMail[d]
      BY <3>1, <3>2
    <3>. QED
      BY <3>1, <3>3 DEF Answers
  <2>2. CASE UNCHANGED <<metaMail, sedMail>>
    BY <2>2 DEF Answers
  <2>. QED
    BY <2>1, <2>2 DEF StartJob, FinishJob, WakeUp, Tick, vars, mailVars
<1>. QED
  BY <1>1, <1>2 DEF Numbers

(* At first it has been told nothing.                                      *)
LEMMA NumbersInit == Init => Numbers
<1>. SUFFICES ASSUME Init PROVE Numbers
  OBVIOUS
<1>1. Answers = {}
  BY DEF Init, Answers
<1>. QED
  BY <1>1, LenList, ClustersAssumption DEF Init, Numbers, NoWinner

(* Every step keeps the numbers in their range.                            *)
LEMMA NumbersStep == TablesInv /\ Numbers /\ [Next]_vars => Numbers'
<1>. SUFFICES ASSUME TablesInv, Numbers, [Next]_vars PROVE Numbers'
  OBVIOUS
<1>1. MetaInv'
  BY StepKeeps DEF TablesInv, PlacesInv
<1>2. CASE \E c \in Clusters : SedReceive(c)
  BY <1>2, SedNumbers
<1>3. CASE \E c \in Clusters : BatchHandle(c)
  BY <1>3, BatchNumbers DEF BatchHandle
<1>4. CASE Inform
  BY <1>4, InformNumbers
<1>5. CASE TakeAnswer
  BY <1>1, <1>5, TakeNumbers
<1>6. CASE \/ \E c \in Clusters : SedRelay(c)
           \/ \E c \in Clusters, j \in Jobs : StartJob(c, j) \/ FinishJob(c, j)
           \/ WakeUp \/ Tick \/ UNCHANGED vars
  BY <1>6, QuietNumbers
<1>. QED
  BY <1>2, <1>3, <1>4, <1>5, <1>6 DEF Next, Step, Terminated

(***************************************************************************)
(* What metaSched counts and is told stays in its range, and the clusters  *)
(* keep tables: the date of a prediction, which a batch reads off its table*)
(* without planning the job (batch.c:574), is a natural number, and the    *)
(* speed a completion date is stretched by is that of the fastest host.    *)
(***************************************************************************)
THEOREM MetaTyped == Spec => []TypeOK
<1>1. TablesInv /\ Numbers => TypeOK
  <2>. SUFFICES ASSUME TablesInv, Numbers PROVE TypeOK
    OBVIOUS
  <2>1. /\ clock \in Nat /\ late \in 0 .. MaxLate /\ last \in Nat
        /\ mpc \in States /\ at \in Clusters
    BY DEF TablesInv, PlacesInv, MetaInv, TimeOK, PlaceOK
  <2>2. ASSUME NEW c \in Clusters
        PROVE  /\ clusters[c].gantt \in C(c)!Tables
               /\ \A q \in batchMail[c] : q.job \in Jobs \cup {NoJob}
               /\ \A a \in sedMail[c] : a.from = c
    <3>1. Tidy(c, clusters[c].gantt, clusters[c].queues, Procs)
      BY DEF TablesInv, TablesOK, TableOK
    <3>2. clusters[c].gantt \in C(c)!Tables
      BY <3>1, SameFree DEF Tidy, P!Tidy, IsTable
    <3>3. \A q \in batchMail[c] : q.job \in Jobs \cup {NoJob}
      BY DEF TablesInv, MessagesOK, MessageOK
    <3>4. \A a \in sedMail[c] : a.from = c
      BY DEF TablesInv, PlacesInv, MetaInv, OneMessage, NoneAt, GoodAnswer
    <3>. QED
      BY <3>2, <3>3, <3>4
  <2>. QED
    BY <2>1, <2>2 DEF TypeOK, Numbers, States
<1>2. Spec => []Numbers
  BY TablesLast, NumbersInit, NumbersStep, PTL DEF Spec
<1>. QED
  BY <1>1, <1>2, TablesLast, PTL

-----------------------------------------------------------------------------
(***************************************************************************)
(* What a prediction promises.                                             *)
(*                                                                         *)
(* A batch with fcfs whose jobs share one queue has a plan in which each   *)
(* job comes after those in front of it and as early as they allow         *)
(* (InTurns).  An end makes a new plan like it, where no node is busy for  *)
(* longer than before, so that what was free at a date stays so.           *)
(*                                                                         *)
(* Jobs are to have a wall time: one without could be planned for the date *)
(* the job in front of it starts at, and start before it.                  *)
(***************************************************************************)
Lasting == \A w \in Workloads : \A x \in Jobs : w[x].wall > 0

WallsOK == Lasting => \A x \in Jobs : job[x].wall > 0

(* The jobs sent so far share a queue of c, if they get there.             *)
OneLevel(c) ==
  Plugins[c] = "fcfs" /\ \A x, y \in Jobs : SentJob(x) /\ SentJob(y) => Level(c, x) = Level(c, y)

TurnOK(c) ==
  Lasting /\ OneLevel(c)
    => InTurns(c, clusters[c].gantt, clusters[c].queues, Waits(clusters[c]), Procs, clock)

(* Some node of c is free at p, or at once, and no job is on its way.      *)
PromiseOK(c, p) ==
  /\ \A q \in batchMail[c] : q.name # "SB_TASK"
  /\ Lasting /\ OneLevel(c) =>
       \E n \in Grid(c) : LET free == Free(c, clusters[c].gantt, n, clock)
                          IN  free =< p \/ free = clock

(* What has been predicted of the job metaSched has.                       *)
PledgesOK ==
  /\ mpc = "answer" => \A a \in Answers : a.name = "SB_PRED" => PromiseOK(a.from, a.value)
  /\ Choosing /\ best # NoWinner => PromiseOK(best.cluster, best.start)

TurnsOK == \A c \in Clusters : TurnOK(c)

TurnsInv == TablesInv /\ Numbers /\ WallsOK /\ TurnsOK /\ PledgesOK

(* The promises of c are kept in a step.                                   *)
PromisesKept(c) == \A p \in Nat : PromiseOK(c, p) => PromiseOK(c, p)'

(* What a step does to c.                                                  *)
ClusterKept(c) == TurnOK(c)' /\ PromisesKept(c)

(* No step makes more jobs share a queue.                                  *)
LEMMA LevelOnce ==
  ASSUME JobsKept, pos \in Nat, pos' \in Nat, pos' >= pos, NEW c \in Clusters, OneLevel(c)'
  PROVE  OneLevel(c)
<1>1. \A x : SentJob(x) => SentJob(x)'
  BY SentStays
<1>2. \A x \in Jobs : SentJob(x) => Level(c, x)' = Level(c, x)
  BY LevelKept
<1>. QED
  BY <1>1, <1>2 DEF OneLevel

(* A cluster that keeps its record.                                        *)
LEMMA CalmKept ==
  ASSUME TurnsInv, JobsKept, pos' \in Nat, pos' >= pos, UNCHANGED clock, NEW c \in Clusters,
         clusters'[c] = clusters[c]
  PROVE  /\ TurnOK(c)'
         /\ (\A q \in batchMail'[c] : q.name = "SB_TASK" => q \in batchMail[c]) => PromisesKept(c)
<1>1. pos \in Nat
  BY DEF TurnsInv, TablesInv, PlacesInv, MetaInv, PlaceOK
<1>2. OneLevel(c)' => OneLevel(c)
  BY <1>1, LevelOnce
<1>3. Procs' = Procs
  BY LevelKept
<1>4. TurnOK(c)
  BY DEF TurnsInv, TurnsOK
<1>5. TurnOK(c)'
  BY <1>2, <1>3, <1>4 DEF TurnOK, Waits
<1>6. ASSUME \A q \in batchMail'[c] : q.name = "SB_TASK" => q \in batchMail[c]
      PROVE  PromisesKept(c)
  BY <1>2, <1>6 DEF PromisesKept, PromiseOK
<1>. QED
  BY <1>5, <1>6

(* The table of a cluster.                                                 *)
LEMMA TableRead ==
  ASSUME TablesInv, NEW c \in Clusters
  PROVE  /\ Tidy(c, clusters[c].gantt, clusters[c].queues, Procs)
         /\ IsTable(c, clusters[c].gantt)
         /\ clock \in Nat /\ Waits(clusters[c]) \in SUBSET Jobs
<1>1. Tidy(c, clusters[c].gantt, clusters[c].queues, Procs)
  BY DEF TablesInv, TablesOK, TableOK
<1>2. IsTable(c, clusters[c].gantt)
  BY <1>1 DEF Tidy, P!Tidy, IsTable
<1>. QED
  BY <1>1, <1>2 DEF TablesInv, PlacesInv, MetaInv, TimeOK, Waits

(* Time passes.                                                            *)
LEMMA TickKept ==
  ASSUME TurnsInv, Tick, NEW c \in Clusters
  PROVE  ClusterKept(c)
<1>. DEFINE g == clusters[c].gantt
            W == Waits(clusters[c])
<1>1. /\ UNCHANGED <<job, clusters, pos, batchMail>> /\ clock' = clock + 1
      /\ C(c)!Settled(clusters[c])
  BY DEF Tick, metaVars, mailVars
<1>2. Tidy(c, g, clusters[c].queues, Procs) /\ IsTable(c, g) /\ clock \in Nat /\ W \in SUBSET Jobs
  BY TableRead DEF TurnsInv
<1>3. OneLevel(c)' <=> OneLevel(c)
  BY <1>1 DEF OneLevel, SentJob, Level
<1>4. \A x \in W : Placed(c, g, x) => g.start[x] > clock
  <2>1. ClusterShaped(c, clusters[c])
    BY DEF TurnsInv, TablesInv, PlacesInv, ClustersOK
  <2>2. \A n \in Grid(c) : \A x : ~ G!NotIn(g.chart[n], x) =>
          \E i \in DOMAIN g.chart[n] : g.chart[n][i] = x
    BY <2>1 DEF G!NotIn, ClusterShaped, Shaped
  <2>3. \A x : Placed(c, g, x) => x \in C(c)!InTable(clusters[c])
    BY <2>2 DEF Placed, C!InTable, C!Planned, C!Nodes, Grid
  <2>. QED
    BY <1>1, <2>3 DEF C!Settled, C!ToStart, Waits
<1>5. Plans(c)
  BY AllPlan
<1>6. TurnOK(c)'
  <2>1. SUFFICES ASSUME Lasting, OneLevel(c)
                 PROVE  InTurns(c, g, clusters[c].queues, W, Procs, clock + 1)
    BY <1>1, <1>3 DEF TurnOK, Waits, Procs
  <2>2. InTurns(c, g, clusters[c].queues, W, Procs, clock)
    BY <2>1 DEF TurnsInv, TurnsOK, TurnOK
  <2>. QED
    BY <1>2, <1>4, <1>5, <2>2 DEF Plans, TickPlans
<1>7. PromisesKept(c)
  <2>1. SUFFICES ASSUME NEW p \in Nat, PromiseOK(c, p), Lasting, OneLevel(c)
                 PROVE  \E n \in Grid(c) : \/ Free(c, g, n, clock + 1) =< p
                                           \/ Free(c, g, n, clock + 1) = clock + 1
    BY <1>1, <1>3 DEF PromisesKept, PromiseOK
  <2>2. PICK n \in Grid(c) : Free(c, g, n, clock) =< p \/ Free(c, g, n, clock) = clock
    BY <2>1 DEF PromiseOK
  <2>3. /\ Free(c, g, n, clock) \in Nat
        /\ Free(c, g, n, clock + 1) = Free(c, g, n, clock) \/ Free(c, g, n, clock + 1) = clock + 1
    BY <1>2, <1>5 DEF Plans, FreePlans
  <2>4. clock + 1 =< Free(c, g, n, clock + 1)
    <3>1. clock + 1 \in Nat
      BY <1>2
    <3>. QED
      BY <1>2, <1>5, <3>1 DEF Plans, FreePlans
  <2>5. \/ Free(c, g, n, clock + 1) =< p
        \/ Free(c, g, n, clock + 1) = clock + 1
    BY <1>2, <2>2, <2>3, <2>4
  <2>. QED
    BY <2>5
<1>. QED
  BY <1>6, <1>7 DEF ClusterKept

(* A job starts on c.                                                      *)
LEMMA StartKept ==
  ASSUME TurnsInv, NEW c \in Clusters, NEW j \in Jobs, StartJob(c, j)
  PROVE  ClusterKept(c)
<1>. DEFINE g == clusters[c].gantt
            W == Waits(clusters[c])
<1>1. StartStep(c, j) /\ UNCHANGED <<clock, job, metaVars, mailVars>>
  BY StartSteps DEF StartJob, TurnsInv
<1>2. UNCHANGED <<clock, job, pos, batchMail>> /\ clusters'[c].gantt = g
  BY <1>1 DEF metaVars, mailVars, StartStep
<1>3. Tidy(c, g, clusters[c].queues, Procs) /\ clock \in Nat /\ W \in SUBSET Jobs
  BY TableRead DEF TurnsInv
<1>4. OneLevel(c)' <=> OneLevel(c)
  BY <1>2 DEF OneLevel, SentJob, Level
<1>5. Waits(clusters'[c]) = W \ {j}
  <2>1. clusters[c].state = [x \in Jobs |-> clusters[c].state[x]]
    BY DEF TurnsInv, TablesInv, TablesOK, TableOK
  <2>2. \A x \in Jobs :
          clusters'[c].state[x] = "WAITING" <=> clusters[c].state[x] = "WAITING" /\ x # j
    BY <1>1, <2>1 DEF StartStep
  <2>. QED
    BY <2>2 DEF Waits
<1>6. TurnOK(c)'
  <2>1. SUFFICES ASSUME Lasting, OneLevel(c)
                 PROVE  InTurns(c, g, clusters[c].queues, W \ {j}, Procs, clock)
    BY <1>1, <1>2, <1>4, <1>5 DEF TurnOK, Procs, StartStep, Waits
  <2>2. InTurns(c, g, clusters[c].queues, W, Procs, clock)
    BY <2>1 DEF TurnsInv, TurnsOK, TurnOK
  <2>3. \A y \in Jobs : g.wall[y] > 0
    BY <2>1 DEF TurnsInv, WallsOK, TablesInv, TablesOK, TableOK
  <2>4. CASE j \in W
    <3>1. Placed(c, g, j) /\ g.start[j] = clock
      BY <1>1 DEF StartStep
    <3>. QED
      BY <1>3, <2>2, <2>3, <2>4, <3>1, AllPlan DEF Plans, StartPlans
  <2>5. CASE j \notin W
    <3>1. W \ {j} = W
      BY <2>5
    <3>. QED
      BY <2>2, <3>1
  <2>. QED
    BY <2>4, <2>5
<1>7. PromisesKept(c)
  BY <1>2, <1>4 DEF PromisesKept, PromiseOK
<1>. QED
  BY <1>6, <1>7 DEF ClusterKept

(* A job of c ends.                                                        *)
LEMMA EndKept ==
  ASSUME TurnsInv, NEW c \in Clusters, NEW j \in Jobs, FinishJob(c, j)
  PROVE  ClusterKept(c)
<1>. DEFINE g == clusters[c].gantt
            h == clusters'[c].gantt
            W == Waits(clusters[c])
<1>1. EndStep(c, j) /\ UNCHANGED <<clock, job, metaVars, mailVars>>
  BY EndSteps DEF FinishJob, TurnsInv
<1>2. UNCHANGED <<clock, job, pos, batchMail>>
  BY <1>1 DEF metaVars, mailVars
<1>3. IsTable(c, g) /\ clock \in Nat
  BY TableRead DEF TurnsInv
<1>4. OneLevel(c)' <=> OneLevel(c)
  BY <1>2 DEF OneLevel, SentJob, Level
<1>5. Waits(clusters'[c]) = W /\ j \notin W
  <2>1. clusters[c].state = [x \in Jobs |-> clusters[c].state[x]]
    BY DEF TurnsInv, TablesInv, TablesOK, TableOK
  <2>2. \A x \in Jobs : clusters'[c].state[x] = "WAITING" <=> clusters[c].state[x] = "WAITING"
    BY <1>1, <2>1 DEF EndStep
  <2>3. clusters[c].state[j] # "WAITING"
    BY <1>1 DEF EndStep
  <2>. QED
    BY <2>2, <2>3 DEF Waits
<1>6. EndDone(c, g, h, clusters[c].queues, clusters'[c].queues, Procs, j, W, clock)
  BY <1>1 DEF EndStep
<1>7. ASSUME Lasting, OneLevel(c)
      PROVE  /\ InTurns(c, h, clusters'[c].queues, W, Procs, clock)
             /\ \A n \in Grid(c) : \E m \in Grid(c) : Free(c, h, m, clock) =< Free(c, g, n, clock)
  <2>1. InTurns(c, g, clusters[c].queues, W, Procs, clock) /\ Plugins[c] = "fcfs"
    BY <1>7 DEF TurnsInv, TurnsOK, TurnOK, OneLevel
  <2>. QED
    BY <1>5, <1>6, <2>1 DEF EndDone
<1>8. TurnOK(c)'
  <2>1. Waits(clusters[c])' = W /\ Procs' = Procs
    BY <1>2, <1>5 DEF Procs, Waits
  <2>. QED
    BY <1>2, <1>4, <1>7, <2>1 DEF TurnOK
<1>9. PromisesKept(c)
  <2>1. SUFFICES ASSUME NEW p \in Nat, PromiseOK(c, p), Lasting, OneLevel(c)
                 PROVE  \E n \in Grid(c) : Free(c, h, n, clock) =< p \/ Free(c, h, n, clock) = clock
    BY <1>2, <1>4 DEF PromisesKept, PromiseOK
  <2>2. PICK n \in Grid(c) : Free(c, g, n, clock) =< p \/ Free(c, g, n, clock) = clock
    BY <2>1 DEF PromiseOK
  <2>3. PICK m \in Grid(c) : Free(c, h, m, clock) =< Free(c, g, n, clock)
    BY <1>7, <2>1
  <2>4. IsTable(c, h)
    BY <1>6 DEF EndDone, Tidy, P!Tidy, IsTable
  <2>5. /\ Free(c, g, n, clock) \in Nat /\ Free(c, h, m, clock) \in Nat
        /\ clock =< Free(c, h, m, clock)
    BY <1>3, <2>4, AllPlan DEF Plans, FreePlans
  <2>6. Free(c, h, m, clock) =< p \/ Free(c, h, m, clock) = clock
    BY <1>3, <2>2, <2>3, <2>5
  <2>. QED
    BY <2>6
<1>. QED
  BY <1>8, <1>9 DEF ClusterKept

(* A job is planned behind those of its queue, and there is no other queue.*)
LEMMA TaskKept ==
  ASSUME TurnsInv, NEW c \in Clusters, NEW q \in batchMail[c], ScheduleTask(c, q)
  PROVE  ClusterKept(c)
<1>. DEFINE g == clusters[c].gantt
            h == clusters'[c].gantt
            qs == clusters[c].queues
            W == Waits(clusters[c])
<1>0. PICK x : x = q.job
  OBVIOUS
<1>1. TaskStep(c, x) /\ q.name = "SB_TASK"
  BY <1>0, TaskSteps DEF ScheduleTask, TurnsInv
<1>2. /\ UNCHANGED <<clock, job, pos>> /\ x \in Jobs /\ Bound(c, x)
      /\ clusters[c].state[x] = "WAITING" /\ clusters'[c].state = clusters[c].state
      /\ TaskDone(c, g, h, qs, Procs, x, Level(c, x), clock)
      /\ clusters'[c].queues = G!Grown(qs, Level(c, x), x)
  BY <1>1 DEF TaskStep
<1>3. OneLevel(c)' <=> OneLevel(c)
  BY <1>2 DEF OneLevel, SentJob, Level
<1>4. TableOK(c) /\ PhaseOK(c) /\ ClusterShaped(c, clusters[c]) /\ Levels[c] \in Nat
  BY SizesAssumption DEF TurnsInv, TablesInv, TablesOK, PlacesInv, ClustersOK
<1>5. x \in W /\ W \in SUBSET Jobs
  BY <1>2 DEF Waits
<1>6. ASSUME OneLevel(c) PROVE G!Alone(qs, Level(c, x))
  <2>1. SUFFICES ASSUME NEW r \in 1 .. Len(qs), r # Level(c, x) PROVE qs[r] = <<>>
    BY DEF G!Alone
  <2>2. r \in 1 .. Levels[c] /\ qs[r] \in Seq(Jobs)
    BY <1>4, <2>1 DEF ClusterShaped
  <2>3. ASSUME NEW y \in Jobs PROVE G!NotIn(qs[r], y)
    <3>1. SUFFICES ASSUME ~ G!NotIn(qs[r], y) PROVE FALSE
      OBVIOUS
    <3>2. Level(c, y) = r /\ Here(c, y)
      BY <1>4, <2>2, <3>1 DEF TableOK, Here, Keeping
    <3>3. SentJob(y) /\ SentJob(x)
      BY <1>2, <1>4, <3>2 DEF PhaseOK, Here
    <3>. QED
      BY <1>2, <1>6, <2>1, <3>2, <3>3 DEF OneLevel
  <2>4. ASSUME NEW s \in Seq(Jobs), s # <<>> PROVE \E y \in Jobs : ~ G!NotIn(s, y)
    <3>1. 1 \in 1 .. Len(s) /\ s[1] \in Jobs
      BY <2>4
    <3>. QED
      BY <3>1 DEF G!NotIn
  <2>. QED
    BY <2>2, <2>3, <2>4
<1>7. TurnOK(c)'
  <2>1. Waits(clusters[c])' = W /\ Procs' = Procs
    BY <1>2 DEF Procs, Waits
  <2>2. SUFFICES ASSUME Lasting, OneLevel(c)
                 PROVE  InTurns(c, h, G!Grown(qs, Level(c, x), x), W, Procs, clock)
    BY <1>2, <1>3, <2>1 DEF TurnOK
  <2>3. InTurns(c, g, qs, W, Procs, clock) /\ Plugins[c] = "fcfs"
    BY <2>2 DEF TurnsInv, TurnsOK, TurnOK, OneLevel
  <2>. QED
    BY <1>2, <1>5, <1>6, <2>2, <2>3 DEF TaskDone
<1>8. PromisesKept(c)
  BY <1>1 DEF PromisesKept, PromiseOK
<1>. QED
  BY <1>7, <1>8 DEF ClusterKept

(* The pledges of a step in which metaSched has no part.                   *)
LEMMA PledgesStay ==
  ASSUME TurnsInv, \A c \in Clusters : PromisesKept(c), best' = best,
         mpc' = "answer" => mpc = "answer", Choosing' => Choosing,
         \A a \in Answers' : \/ a \in Answers
                             \/ a.name = "SB_PRED" => PromiseOK(a.from, a.value)'
  PROVE  PledgesOK'
<1>1. MetaInv /\ Numbers
  BY DEF TurnsInv, TablesInv, PlacesInv
<1>2. ASSUME mpc' = "answer", NEW a \in Answers', a.name = "SB_PRED"
      PROVE  PromiseOK(a.from, a.value)'
  <2>1. CASE a \in Answers
    <3>1. a.from \in Clusters /\ a.value \in Nat
      BY <1>1, <2>1, FromClusters DEF Numbers
    <3>2. PromiseOK(a.from, a.value)
      BY <1>2, <2>1 DEF TurnsInv, PledgesOK
    <3>. QED
      BY <3>1, <3>2 DEF PromisesKept
  <2>. QED
    BY <1>2, <2>1
<1>3. ASSUME Choosing', best' # NoWinner
      PROVE  PromiseOK(best.cluster, best.start)'
  <2>1. PICK b, c, p : b = best /\ c = b.cluster /\ p = b.start
    OBVIOUS
  <2>2. c \in Clusters /\ p \in Nat /\ PromiseOK(c, p)
    BY <1>1, <1>3, <2>1, FromClusters DEF TurnsInv, PledgesOK, Numbers
  <2>3. PromiseOK(c, p)'
    BY <2>2 DEF PromisesKept
  <2>4. best' = b
    BY <2>1
  <2>. QED
    BY <2>1, <2>3, <2>4 DEF PromiseOK
<1>. QED
  BY <1>2, <1>3 DEF PledgesOK

(* The steps that change no record, and send no job.                       *)
LEMMA CalmKepts ==
  ASSUME TurnsInv, JobsKept, pos' \in Nat, pos' >= pos, UNCHANGED <<clock, clusters>>
  PROVE  /\ TurnsOK'
         /\ (\A c \in Clusters : \A q \in batchMail'[c] : q.name = "SB_TASK" => q \in batchMail[c])
              => \A c \in Clusters : PromisesKept(c)
<1>1. \A c \in Clusters :
        /\ TurnOK(c)'
        /\ (\A q \in batchMail'[c] : q.name = "SB_TASK" => q \in batchMail[c]) => PromisesKept(c)
  BY CalmKept
<1>. QED
  BY <1>1 DEF TurnsOK

(* One cluster changes.                                                    *)
LEMMA OneKept ==
  ASSUME TurnsInv, UNCHANGED <<clock, job, pos>>, NEW c \in Clusters, ClusterKept(c),
         \A d \in Clusters : d # c => clusters'[d] = clusters[d],
         \A d \in Clusters : batchMail'[d] \subseteq batchMail[d]
  PROVE  TurnsOK' /\ \A d \in Clusters : PromisesKept(d)
<1>1. JobsKept /\ pos' \in Nat /\ pos' >= pos
  BY SameKept DEF TurnsInv, TablesInv, PlacesInv, MetaInv, PlaceOK
<1>2. \A d \in Clusters : d # c => ClusterKept(d)
  BY <1>1, CalmKept DEF ClusterKept
<1>. QED
  BY <1>2 DEF ClusterKept, TurnsOK

(* An answer that is handed on promises what it did.                       *)
LEMMA RelayPledges ==
  ASSUME TurnsInv, NEW c \in Clusters, SedRelay(c)
  PROVE  TurnsOK' /\ PledgesOK'
<1>1. PICK a \in sedMail[c] :
        /\ sedMail' = [sedMail EXCEPT ![c] = @ \ {a}] /\ metaMail' = metaMail \cup {a}
        /\ UNCHANGED <<clock, job, clusters, metaVars, batchMail>>
  BY DEF SedRelay
<1>2. /\ pos' = pos /\ best' = best /\ mpc' = mpc /\ pos \in Nat
      /\ sedMail = [d \in Clusters |-> sedMail[d]]
  BY <1>1 DEF metaVars, TurnsInv, TablesInv, PlacesInv, MetaInv, PlaceOK, MailTyped
<1>3. JobsKept
  BY <1>1, SameKept DEF TurnsInv
<1>4. TurnsOK' /\ \A d \in Clusters : PromisesKept(d)
  BY <1>1, <1>2, <1>3, CalmKepts
<1>5. \A d \in Clusters : sedMail'[d] \subseteq sedMail[d]
  BY <1>1, <1>2
<1>6. \A b \in Answers' : b \in Answers
  BY <1>1, <1>5 DEF Answers
<1>7. PledgesOK'
  BY <1>2, <1>4, <1>6, PledgesStay DEF Choosing
<1>. QED
  BY <1>4, <1>7

(* What a sed does before the job is sent: its own answer is a refusal.    *)
LEMMA SedPledges ==
  ASSUME TurnsInv, NEW c \in Clusters, SedReceive(c)
  PROVE  TurnsOK' /\ PledgesOK'
<1>1. Sending /\ c = Target /\ Forward(c, Sent) /\ UNCHANGED <<clock, job, clusters, sedMail>>
  BY DEF SedReceive
<1>2. JobsKept /\ MetaInv /\ pos \in Nat /\ ~ Waiting
  BY <1>1, SameKept DEF TurnsInv, TablesInv, PlacesInv, MetaInv, PlaceOK, Sending, Waiting
<1>3. CASE mpc = "send"
  <2>1. PICK p : p = pos + 1
    OBVIOUS
  <2>2. NextJob(p) /\ pos' = pos + 1
    BY <1>3, <2>1 DEF SedReceive, NextJob
  <2>3. TurnsOK'
    BY <1>1, <1>2, <2>2, CalmKepts
  <2>4. PledgesOK'
    BY <2>2 DEF NextJob, PledgesOK
  <2>. QED
    BY <2>3, <2>4
<1>4. CASE mpc # "send"
  <2>1. pos' = pos /\ best' = best /\ (Choosing' => Choosing) /\ Sent.name # "SB_TASK"
    BY <1>1, <1>4 DEF SedReceive, Sending, Sent, Question, Choosing
  <2>2. batchMail = [d \in Clusters |-> batchMail[d]]
    BY <1>2 DEF MetaInv, MailTyped
  <2>3. \A d \in Clusters : \A q \in batchMail'[d] : q.name = "SB_TASK" => q \in batchMail[d]
    BY <1>1, <2>1, <2>2 DEF Forward
  <2>4. TurnsOK' /\ \A d \in Clusters : PromisesKept(d)
    BY <1>1, <1>2, <2>1, <2>3, CalmKepts
  <2>5. Answers = {}
    BY <1>2, FromClusters
  <2>6. \A a \in Answers' : a.name # "SB_PRED"
    <3>1. \A a \in metaMail' : a \in metaMail \/ a = Answer("SB_SERVICE_KO", c, Sent.job, 0)
      BY <1>1 DEF Forward
    <3>2. \A a \in metaMail' : a.name # "SB_PRED"
      BY <2>5, <3>1 DEF Answers, Answer
    <3>. QED
      BY <1>1, <2>5, <3>2 DEF Answers
  <2>7. ASSUME Choosing', best' # NoWinner PROVE PromiseOK(best.cluster, best.start)'
    <3>1. PICK b, k, p : b = best /\ k = b.cluster /\ p = b.start
      OBVIOUS
    <3>2. k \in Clusters /\ p \in Nat /\ PromiseOK(k, p)
      BY <1>2, <2>1, <2>7, <3>1, FromClusters DEF TurnsInv, PledgesOK, Numbers
    <3>3. PromiseOK(k, p)' /\ best' = b
      BY <2>1, <2>4, <3>1, <3>2 DEF PromisesKept
    <3>. QED
      BY <3>1, <3>3 DEF PromiseOK
  <2>8. PledgesOK'
    BY <2>6, <2>7 DEF PledgesOK
  <2>. QED
    BY <2>4, <2>8
<1>. QED
  BY <1>3, <1>4

(* The batches: a prediction is made when no job is on its way.            *)
LEMMA BatchPledges ==
  ASSUME TurnsInv, NEW c \in Clusters, NEW q \in batchMail[c],
         InitPf(c, q) \/ PredictSchedule(c, q) \/ ScheduleTask(c, q)
  PROVE  TurnsOK' /\ PledgesOK'
<1>1. BatchTakes(c, q) /\ TablesInv /\ MetaInv
  BY DEF InitPf, PredictSchedule, ScheduleTask, TurnsInv, TablesInv, PlacesInv
<1>2. /\ \A d \in Clusters : batchMail'[d] \subseteq batchMail[d]
      /\ UNCHANGED <<clock, metaVars, metaMail>> /\ pos' = pos /\ pos \in Nat
      /\ best' = best /\ mpc' = mpc
  BY <1>1, BatchLess
<1>3. CASE ScheduleTask(c, q)
  <2>1. sedMail' = sedMail /\ TaskStep(c, q.job)
    BY <1>1, <1>3, TaskSteps DEF ScheduleTask
  <2>2. job' = job /\ \A d \in Clusters : d # c => clusters'[d] = clusters[d]
    BY <2>1 DEF TaskStep
  <2>3. ClusterKept(c)
    BY <1>3, TaskKept
  <2>4. TurnsOK' /\ \A d \in Clusters : PromisesKept(d)
    BY <1>2, <2>2, <2>3, OneKept
  <2>5. \A a \in Answers' : a \in Answers
    BY <1>2, <2>1 DEF Answers
  <2>6. PledgesOK'
    BY <1>2, <2>4, <2>5, PledgesStay DEF Choosing
  <2>. QED
    BY <2>4, <2>6
<1>4. CASE InitPf(c, q)
  <2>0. PICK a : a = Answer("SB_INIT", c, q.job, Size[c])
    OBVIOUS
  <2>1. Reply(c, a) /\ UNCHANGED <<job, clusters>> /\ a.name # "SB_PRED"
    BY <1>4, <2>0 DEF InitPf, Answer
  <2>2. JobsKept
    BY <1>1, <2>1, SameKept
  <2>3. TurnsOK' /\ \A d \in Clusters : PromisesKept(d)
    BY <1>2, <2>1, <2>2, CalmKepts
  <2>4. \A b \in Answers' : b \in Answers \/ b = a
    BY <1>1, <1>2, <2>1, ReplyAdds
  <2>5. PledgesOK'
    BY <1>2, <2>1, <2>3, <2>4, PledgesStay DEF Choosing
  <2>. QED
    BY <2>3, <2>5
<1>5. CASE PredictSchedule(c, q)
  <2>0. PICK a : a = IF job[q.job].procs =< Size[c]
                       THEN Answer("SB_PRED", c, q.job, FirstSlot(c, q.job))
                       ELSE Answer("SB_CLUSTER_KO", c, q.job, 0)
    OBVIOUS
  <2>1. Reply(c, a) /\ UNCHANGED clusters /\ q.name = "SED_PRED"
    BY <1>5, <2>0 DEF PredictSchedule
  <2>2. JobsKept /\ q.job \in Jobs
    BY <1>1, <1>5, PredictKept, NotSent DEF Choosing
  <2>3. TurnsOK' /\ \A d \in Clusters : PromisesKept(d)
    BY <1>2, <2>1, <2>2, CalmKepts
  <2>4. \A b \in Answers' : b \in Answers \/ b = a
    BY <1>1, <1>2, <2>1, ReplyAdds
  <2>5. ASSUME a.name = "SB_PRED" PROVE PromiseOK(a.from, a.value)'
    <3>1. /\ job[q.job].procs =< Size[c]
          /\ a.from = c /\ a.value = FirstSlot(c, q.job)
      BY <2>0, <2>5 DEF Answer
    <3>2. \A o \in batchMail[c] : o.name # "SB_TASK"
      BY <1>1, <2>1 DEF BatchTakes, Rank
    <3>3. Plugins[c] = "fcfs" =>
            \E n \in Grid(c) : a.value = Free(c, clusters[c].gantt, n, clock)
      BY <1>1, <2>2, <3>1, FirstSlotNat
    <3>4. a.value \in Nat
      BY <1>1, <2>2, <3>1, FirstSlotNat
    <3>5. PromiseOK(c, a.value)
      <4>1. \A n \in Grid(c) : a.value = Free(c, clusters[c].gantt, n, clock)
                                 => Free(c, clusters[c].gantt, n, clock) =< a.value
        BY <3>4
      <4>. QED
        BY <3>2, <3>3, <4>1 DEF PromiseOK, OneLevel
    <3>. QED
      BY <2>3, <3>1, <3>4, <3>5 DEF PromisesKept
  <2>6. PledgesOK'
    BY <1>2, <2>3, <2>4, <2>5, PledgesStay DEF Choosing
  <2>. QED
    BY <2>3, <2>6
<1>. QED
  BY <1>3, <1>4, <1>5

(* metaSched learns the size of a cluster: it has no job yet.              *)
LEMMA InformPledges ==
  ASSUME TurnsInv, Inform
  PROVE  TurnsOK' /\ PledgesOK'
<1>1. /\ mpc = "inform" /\ UNCHANGED <<clock, job, clusters, batchMail>> /\ pos = 1
      /\ NextJob(1) \/ (mpc' = "init" /\ pos' = pos)
  BY DEF Inform, TurnsInv, TablesInv, PlacesInv, MetaInv, PlaceOK
<1>2. pos' = pos /\ JobsKept
  BY <1>1, SameKept DEF NextJob, TurnsInv
<1>3. TurnsOK'
  BY <1>1, <1>2, CalmKepts
<1>4. CASE NextJob(1)
  BY <1>3, <1>4 DEF NextJob, PledgesOK
<1>5. CASE mpc' = "init"
  BY <1>3, <1>5 DEF PledgesOK, Choosing
<1>. QED
  BY <1>1, <1>4, <1>5

(* The best answer so far is a promise.                                    *)
LEMMA TakePledges ==
  ASSUME TurnsInv, TakeAnswer
  PROVE  TurnsOK' /\ PledgesOK'
<1>1. PICK a \in metaMail :
        \/ at < NbClusters /\ mpc' = "ask" /\ best' = Judged(a).best /\ pos' = pos
        \/ Drop
        \/ at = NbClusters /\ mpc' = "sleep" /\ best' = Judged(a).best /\ pos' = pos
  BY DEF TakeAnswer
<1>2. /\ mpc = "answer" /\ UNCHANGED <<clock, job, clusters, batchMail>> /\ pos \in Nat
      /\ MetaInv /\ Numbers
  BY DEF TakeAnswer, TurnsInv, TablesInv, PlacesInv, MetaInv, PlaceOK
<1>3. pos' \in Nat /\ pos' >= pos /\ JobsKept
  BY <1>1, <1>2, SameKept DEF Drop, NextJob, TurnsInv
<1>4. TurnsOK' /\ \A c \in Clusters : PromisesKept(c)
  BY <1>2, <1>3, CalmKepts
<1>5. CASE Drop
  BY <1>4, <1>5 DEF Drop, NextJob, PledgesOK
<1>6. CASE ~ Drop
  <2>1. mpc' # "answer" /\ best' = Judged(a).best /\ pos' = pos
    BY <1>1, <1>6
  <2>2. a \in Answers
    BY DEF Answers
  <2>3. a.from \in Clusters /\ a.value \in Nat
    BY <1>2, <2>2, FromClusters DEF Numbers
  <2>4. a.name = "SB_PRED" => PromiseOK(a.from, a.value)
    BY <1>2, <2>2 DEF TurnsInv, PledgesOK
  <2>5. \/ best' = best
        \/ a.name = "SB_PRED" /\ best'.cluster = a.from /\ best'.start = a.value
    BY <2>1 DEF Judged
  <2>6. ASSUME best' # NoWinner PROVE PromiseOK(best.cluster, best.start)'
    <3>1. PICK k, p : k = best'.cluster /\ p = best'.start
      OBVIOUS
    <3>2. k \in Clusters /\ p \in Nat /\ PromiseOK(k, p)
      <4>1. CASE best' = best
        BY <1>2, <2>6, <3>1, <4>1, FromClusters DEF TurnsInv, PledgesOK, Numbers, Choosing
      <4>2. CASE a.name = "SB_PRED" /\ best'.cluster = a.from /\ best'.start = a.value
        BY <2>3, <2>4, <3>1, <4>2
      <4>. QED
        BY <2>5, <4>1, <4>2
    <3>3. PromiseOK(k, p)'
      BY <1>4, <3>2 DEF PromisesKept
    <3>. QED
      BY <3>1, <3>3 DEF PromiseOK
  <2>7. PledgesOK'
    BY <2>1, <2>6 DEF PledgesOK
  <2>. QED
    BY <1>4, <2>7
<1>. QED
  BY <1>5, <1>6

(* A job starts or ends.                                                   *)
LEMMA JobPledges ==
  ASSUME TurnsInv, NEW c \in Clusters, NEW j \in Jobs, StartJob(c, j) \/ FinishJob(c, j)
  PROVE  TurnsOK' /\ PledgesOK'
<1>1. UNCHANGED <<clock, job, metaVars, mailVars>> /\ TablesInv
  BY DEF StartJob, FinishJob, TurnsInv
<1>2. /\ UNCHANGED <<pos, best, mpc, metaMail, sedMail, batchMail>>
      /\ Choosing' => Choosing
  BY <1>1 DEF metaVars, mailVars, Choosing
<1>3. \A d \in Clusters : d # c => clusters'[d] = clusters[d]
  BY <1>1, StartSteps, EndSteps DEF StartStep, EndStep
<1>4. ClusterKept(c)
  BY StartKept, EndKept
<1>5. TurnsOK' /\ \A d \in Clusters : PromisesKept(d)
  BY <1>1, <1>2, <1>3, <1>4, OneKept
<1>6. \A a \in Answers' : a \in Answers
  BY <1>2 DEF Answers
<1>7. PledgesOK'
  BY <1>2, <1>5, <1>6, PledgesStay
<1>. QED
  BY <1>5, <1>7

(* Time passes, metaSched wakes up, or nothing happens.                    *)
LEMMA QuietPledges ==
  ASSUME TurnsInv, WakeUp \/ Tick \/ UNCHANGED vars
  PROVE  TurnsOK' /\ PledgesOK'
<1>1. /\ UNCHANGED <<job, clusters, pos, best, metaMail, sedMail, batchMail>> /\ pos \in Nat
      /\ mpc' = "answer" => mpc = "answer"
      /\ Choosing' => Choosing
  BY DEF WakeUp, Tick, vars, metaVars, mailVars, Choosing, TurnsInv, TablesInv, PlacesInv,
     MetaInv, PlaceOK
<1>2. \A a \in Answers' : a \in Answers
  BY <1>1 DEF Answers
<1>3. CASE Tick
  <2>1. \A c \in Clusters : ClusterKept(c)
    BY <1>3, TickKept
  <2>2. TurnsOK' /\ \A c \in Clusters : PromisesKept(c)
    BY <2>1 DEF ClusterKept, TurnsOK
  <2>3. PledgesOK'
    BY <1>1, <1>2, <2>2, PledgesStay
  <2>. QED
    BY <2>2, <2>3
<1>4. CASE WakeUp \/ UNCHANGED vars
  <2>1. UNCHANGED clock
    BY <1>4 DEF WakeUp, vars
  <2>2. JobsKept
    BY <1>1, SameKept DEF TurnsInv
  <2>3. TurnsOK' /\ \A c \in Clusters : PromisesKept(c)
    BY <1>1, <2>1, <2>2, CalmKepts
  <2>4. PledgesOK'
    BY <1>1, <1>2, <2>3, PledgesStay
  <2>. QED
    BY <2>3, <2>4
<1>. QED
  BY <1>3, <1>4

(* Nobody touches the wall times.                                          *)
LEMMA WallsStay ==
  ASSUME TablesInv, WallsOK, [Next]_vars
  PROVE  WallsOK'
<1>1. JobsKept
  <2>1. ASSUME NEW c \in Clusters, BatchHandle(c) PROVE JobsKept
    <3>1. PICK q \in batchMail[c] : InitPf(c, q) \/ PredictSchedule(c, q) \/ ScheduleTask(c, q)
      BY <2>1 DEF BatchHandle
    <3>2. CASE PredictSchedule(c, q)
      BY <3>2, PredictKept
    <3>3. CASE ScheduleTask(c, q)
      <4>1. UNCHANGED job
        BY <3>3, TaskSteps DEF TaskStep
      <4>. QED
        BY <4>1, SameKept
    <3>4. CASE InitPf(c, q)
      BY <3>4, SameKept DEF InitPf
    <3>. QED
      BY <3>1, <3>2, <3>3, <3>4
  <2>2. CASE ~ \E c \in Clusters : BatchHandle(c)
    <3>1. UNCHANGED job
      BY <2>2 DEF Next, Step, Terminated, SedReceive, SedRelay, Inform, TakeAnswer, WakeUp,
         StartJob, FinishJob, Tick, vars
    <3>. QED
      BY <3>1, SameKept
  <2>. QED
    BY <2>1, <2>2
<1>. QED
  BY <1>1 DEF WallsOK, JobsKept

(* The invariant holds at first.                                           *)
LEMMA TurnsInit == Init => TurnsInv
<1>. SUFFICES ASSUME Init PROVE TurnsInv
  OBVIOUS
<1>1. TablesInv /\ Numbers
  BY TablesInit, NumbersInit
<1>2. WallsOK
  BY DEF Init, WallsOK, Lasting
<1>3. PledgesOK
  BY DEF Init, PledgesOK, Choosing
<1>4. ASSUME NEW c \in Clusters PROVE TurnOK(c)
  <2>. DEFINE k == clusters[c]
  <2>1. k = C(c)!EmptyCluster
    BY DEF Init
  <2>2. PICK e, g, s, w, n, l :
           k = [state |-> e,
                gantt |-> [chart |-> g, start |-> s, wall |-> w, nodes |-> n, lead |-> l],
                queues |-> [p \in 1 .. Levels[c] |-> <<>>], reserved |-> <<>>]
           /\ g = [m \in Grid(c) |-> <<>>]
    BY <2>1, Zenon DEF C!EmptyCluster, C!Nodes, C!Queues, Grid
  <2>. HIDE DEF k
  <2>3. \A m \in Grid(c) : k.gantt.chart[m] = <<>>
    BY <2>2
  <2>4. k.queues = [p \in 1 .. Levels[c] |-> <<>>]
    BY <2>2
  <2>5. Levels[c] \in Nat \ {0} /\ k.queues \in [1 .. Levels[c] -> Seq(Jobs)]
    BY <1>1, SizesAssumption DEF TablesInv, PlacesInv, ClustersOK, ClusterShaped, k
  <2>6. /\ k.queues \in Seq(Seq(Jobs)) /\ Len(k.queues) # 0
        /\ \A p \in 1 .. Len(k.queues) : k.queues[p] = <<>>
    <3>. DEFINE qs == k.queues
    <3>1. \A p \in 1 .. Levels[c] : qs[p] = <<>>
      BY <2>4
    <3>. HIDE DEF qs
    <3>2. qs \in Seq(Seq(Jobs)) /\ Len(qs) = Levels[c]
      BY <2>5 DEF qs
    <3>. QED
      BY <2>5, <3>1, <3>2 DEF qs
  <2>7. IsTable(c, k.gantt)
    BY <1>1, TableRead DEF k
  <2>8. InTurns(c, k.gantt, k.queues, Waits(k), Procs, clock)
    BY <2>3, <2>6, <2>7, AllPlan DEF Plans, EmptyPlans
  <2>. QED
    BY <2>8 DEF TurnOK, k
<1>. QED
  BY <1>1, <1>2, <1>3, <1>4 DEF TurnsInv, TurnsOK

(* The invariant is inductive.                                             *)
LEMMA TurnsStep == TurnsInv /\ [Next]_vars => TurnsInv'
<1>. SUFFICES ASSUME TurnsInv, [Next]_vars PROVE TurnsInv'
  OBVIOUS
<1>1. TablesInv' /\ Numbers' /\ WallsOK'
  BY TablesStep, NumbersStep, WallsStay DEF TurnsInv
<1>2. CASE \E c \in Clusters : SedReceive(c)
  BY <1>1, <1>2, SedPledges DEF TurnsInv
<1>3. CASE \E c \in Clusters : SedRelay(c)
  BY <1>1, <1>3, RelayPledges DEF TurnsInv
<1>4. CASE \E c \in Clusters : BatchHandle(c)
  BY <1>1, <1>4, BatchPledges DEF BatchHandle, TurnsInv
<1>5. CASE Inform
  BY <1>1, <1>5, InformPledges DEF TurnsInv
<1>6. CASE TakeAnswer
  BY <1>1, <1>6, TakePledges DEF TurnsInv
<1>7. CASE \E c \in Clusters, j \in Jobs : StartJob(c, j) \/ FinishJob(c, j)
  BY <1>1, <1>7, JobPledges DEF TurnsInv
<1>8. CASE WakeUp \/ Tick \/ UNCHANGED vars
  BY <1>1, <1>8, QuietPledges DEF TurnsInv
<1>. QED
  BY <1>2, <1>3, <1>4, <1>5, <1>6, <1>7, <1>8 DEF Next, Step, Terminated

(***************************************************************************)
(* The date a cluster was chosen for lasts until the job is sent to it: if *)
(* the cluster takes its jobs in turn (fcfs, and one queue for all), every *)
(* end between the prediction and the end of the sleep (main.c:157) plans  *)
(* all waiting jobs again, and leaves no node busy for longer.  The walls  *)
(* of the jobs are assumed to be positive.                                 *)
(***************************************************************************)
THEOREM PredictionLasts == Lasting => (Spec => []PredictionKept)
<1>. SUFFICES ASSUME Lasting PROVE Spec => []PredictionKept
  OBVIOUS
<1>1. TurnsInv => PredictionKept
  <2>. SUFFICES ASSUME TurnsInv, mpc = "send",
                       NEW c \in Clusters, c = best.cluster, InTurn(c)
                PROVE  \/ FirstSlot(c, JobList[pos]) =< best.start
                       \/ FirstSlot(c, JobList[pos]) = clock
    BY DEF PredictionKept
  <2>1. TablesInv /\ Holds(c, JobList[pos])
    BY DEF TurnsInv, TablesInv, PlacesInv, MetaInv, WinnerOK, WinnerHolds
  <2>2. OneLevel(c)
    BY DEF InTurn, OneLevel, C!QueueOf, Level
  <2>3. PICK p : p = best.start
    OBVIOUS
  <2>4. best # NoWinner /\ p \in Nat
    BY <2>3, ClustersAssumption DEF NoWinner, Clusters, TurnsInv, Numbers
  <2>5. PromiseOK(c, p)
    BY <2>3, <2>4 DEF TurnsInv, PledgesOK, Choosing
  <2>6. PICK n \in Grid(c) : \/ Free(c, clusters[c].gantt, n, clock) =< p
                             \/ Free(c, clusters[c].gantt, n, clock) = clock
    BY <2>2, <2>5 DEF PromiseOK
  <2>7. /\ FirstSlot(c, JobList[pos]) \in Nat
        /\ FirstSlot(c, JobList[pos]) =< Free(c, clusters[c].gantt, n, clock)
        /\ \E m \in Grid(c) : FirstSlot(c, JobList[pos]) = Free(c, clusters[c].gantt, m, clock)
    BY <2>1, <2>2, FirstSlotNat DEF Holds, OneLevel
  <2>8. \A m \in Grid(c) : /\ Free(c, clusters[c].gantt, m, clock) \in Nat
                           /\ clock =< Free(c, clusters[c].gantt, m, clock)
    BY <2>1, TableRead, AllPlan DEF Plans, FreePlans
  <2>9. clock \in Nat
    BY <2>1, TableRead
  <2>. QED
    BY <2>3, <2>4, <2>6, <2>7, <2>8, <2>9
<1>2. Spec => []TurnsInv
  BY TurnsInit, TurnsStep, PTL DEF Spec
<1>. QED
  BY <1>1, <1>2, PTL
=============================================================================
