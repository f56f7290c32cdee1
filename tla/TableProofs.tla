---------------------------- MODULE TableProofs ----------------------------
(***************************************************************************)
(* The table of one cluster, for every number of nodes, jobs, supervisors  *)
(* and queues and with either plugin.                                      *)
(*                                                                         *)
(* First its type, with that of all other variables.  Beyond bookkeeping   *)
(* this says that the scheduler is only ever asked for slots that exist:   *)
(* there is a date to find, and each position returned is one of its queue.*)
(*                                                                         *)
(* Then that the slots of a node never overlap, with early ends, deadlines,*)
(* reservations and cancellations.  A slot is only ever taken for a job    *)
(* that has none: the inductive invariant adds who has one.                *)
(***************************************************************************)
EXTENDS BatchProperties, GanttProofs

(* Only jobs the cluster can hold are traced in the priority queues.       *)
QueuedFit ==
  \A p \in Queues : \A i \in 1 .. Len(queues[p]) : desc[queues[p][i]].procs =< NbNodes

(* The requests in the stack are the clients'.                             *)
StackAsked == \A m \in stack : m.name \in RequestKinds => m \in Requests

(* Who has a job, or has one to send, knows it.                            *)
HoldersKnown ==
  /\ \A s \in Sups : spc[s] # "idle" => sjob[s] \in Jobs
  /\ rpc = "run" => rmJob \in Jobs /\ rmSup \in Sups
  /\ lpc = "send" => loadPos =< Len(Load)

TypeInv ==
  /\ TypeOK
  /\ desc \in Workloads
  /\ QueuedFit
  /\ StackAsked
  /\ HoldersKnown

-----------------------------------------------------------------------------
(* Queues and tables.                                                      *)

(* cluster_search_job finds the first j of q.                              *)
LEMMA FirstIndex ==
  ASSUME NEW q \in Seq(Jobs), NEW j, Holds(q, j)
  PROVE  \E k \in 1 .. Len(q) : q[k] = j /\ \A h \in 1 .. k - 1 : q[h] # j
<1>. DEFINE hits == {i \in 1 .. Len(q) : q[i] = j}
<1>1. DOMAIN q = 1 .. Len(q) /\ Len(q) \in Nat
  OBVIOUS
<1>2. hits \subseteq Nat /\ hits # {}
  BY <1>1 DEF Holds
<1>3. PICK k \in hits : \A h \in hits : k =< h
  <2>. HIDE DEF hits
  <2>. QED
    BY <1>2, LeastElement
<1>4. ASSUME NEW h \in 1 .. k - 1 PROVE q[h] # j
  <2>1. h \in 1 .. Len(q) /\ ~ (k =< h)
    BY <1>1, <1>3
  <2>. QED
    BY <1>3, <2>1
<1>. QED
  BY <1>3, <1>4

(* r is q without its element at k, the first j.                           *)
Without(r, q, k, j) ==
  /\ k \in 1 .. Len(q)
  /\ q[k] = j
  /\ \A h \in 1 .. k - 1 : q[h] # j
  /\ r \in Seq(Jobs)
  /\ Len(r) = Len(q) - 1
  /\ \A i \in 1 .. Len(q) - 1 : r[i] = IF i < k THEN q[i] ELSE q[i + 1]

(* Removing a job leaves the others, each once, in their order.            *)
LEMMA RemovedProperties ==
  ASSUME NEW q \in Seq(Jobs), NEW j, Holds(q, j)
  PROVE  \E k : Without(Removed(q, j), q, k, j)
<1>. DEFINE IsFirst(i) == q[i] = j /\ \A h \in 1 .. i - 1 : q[h] # j
            k  == CHOOSE i \in DOMAIN q : IsFirst(i)
            s1 == SubSeq(q, 1, k - 1)
            s2 == SubSeq(q, k + 1, Len(q))
<1>1. DOMAIN q = 1 .. Len(q) /\ Len(q) \in Nat
  OBVIOUS
<1>2. k \in 1 .. Len(q) /\ IsFirst(k)
  BY <1>1, FirstIndex
<1>3. Removed(q, j) = s1 \o s2
  BY DEF Removed
<1>. HIDE DEF k
<1>4. /\ s1 \in Seq(Jobs)
      /\ Len(s1) = k - 1
      /\ \A i \in 1 .. k - 1 : s1[i] = q[i]
  <2>1. \A i \in 1 .. k - 1 : q[i] \in Jobs
    BY <1>1, <1>2
  <2>2. 1 \in Int /\ k - 1 \in Int
    BY <1>2
  <2>. QED
    BY <1>2, <2>1, <2>2, SubSeqProperties
<1>5. /\ s2 \in Seq(Jobs)
      /\ Len(s2) = Len(q) - k
      /\ \A i \in 1 .. Len(q) - k : s2[i] = q[k + i]
  <2>1. \A i \in k + 1 .. Len(q) : q[i] \in Jobs
    BY <1>1, <1>2
  <2>2. k + 1 \in Int /\ Len(q) \in Int
    BY <1>1, <1>2
  <2>3. /\ s2 \in Seq(Jobs)
        /\ Len(s2) = IF k + 1 =< Len(q) THEN Len(q) - (k + 1) + 1 ELSE 0
        /\ \A i \in 1 .. Len(q) - (k + 1) + 1 : s2[i] = q[(k + 1) + i - 1]
    BY <2>1, <2>2, SubSeqProperties
  <2>. HIDE DEF s2
  <2>4. Len(q) - (k + 1) + 1 = Len(q) - k
    BY <1>1, <1>2
  <2>5. \A i \in 1 .. Len(q) - k : (k + 1) + i - 1 = k + i
    BY <1>1, <1>2
  <2>6. Len(s2) = Len(q) - k
    <3>1. CASE k = Len(q)
      <4>1. ~ (k + 1 =< Len(q)) /\ Len(q) - k = 0
        BY <1>1, <3>1
      <4>. QED
        BY <2>3, <4>1
    <3>2. CASE k # Len(q)
      <4>1. k \in 1 .. Len(q) /\ Len(q) \in Nat
        BY <1>1, <1>2
      <4>2. k + 1 =< Len(q)
        BY <3>2, <4>1
      <4>. QED
        BY <2>3, <2>4, <4>2
    <3>. QED
      BY <3>1, <3>2
  <2>. QED
    BY <2>3, <2>4, <2>5, <2>6
<1>. HIDE DEF s1, s2
<1>6. /\ s1 \o s2 \in Seq(Jobs)
      /\ Len(s1 \o s2) = Len(q) - 1
      /\ \A i \in 1 .. Len(q) - 1 :
           (s1 \o s2)[i] = IF i =< k - 1 THEN s1[i] ELSE s2[i - (k - 1)]
  <2>1. /\ s1 \o s2 \in Seq(Jobs)
        /\ Len(s1 \o s2) = Len(s1) + Len(s2)
        /\ \A i \in 1 .. Len(s1) + Len(s2) :
             (s1 \o s2)[i] = IF i =< Len(s1) THEN s1[i] ELSE s2[i - Len(s1)]
    BY <1>4, <1>5, ConcatProperties
  <2>2. Len(s1) + Len(s2) = Len(q) - 1
    BY <1>1, <1>2, <1>4, <1>5
  <2>. QED
    BY <1>4, <2>1, <2>2
<1>7. ASSUME NEW i \in 1 .. Len(q) - 1
      PROVE  (s1 \o s2)[i] = IF i < k THEN q[i] ELSE q[i + 1]
  <2>1. CASE i < k
    BY <1>1, <1>2, <1>4, <1>6, <2>1
  <2>2. CASE ~ (i < k)
    <3>1. i - (k - 1) \in 1 .. Len(q) - k /\ ~ (i =< k - 1) /\ k + (i - (k - 1)) = i + 1
      BY <1>1, <1>2, <2>2
    <3>2. s2[i - (k - 1)] = q[k + (i - (k - 1))]
      BY <1>5, <3>1
    <3>. QED
      BY <1>6, <2>2, <3>1, <3>2
  <2>. QED
    BY <2>1, <2>2
<1>8. Without(Removed(q, j), q, k, j)
  BY <1>2, <1>3, <1>6, <1>7 DEF Without
<1>. QED
  BY <1>8

(* A priority selects one of the queues.                                   *)
LEMMA QueueOfType ==
  ASSUME desc \in [Jobs -> Descriptions], NEW STATE j, j \in Jobs
  PROVE  QueueOf(j) \in Queues
<1>1. desc[j].priority \in Nat
  BY DEF Descriptions
<1>. QED
  BY <1>1, QueuesAssumption DEF QueueOf, Queues

(* Removing the trace of a job keeps the queues and adds nothing to them.  *)
LEMMA UntraceTyped ==
  ASSUME TypeOK, QueuedFit, NEW STATE j, j \in Jobs, Untrace(j)
  PROVE  /\ queues' \in [Queues -> Seq(Jobs)]
         /\ reserved' \in Seq(Jobs)
         /\ \A p \in Queues : \A i \in 1 .. Len(queues'[p]) :
              desc[queues'[p][i]].procs =< NbNodes
<1>1. CASE Holds(reserved, j) /\ reserved' = Removed(reserved, j) /\ UNCHANGED queues
  <2>1. reserved \in Seq(Jobs)
    BY DEF TypeOK
  <2>2. Removed(reserved, j) \in Seq(Jobs)
    BY <1>1, <2>1, RemovedProperties DEF Without
  <2>. QED
    BY <1>1, <2>2 DEF TypeOK, QueuedFit
<1>2. ASSUME ~ Holds(reserved, j), Holds(queues[QueueOf(j)], j), UNCHANGED reserved,
             queues' = [queues EXCEPT ![QueueOf(j)] = Removed(@, j)]
      PROVE  /\ queues' \in [Queues -> Seq(Jobs)]
             /\ reserved' \in Seq(Jobs)
             /\ \A p \in Queues : \A i \in 1 .. Len(queues'[p]) :
                  desc[queues'[p][i]].procs =< NbNodes
  <2>. DEFINE w == QueueOf(j)
              q == queues[w]
  <2>1. w \in Queues
    BY QueueOfType DEF TypeOK
  <2>2. q \in Seq(Jobs)
    BY <2>1 DEF TypeOK
  <2>3. PICK k : Without(Removed(q, j), q, k, j)
    <3>1. Holds(q, j)
      BY <1>2
    <3>. HIDE DEF q
    <3>. QED
      BY <2>2, <3>1, RemovedProperties
  <2>. HIDE DEF w
  <2>4. queues' = [queues EXCEPT ![w] = Removed(q, j)]
    BY <1>2 DEF w
  <2>5. queues \in [Queues -> Seq(Jobs)]
    BY DEF TypeOK
  <2>6. queues' \in [Queues -> Seq(Jobs)]
    BY <2>1, <2>3, <2>4, <2>5 DEF Without
  <2>7. ASSUME NEW p \in Queues, NEW i \in 1 .. Len(queues'[p])
        PROVE  desc[queues'[p][i]].procs =< NbNodes
    <3>1. CASE p # w
      <4>1. queues'[p] = queues[p]
        BY <2>4, <2>5, <3>1
      <4>. QED
        BY <2>7, <4>1 DEF QueuedFit
    <3>2. CASE p = w
      <4>1. queues'[p] = Removed(q, j)
        BY <2>1, <2>4, <2>5, <3>2
      <4>2. Len(q) \in Nat
        BY <2>2
      <4>3. i \in 1 .. Len(q) - 1
        BY <2>3, <2>7, <4>1 DEF Without
      <4>4. \E h \in 1 .. Len(q) : queues'[p][i] = q[h]
        <5>1. i \in 1 .. Len(q) /\ i + 1 \in 1 .. Len(q)
          BY <4>2, <4>3
        <5>. HIDE DEF q
        <5>. QED
          BY <2>3, <4>1, <4>3, <5>1 DEF Without
      <4>. QED
        BY <2>1, <4>4 DEF QueuedFit
    <3>. QED
      BY <3>1, <3>2
  <2>8. reserved' \in Seq(Jobs)
    BY <1>2 DEF TypeOK
  <2>. QED
    BY <2>6, <2>7, <2>8
<1>. QED
  BY <1>1, <1>2 DEF Untrace

(* scheduler->reschedule finds a place for every waiting job of the queues. *)
LEMMA RescheduledTyped ==
  ASSUME TypeOK, NEW ACTION g, g \in Tables, NEW ACTION qs, qs \in [Queues -> Seq(Jobs)],
         NEW ACTION st,
         \A p \in Queues : \A i \in 1 .. Len(qs[p]) : desc[qs[p][i]].procs =< NbNodes
  PROVE  Rescheduled(g, qs, st) \in Tables
<1>. DEFINE waiting == {j \in Jobs : st[j] = "WAITING"}
            movable == {j \in waiting : DeadlineOpen(j)}
<1>1. qs \in Seq(Seq(Jobs)) /\ Len(qs) = NbQueues
  BY QueuesAssumption DEF Queues
<1>2. MovableFit(qs, movable, Procs)
  <2>1. ASSUME NEW p \in 1 .. Len(qs), NEW i \in 1 .. Len(qs[p])
        PROVE  Procs[qs[p][i]] \in 1 .. NbNodes
    <3>1. p \in Queues
      BY <1>1 DEF Queues
    <3>2. qs[p] \in Seq(Jobs)
      BY <3>1
    <3>3. qs[p][i] \in Jobs
      BY <3>2, ElementOfSeq
    <3>4. desc[qs[p][i]].procs \in Nat \ {0}
      BY <3>3 DEF TypeOK, Descriptions
    <3>. QED
      BY <3>1, <3>3, <3>4, NbNodesAssumption DEF Procs
  <2>. HIDE DEF movable
  <2>. QED
    BY <2>1 DEF MovableFit
<1>3. clock \in Nat
  BY DEF TypeOK
<1>4. Rescheduled(g, qs, st) = Reschedule(Plugin, g, qs, waiting, movable, Procs, clock)
  BY DEF Rescheduled
<1>. HIDE DEF movable, waiting
<1>. QED
  BY <1>1, <1>2, <1>3, <1>4, RescheduleTyped

-----------------------------------------------------------------------------
(* The steps.                                                              *)

(* The type of what the resource manager writes.                           *)
RmOK == /\ state \in [Jobs -> JobStates]
        /\ rpc \in RmPcs
        /\ rmJob \in Jobs \cup {NoJob}
        /\ rmWake \in Nat
        /\ rmSup \in 0 .. NbSups
        /\ pool \in Seq(Sups)
        /\ cpt \in 0 .. NbSups
        /\ rpc = "run" => rmJob \in Jobs /\ rmSup \in Sups

(* Starting a job takes a supervisor out of the pool or creates one.       *)
LEMMA DispatchOK ==
  ASSUME TypeOK, NEW STATE j, j \in Jobs, Dispatch(j, pool)
  PROVE  RmOK'
<1>1. /\ state' \in [Jobs -> JobStates]
      /\ rpc' = "run" /\ rmJob' = j /\ rmWake' \in Nat
  BY DEF Dispatch, TypeOK, JobStates
<1>2. CASE pool = <<>>
  <2>1. /\ cpt < NbSups /\ cpt' = cpt + 1 /\ rmSup' = cpt + 1 /\ pool' = <<>>
    BY <1>2 DEF Dispatch
  <2>2. cpt \in 0 .. NbSups
    BY DEF TypeOK
  <2>3. cpt' \in 0 .. NbSups /\ rmSup' \in 0 .. NbSups /\ rmSup' \in Sups
    BY <2>1, <2>2, SupsAssumption DEF Sups
  <2>. QED
    BY <1>1, <2>1, <2>3 DEF RmOK, RmPcs
<1>3. CASE pool # <<>>
  <2>1. rmSup' = Head(pool) /\ pool' = Tail(pool) /\ UNCHANGED cpt
    BY <1>3 DEF Dispatch
  <2>2. Head(pool) \in Sups /\ Tail(pool) \in Seq(Sups)
    BY <1>3, HeadTailProperties DEF TypeOK
  <2>3. rmSup' \in 0 .. NbSups
    BY <2>1, <2>2, SupsAssumption DEF Sups
  <2>. QED
    BY <1>1, <2>1, <2>2, <2>3 DEF RmOK, RmPcs, TypeOK
<1>. QED
  BY <1>2, <1>3

(* The next job to start is a job.                                         *)
LEMMA NextWakeupOK ==
  ASSUME TypeOK, NextWakeup(pool)
  PROVE  RmOK'
<1>. DEFINE S == NodesToStart(gantt, Startable)
            j == NextJob(gantt, Startable)
<1>1. gantt \in Tables
  BY DEF TypeOK
<1>2. CASE S = {}
  BY <1>2 DEF NextWakeup, RmOK, TypeOK, RmPcs
<1>3. CASE S # {}
  <2>1. j \in Jobs
    BY <1>1, <1>3, NextJobType
  <2>2. CASE gantt.start[j] =< clock
    <3>1. Dispatch(j, pool)
      BY <1>3, <2>2 DEF NextWakeup
    <3>. HIDE DEF j
    <3>. QED
      BY <2>1, <3>1, DispatchOK
  <2>3. CASE ~ (gantt.start[j] =< clock)
    <3>1. gantt.start[j] \in Nat
      BY <1>1, <2>1 DEF Tables
    <3>2. /\ rpc' = "wait" /\ rmJob' = j /\ rmWake' = gantt.start[j]
          /\ pool' = pool
          /\ UNCHANGED <<state, rmSup, cpt>>
      BY <1>3, <2>3 DEF NextWakeup
    <3>. HIDE DEF j
    <3>. QED
      BY <2>1, <3>1, <3>2 DEF RmOK, TypeOK, RmPcs
  <2>. QED
    BY <2>2, <2>3
<1>. QED
  BY <1>2, <1>3

(* At first the table is empty and the jobs are as they were sent.         *)
LEMMA TypeInit == Init => TypeInv
<1>. SUFFICES ASSUME Init PROVE TypeInv
  OBVIOUS
<1>1. desc \in [Jobs -> Descriptions]
  BY WorkloadsAssumption DEF Init
<1>2. gantt \in Tables
  <2>1. \A j \in Jobs : desc[j].start \in Nat /\ desc[j].wall \in Nat
    BY <1>1 DEF Descriptions
  <2>2. 1 \in Nodes
    BY NbNodesAssumption DEF Nodes
  <2>. QED
    BY <2>1, <2>2 DEF Init, Tables
<1>3. state \in [Jobs -> JobStates]
  BY <1>1 DEF Init, Descriptions, JobStates
<1>4. loadPos \in 1 .. Len(Load) + 1 /\ loadWake \in Nat
  <2>1. Len(Load) \in Nat
    BY LoadAssumption
  <2>2. Load # <<>> => Load[1] \in Jobs
    BY LoadAssumption, EmptySeq, ElementOfSeq
  <2>3. Load # <<>> => desc[Load[1]].submit \in Nat
    BY <1>1, <2>2 DEF Descriptions
  <2>. QED
    BY <2>1, <2>3 DEF Init
<1>5. queues \in [Queues -> Seq(Jobs)] /\ reserved \in Seq(Jobs) /\ pool \in Seq(Sups)
  BY DEF Init
<1>6. asking \in [req : Reqs, answer : Answers]
  BY DEF Init, Reqs, NoReq, Answers
<1>7. /\ rmSup \in 0 .. NbSups /\ cpt \in 0 .. NbSups
      /\ rmJob \in Jobs \cup {NoJob} /\ rmWake \in Nat /\ clock \in Nat
  BY SupsAssumption DEF Init
<1>8. /\ spc \in [Sups -> SupPcs] /\ sjob \in [Sups -> Jobs \cup {NoJob}]
      /\ swake \in [Sups -> Nat]
  BY DEF Init, SupPcs
<1>9. req \in [Requests -> {"new", "sent", "await"} \cup Answers] /\ lpc \in {"sleep", "send"}
  BY DEF Init
<1>10. bpc \in BatchPcs /\ rpc \in RmPcs /\ stack \subseteq Messages
  BY DEF Init, BatchPcs, RmPcs
<1>11. TypeOK
  BY <1>1, <1>2, <1>3, <1>4, <1>5, <1>6, <1>7, <1>8, <1>9, <1>10 DEF TypeOK
<1>12. desc \in Workloads /\ StackAsked /\ HoldersKnown
  BY DEF Init, StackAsked, HoldersKnown
<1>13. QueuedFit
  <2>1. \A p \in Queues : queues[p] = <<>>
    BY DEF Init
  <2>. QED
    BY <2>1 DEF QueuedFit
<1>. QED
  BY <1>11, <1>12, <1>13 DEF TypeInv

(* The resource manager.                                                   *)
LEMMA RmStepTyped ==
  ASSUME TypeInv, RmStep
  PROVE  TypeInv'
<1>. USE DEF TypeInv
<1>1. ASSUME RmOK', UNCHANGED <<clock, desc, gantt, queues, reserved, batchVars,
                                supVars, loadVars, req>>
      PROVE  TypeInv'
  BY <1>1 DEF RmOK, TypeOK, QueuedFit, StackAsked, HoldersKnown, batchVars, supVars, loadVars
<1>2. CASE RmTimeout
  <2>1. rmJob \in Jobs
    BY <1>2 DEF RmTimeout, TimerDue, TypeOK
  <2>2. RmOK'
    BY <1>2, <2>1, DispatchOK DEF RmTimeout
  <2>. QED
    BY <1>1, <1>2, <2>2 DEF RmTimeout
<1>3. CASE RmDrained
  <2>1. RmOK'
    BY <1>3, NextWakeupOK DEF RmDrained
  <2>. QED
    BY <1>1, <1>3, <2>1 DEF RmDrained
<1>4. CASE RunTaken
  <2>1. rpc' \in RmPcs /\ rpc' # "run"
    BY <1>4 DEF RunTaken, RmPcs
  <2>2. rmJob \in Jobs /\ rmSup \in Sups
    BY <1>4 DEF RunTaken, HoldersKnown
  <2>3. /\ spc' \in [Sups -> SupPcs]
        /\ sjob' \in [Sups -> Jobs \cup {NoJob}]
        /\ \A s \in Sups : spc'[s] # "idle" => sjob'[s] \in Jobs
    BY <1>4, <2>2 DEF RunTaken, TypeOK, HoldersKnown, SupPcs
  <2>. QED
    BY <1>4, <2>1, <2>3 DEF RunTaken, TypeOK, QueuedFit, StackAsked, HoldersKnown,
                            clusterVars, batchVars, loadVars
<1>5. ASSUME NEW s \in Sups, ReceiveAttach(s) PROVE TypeInv'
  <2>1. pool' \in Seq(Sups)
    BY <1>5, AppendProperties DEF ReceiveAttach, TypeOK
  <2>2. spc' \in [Sups -> SupPcs]
    BY <1>5 DEF ReceiveAttach, TypeOK, SupPcs
  <2>3. \A u \in Sups : spc'[u] # "idle" => sjob[u] \in Jobs
    BY <1>5 DEF ReceiveAttach, AttachPending, HoldersKnown, TypeOK
  <2>. QED
    BY <1>5, <2>1, <2>2, <2>3 DEF ReceiveAttach, TypeOK, QueuedFit, StackAsked,
         HoldersKnown, RmPcs, batchVars, loadVars, clusterVars
<1>6. CASE ReceiveUpdate
  BY <1>6 DEF ReceiveUpdate, TypeOK, QueuedFit, StackAsked, HoldersKnown, RmPcs, BatchPcs,
              supVars, loadVars, clusterVars
<1>7. CASE RmNext
  <2>1. RmOK'
    BY <1>7, NextWakeupOK DEF RmNext
  <2>. QED
    BY <1>1, <1>7, <2>1 DEF RmNext
<1>. QED
  BY <1>2, <1>3, <1>4, <1>5, <1>6, <1>7 DEF RmStep

(* get_task and the end of a blocking answer.                              *)
LEMMA BatchStepTyped ==
  ASSUME TypeInv, BatchStep
  PROVE  TypeInv'
<1>. USE DEF TypeInv
<1>1. ASSUME NEW STATE m, m \in Messages, BatchTakes(m),
             m.name \in RequestKinds => m \in Requests
      PROVE  /\ stack' \subseteq Messages /\ bpc' \in BatchPcs /\ StackAsked'
             /\ UNCHANGED <<clock, desc, state, gantt, queues, reserved, asking,
                            rpc, rmJob, rmWake, rmSup, pool, cpt>>
  BY <1>1 DEF BatchTakes, TypeOK, BatchPcs, StackAsked, clusterVars, rmVars
<1>2. ASSUME NEW s \in Sups, ReceiveAck(s) PROVE TypeInv'
  <2>. DEFINE m == Message("SB_ACK", sjob[s])
  <2>1. sjob[s] \in Jobs
    BY <1>2 DEF ReceiveAck, AckPending, HoldersKnown
  <2>2. m \in Messages /\ m.name \notin RequestKinds /\ BatchTakes(m)
    BY <1>2, <2>1 DEF ReceiveAck, Message, Messages, RequestKinds
  <2>. HIDE DEF m
  <2>3. /\ stack' \subseteq Messages /\ bpc' \in BatchPcs /\ StackAsked'
        /\ UNCHANGED <<clock, desc, state, gantt, queues, reserved, asking,
                       rpc, rmJob, rmWake, rmSup, pool, cpt>>
    BY <1>1, <2>2
  <2>4. /\ spc' \in [Sups -> SupPcs]
        /\ sjob' \in [Sups -> Jobs \cup {NoJob}]
        /\ \A u \in Sups : spc'[u] # "idle" => sjob'[u] \in Jobs
    BY <1>2 DEF ReceiveAck, TypeOK, HoldersKnown, SupPcs
  <2>. QED
    BY <1>2, <2>3, <2>4 DEF ReceiveAck, TypeOK, QueuedFit, HoldersKnown, loadVars
<1>3. CASE ReceiveTask
  <2>. DEFINE m == Message("SB_TASK", Load[loadPos])
  <2>1. loadPos \in 1 .. Len(Load) /\ Len(Load) \in Nat
    BY <1>3, LoadAssumption DEF ReceiveTask, TaskPending, TypeOK, HoldersKnown
  <2>2. Load[loadPos] \in Jobs /\ (loadPos # Len(Load) => Load[loadPos + 1] \in Jobs)
    <3>1. loadPos # Len(Load) => loadPos + 1 \in 1 .. Len(Load)
      BY <2>1
    <3>. QED
      BY <2>1, <3>1, LoadAssumption, ElementOfSeq
  <2>3. m \in Messages /\ m.name \notin RequestKinds /\ BatchTakes(m)
    BY <1>3, <2>2 DEF ReceiveTask, Message, Messages, RequestKinds
  <2>4. loadPos' \in 1 .. Len(Load) + 1
    BY <1>3, <2>1 DEF ReceiveTask
  <2>5. loadWake' \in Nat
    <3>1. clock \in Nat /\ desc[Load[loadPos]].submit \in Nat
      BY <2>2 DEF TypeOK, Descriptions
    <3>2. CASE loadPos = Len(Load)
      BY <1>3, <3>1, <3>2 DEF ReceiveTask
    <3>3. CASE loadPos # Len(Load)
      <4>1. desc[Load[loadPos + 1]].submit \in Nat
        BY <2>2, <3>3 DEF TypeOK, Descriptions
      <4>. DEFINE gap == desc[Load[loadPos + 1]].submit - desc[Load[loadPos]].submit
      <4>2. loadWake' = IF gap > 0 THEN clock + gap ELSE clock
        BY <1>3, <3>3 DEF ReceiveTask
      <4>3. gap \in Int
        BY <3>1, <4>1
      <4>. HIDE DEF gap
      <4>. QED
        BY <3>1, <4>2, <4>3
    <3>. QED
      BY <3>2, <3>3
  <2>. HIDE DEF m
  <2>6. /\ stack' \subseteq Messages /\ bpc' \in BatchPcs /\ StackAsked'
        /\ UNCHANGED <<clock, desc, state, gantt, queues, reserved, asking,
                       rpc, rmJob, rmWake, rmSup, pool, cpt>>
    BY <1>1, <2>3
  <2>. QED
    BY <1>3, <2>4, <2>5, <2>6 DEF ReceiveTask, TypeOK, QueuedFit, HoldersKnown, supVars
<1>4. ASSUME NEW r \in Requests, ReceiveRequest(r) PROVE TypeInv'
  <2>. DEFINE m == Message(r.name, r.job)
  <2>1. r \in [name : RequestKinds, job : Jobs]
    BY RequestsAssumption
  <2>2. m = r
    BY <2>1 DEF Message
  <2>3. m \in Messages /\ m \in Requests /\ BatchTakes(m)
    BY <1>4, <2>1, <2>2 DEF ReceiveRequest, Messages
  <2>. HIDE DEF m
  <2>4. /\ stack' \subseteq Messages /\ bpc' \in BatchPcs /\ StackAsked'
        /\ UNCHANGED <<clock, desc, state, gantt, queues, reserved, asking,
                       rpc, rmJob, rmWake, rmSup, pool, cpt>>
    BY <1>1, <2>3
  <2>5. req' \in [Requests -> {"new", "sent", "await"} \cup Answers]
    BY <1>4 DEF ReceiveRequest, TypeOK
  <2>. QED
    BY <1>4, <2>4, <2>5 DEF ReceiveRequest, TypeOK, QueuedFit, HoldersKnown, supVars, loadVars
<1>5. CASE SortStack
  BY <1>5 DEF SortStack, TypeOK, QueuedFit, StackAsked, HoldersKnown, BatchPcs,
              clusterVars, rmVars, supVars, loadVars
<1>6. CASE Reply
  <2>1. asking.answer \in Answers
    BY DEF TypeOK
  <2>2. req' \in [Requests -> {"new", "sent", "await"} \cup Answers]
    BY <1>6, <2>1 DEF Reply, TypeOK
  <2>. QED
    BY <1>6, <2>2 DEF Reply, TypeOK, QueuedFit, StackAsked, HoldersKnown, BatchPcs,
                      clusterVars, rmVars, supVars, loadVars
<1>7. CASE Resume
  BY <1>7 DEF Resume, NextPc, TypeOK, QueuedFit, StackAsked, HoldersKnown, BatchPcs,
              clusterVars, rmVars, supVars, loadVars
<1>. QED
  BY <1>2, <1>3, <1>4, <1>5, <1>6, <1>7 DEF BatchStep

(* What a handler does to the stack.                                       *)
LEMMA HandleTyped ==
  ASSUME TypeInv, NEW STATE name, NEW STATE j, j \in Jobs, Handle(name, j)
  PROVE  /\ stack' \subseteq Messages /\ StackAsked'
         /\ NextPc(stack') \in BatchPcs
         /\ name \in RequestKinds => Message(name, j) \in Requests
         /\ UNCHANGED <<clock, desc, rpc, rmJob, rmWake, rmSup, pool, cpt,
                        spc, sjob, swake, lpc, loadPos, loadWake>>
<1>1. Message(name, j) \in stack /\ Message(name, j).name = name
  BY DEF Handle, Message
<1>. QED
  BY <1>1 DEF Handle, TypeInv, TypeOK, StackAsked, NextPc, BatchPcs, rmVars, supVars, loadVars

(* A handler keeps the types when what it may write keeps them.            *)
LEMMA HandlerFrame ==
  ASSUME TypeInv, NEW STATE name, NEW STATE j, j \in Jobs, Handle(name, j),
         bpc' \in BatchPcs,
         state' \in [Jobs -> JobStates],
         gantt' \in Tables,
         queues' \in [Queues -> Seq(Jobs)],
         reserved' \in Seq(Jobs),
         asking' \in [req : Reqs, answer : Answers],
         req' \in [Requests -> {"new", "sent", "await"} \cup Answers],
         \A p \in Queues : \A i \in 1 .. Len(queues'[p]) :
           desc[queues'[p][i]].procs =< NbNodes
  PROVE  TypeInv'
<1>1. /\ stack' \subseteq Messages /\ StackAsked'
      /\ UNCHANGED <<clock, desc, rpc, rmJob, rmWake, rmSup, pool, cpt,
                     spc, sjob, swake, lpc, loadPos, loadWake>>
  BY HandleTyped
<1>2. QueuedFit'
  BY <1>1 DEF QueuedFit
<1>3. TypeOK'
  BY <1>1 DEF TypeInv, TypeOK
<1>. QED
  BY <1>1, <1>2, <1>3 DEF TypeInv, HoldersKnown

(* schedule_task asks for nodes for jobs that fit in the cluster only.     *)
LEMMA ScheduleTaskTyped ==
  ASSUME TypeInv, NEW j \in Jobs, ScheduleTask(j)
  PROVE  TypeInv'
<1>1. Handle("SB_TASK", j) /\ bpc' \in BatchPcs
  BY HandleTyped DEF ScheduleTask
<1>2. gantt \in Tables /\ queues \in [Queues -> Seq(Jobs)] /\ clock \in Nat
  BY DEF TypeInv, TypeOK
<1>. DEFINE w == QueueOf(j)
<1>3. w \in Queues
  BY QueueOfType DEF TypeInv, TypeOK
<1>4. CASE desc[j].procs =< NbNodes /\ DeadlineOpen(j)
  <2>1. /\ queues' = [queues EXCEPT ![w] = Append(@, j)]
        /\ gantt' = Accept(gantt, j, Schedule(Plugin, gantt, j, desc[j].procs, clock))
    BY <1>4 DEF ScheduleTask
  <2>2. desc[j].procs \in 1 .. NbNodes
    BY <1>4, NbNodesAssumption DEF TypeInv, TypeOK, Descriptions
  <2>3. gantt' \in Tables
    BY <1>2, <2>1, <2>2, ScheduleTyped
  <2>. HIDE DEF w
  <2>4. /\ Append(queues[w], j) \in Seq(Jobs)
        /\ Len(Append(queues[w], j)) = Len(queues[w]) + 1
        /\ \A i \in 1 .. Len(queues[w]) : Append(queues[w], j)[i] = queues[w][i]
        /\ Append(queues[w], j)[Len(queues[w]) + 1] = j
    <3>1. queues[w] \in Seq(Jobs)
      BY <1>2, <1>3
    <3>. QED
      BY <3>1, AppendProperties
  <2>5. queues' \in [Queues -> Seq(Jobs)]
    BY <1>2, <1>3, <2>1, <2>4
  <2>6. ASSUME NEW p \in Queues, NEW i \in 1 .. Len(queues'[p])
        PROVE  desc[queues'[p][i]].procs =< NbNodes
    <3>1. CASE p # w
      BY <1>2, <2>1, <2>6, <3>1 DEF TypeInv, QueuedFit
    <3>2. CASE p = w
      <4>1. queues'[p] = Append(queues[w], j)
        BY <1>2, <1>3, <2>1, <3>2
      <4>2. Len(queues[w]) \in Nat
        BY <1>2, <1>3
      <4>3. CASE i = Len(queues[w]) + 1
        BY <1>4, <2>4, <4>1, <4>3
      <4>4. CASE i # Len(queues[w]) + 1
        <5>1. i \in 1 .. Len(queues[w])
          BY <2>4, <2>6, <4>1, <4>2, <4>4
        <5>2. queues'[p][i] = queues[w][i]
          BY <2>4, <4>1, <5>1
        <5>. QED
          BY <1>3, <5>1, <5>2 DEF TypeInv, QueuedFit
      <4>. QED
        BY <4>3, <4>4
    <3>. QED
      BY <3>1, <3>2
  <2>7. /\ state' \in [Jobs -> JobStates] /\ reserved' \in Seq(Jobs)
        /\ asking' \in [req : Reqs, answer : Answers]
        /\ req' \in [Requests -> {"new", "sent", "await"} \cup Answers]
    BY DEF ScheduleTask, TypeInv, TypeOK
  <2>. QED
    BY <1>1, <2>3, <2>5, <2>6, <2>7, HandlerFrame
<1>5. CASE ~ (desc[j].procs =< NbNodes /\ DeadlineOpen(j))
  <2>1. UNCHANGED <<queues, gantt, state, reserved, asking, req>>
    BY <1>5 DEF ScheduleTask
  <2>2. /\ state' \in [Jobs -> JobStates] /\ reserved' \in Seq(Jobs)
        /\ gantt' \in Tables /\ queues' \in [Queues -> Seq(Jobs)]
        /\ asking' \in [req : Reqs, answer : Answers]
        /\ req' \in [Requests -> {"new", "sent", "await"} \cup Answers]
    BY <2>1 DEF TypeInv, TypeOK
  <2>3. \A p \in Queues : \A i \in 1 .. Len(queues'[p]) :
          desc[queues'[p][i]].procs =< NbNodes
    BY <2>1 DEF TypeInv, QueuedFit
  <2>. QED
    BY <1>1, <2>2, <2>3, HandlerFrame
<1>. QED
  BY <1>4, <1>5

(* A reservation asks for no more nodes than there are.                    *)
LEMMA ReserveSlotTyped ==
  ASSUME TypeInv, NEW j \in Jobs, ReserveSlot(j)
  PROVE  TypeInv'
<1>. DEFINE r == Message("SB_RES", j)
            nb == desc[j].procs
            date == EarliestStart(gantt, nb, gantt.start[j], gantt.wall[j])
            bid == CbfBid(gantt, nb, date, gantt.wall[j])
<1>1. Handle("SB_RES", j) /\ bpc' \in BatchPcs /\ r \in Requests
  BY HandleTyped DEF ReserveSlot, RequestKinds, BatchPcs
<1>2. gantt \in Tables /\ desc \in Workloads /\ desc \in [Jobs -> Descriptions]
  BY DEF TypeInv, TypeOK
<1>3. nb \in 1 .. NbNodes
  <2>1. r.name = "SB_RES" /\ r.job = j
    BY DEF Message
  <2>2. nb =< NbNodes
    BY <1>1, <1>2, <2>1, ReservationAssumption
  <2>3. nb \in Nat \ {0}
    BY <1>2 DEF Descriptions
  <2>. QED
    BY <2>2, <2>3, NbNodesAssumption
<1>4. /\ queues' = queues /\ state' = state /\ asking' = asking
      /\ req' \in [Requests -> {"new", "sent", "await"} \cup Answers]
  BY DEF ReserveSlot, TypeInv, TypeOK, Answers
<1>5. gantt' \in Tables /\ reserved' \in Seq(Jobs)
  <2>1. CASE date = gantt.start[j]
    <3>1. gantt' = Accept(gantt, j, bid) /\ reserved' = Append(reserved, j)
      BY <2>1 DEF ReserveSlot
    <3>2. date \in Nat
      BY <1>2, <2>1 DEF Tables
    <3>3. Append(reserved, j) \in Seq(Jobs)
      BY AppendProperties DEF TypeInv, TypeOK
    <3>. HIDE DEF date, nb
    <3>4. BidFits(gantt, bid)
      BY <1>2, <1>3, <3>2, CbfBidFits
    <3>. HIDE DEF bid
    <3>5. Accept(gantt, j, bid) \in Tables
      BY <1>2, <3>4, AcceptTyped
    <3>. QED
      BY <3>1, <3>3, <3>5
  <2>2. CASE date # gantt.start[j]
    BY <2>2 DEF ReserveSlot, TypeInv, TypeOK
  <2>. QED
    BY <2>1, <2>2
<1>6. /\ state' \in [Jobs -> JobStates] /\ queues' \in [Queues -> Seq(Jobs)]
      /\ asking' \in [req : Reqs, answer : Answers]
  BY <1>4 DEF TypeInv, TypeOK
<1>7. \A p \in Queues : \A i \in 1 .. Len(queues'[p]) :
        desc[queues'[p][i]].procs =< NbNodes
  BY <1>4 DEF TypeInv, QueuedFit
<1>. QED
  BY <1>1, <1>4, <1>5, <1>6, <1>7, HandlerFrame

(* check_ACK and its rescheduling.                                         *)
LEMMA CheckAckTyped ==
  ASSUME TypeInv, NEW j \in Jobs, CheckAck(j)
  PROVE  TypeInv'
<1>1. Handle("SB_ACK", j) /\ bpc' \in BatchPcs
  BY HandleTyped DEF CheckAck
<1>2. state' \in [Jobs -> JobStates]
  BY DEF CheckAck, TypeInv, TypeOK, JobStates
<1>3. /\ queues' \in [Queues -> Seq(Jobs)]
      /\ reserved' \in Seq(Jobs)
      /\ \A p \in Queues : \A i \in 1 .. Len(queues'[p]) :
           desc[queues'[p][i]].procs =< NbNodes
  BY UntraceTyped DEF CheckAck, TypeInv
<1>4. DeleteDone(gantt, j) \in Tables
  BY DeleteDoneTyped DEF TypeInv, TypeOK
<1>5. gantt' \in Tables
  BY <1>3, <1>4, RescheduledTyped DEF CheckAck, TypeInv
<1>6. /\ asking' \in [req : Reqs, answer : Answers]
      /\ req' \in [Requests -> {"new", "sent", "await"} \cup Answers]
  BY DEF CheckAck, TypeInv, TypeOK
<1>. QED
  BY <1>1, <1>2, <1>3, <1>5, <1>6, HandlerFrame

(* cancel_task, refused or not.                                            *)
LEMMA CancelTaskTyped ==
  ASSUME TypeInv, NEW j \in Jobs, CancelTask(j)
  PROVE  TypeInv'
<1>. DEFINE r == Message("SB_CANCEL", j)
<1>1. Handle("SB_CANCEL", j) /\ r \in Requests
  BY HandleTyped DEF CancelTask, RequestKinds
<1>2. bpc' \in BatchPcs /\ state' \in [Jobs -> JobStates]
      /\ req' \in [Requests -> {"new", "sent", "await"} \cup Answers]
  BY DEF CancelTask, TypeInv, TypeOK, BatchPcs
<1>3. asking' \in [req : Reqs, answer : Answers]
  BY <1>1 DEF CancelTask, Reqs, Answers
<1>4. CASE state[j] # "WAITING"
  <2>1. UNCHANGED <<gantt, queues, reserved>>
    BY <1>4 DEF CancelTask
  <2>2. /\ gantt' \in Tables /\ queues' \in [Queues -> Seq(Jobs)] /\ reserved' \in Seq(Jobs)
        /\ \A p \in Queues : \A i \in 1 .. Len(queues'[p]) :
             desc[queues'[p][i]].procs =< NbNodes
    BY <2>1 DEF TypeInv, TypeOK, QueuedFit
  <2>. QED
    BY <1>1, <1>2, <1>3, <2>2, HandlerFrame
<1>5. CASE state[j] = "WAITING"
  <2>1. Untrace(j) /\ gantt' = Rescheduled(DeleteDone(gantt, j), queues', state)
    BY <1>5 DEF CancelTask
  <2>2. /\ queues' \in [Queues -> Seq(Jobs)]
        /\ reserved' \in Seq(Jobs)
        /\ \A p \in Queues : \A i \in 1 .. Len(queues'[p]) :
             desc[queues'[p][i]].procs =< NbNodes
    BY <2>1, UntraceTyped DEF TypeInv
  <2>3. DeleteDone(gantt, j) \in Tables
    BY DeleteDoneTyped DEF TypeInv, TypeOK
  <2>4. gantt' \in Tables
    BY <2>1, <2>2, <2>3, RescheduledTyped DEF TypeInv
  <2>. QED
    BY <1>1, <1>2, <1>3, <2>2, <2>4, HandlerFrame
<1>. QED
  BY <1>4, <1>5

(* The supervisors sleep until a date.                                     *)
LEMMA SuperviseTyped ==
  ASSUME TypeInv, NEW s \in Sups, Supervise(s)
  PROVE  TypeInv'
<1>. DEFINE j == sjob[s]
<1>1. /\ UNCHANGED <<clock, desc, gantt, queues, reserved, bpc, stack, asking, rpc, rmJob,
                     rmWake, rmSup, pool, cpt, sjob, lpc, loadPos, loadWake, req>>
  BY DEF Supervise, SupStart, NodeReceive, InputReceived, SupFinish, OutputReturned,
         TellBatch, SupFrame, batchVars, rmVars, loadVars
<1>2. j \in Jobs
  BY DEF Supervise, SupStart, NodeReceive, InputReceived, SupFinish, OutputReturned,
         TellBatch, TypeInv, HoldersKnown
<1>3. /\ clock \in Nat /\ desc[j].run \in Nat /\ desc[j].input \in Nat
      /\ desc[j].output \in Nat /\ desc[j].deadline \in Nat \cup {NoDeadline}
      /\ gantt.wall[j] \in Nat
  BY <1>2 DEF TypeInv, TypeOK, Descriptions, Tables
<1>4. /\ state \in [Jobs -> JobStates] /\ spc \in [Sups -> SupPcs] /\ swake \in [Sups -> Nat]
  BY DEF TypeInv, TypeOK
<1>5. ASSUME Execute(s)
      PROVE  /\ state' \in [Jobs -> JobStates]
             /\ \E pc \in SupPcs : spc' = [spc EXCEPT ![s] = pc]
             /\ swake' \in [Sups -> Nat]
  <2>. DEFINE sleep == IF gantt.wall[j] < desc[j].run THEN gantt.wall[j] ELSE desc[j].run
              late  == /\ desc[j].deadline # NoDeadline
                       /\ desc[j].deadline < clock + sleep
              end   == IF late THEN desc[j].deadline ELSE clock + sleep
  <2>1. sleep \in Nat
    BY <1>3
  <2>2. end \in Nat
    <3>. HIDE DEF sleep
    <3>. QED
      BY <1>3, <2>1
  <2>3. state' \in [Jobs -> JobStates]
    BY <1>4, <1>5 DEF Execute, JobStates
  <2>4. \/ spc' = [spc EXCEPT ![s] = "run"] /\ swake' = [swake EXCEPT ![s] = end]
        \/ spc' = [spc EXCEPT ![s] = "attach"] /\ swake' = swake
    BY <1>5 DEF Execute
  <2>. HIDE DEF end
  <2>. QED
    BY <1>4, <2>2, <2>3, <2>4 DEF SupPcs
<1>6. /\ state' \in [Jobs -> JobStates]
      /\ \E pc \in SupPcs : spc' = [spc EXCEPT ![s] = pc]
      /\ swake' \in [Sups -> Nat]
  <2>1. CASE SupStart(s)
    BY <1>4, <1>5, <2>1 DEF SupStart, SupPcs
  <2>2. CASE NodeReceive(s)
    BY <1>3, <1>4, <2>2 DEF NodeReceive, SupPcs
  <2>3. CASE InputReceived(s)
    BY <1>5, <2>3 DEF InputReceived
  <2>4. CASE SupFinish(s)
    BY <1>4, <2>4 DEF SupFinish, SupPcs
  <2>5. CASE OutputReturned(s)
    BY <1>4, <2>5 DEF OutputReturned, SupPcs
  <2>6. CASE TellBatch(s)
    BY <1>4, <2>6 DEF TellBatch, SupPcs
  <2>. QED
    BY <2>1, <2>2, <2>3, <2>4, <2>5, <2>6 DEF Supervise
<1>7. /\ spc' \in [Sups -> SupPcs]
      /\ \A u \in Sups : spc'[u] # "idle" => sjob[u] \in Jobs
  BY <1>2, <1>4, <1>6 DEF TypeInv, HoldersKnown
<1>. QED
  BY <1>1, <1>6, <1>7 DEF TypeInv, TypeOK, QueuedFit, StackAsked, HoldersKnown

(* Every step keeps the types.                                             *)
LEMMA TypeStep == TypeInv /\ [Next]_vars => TypeInv'
<1>. SUFFICES ASSUME TypeInv, [Next]_vars PROVE TypeInv'
  OBVIOUS
<1>1. CASE \E j \in Jobs : HandleMessage(j)
  BY <1>1, ScheduleTaskTyped, ReserveSlotTyped, CheckAckTyped, CancelTaskTyped DEF HandleMessage
<1>2. CASE Tick
  BY <1>2 DEF Tick, TypeInv, TypeOK, QueuedFit, StackAsked, HoldersKnown,
              clusterVars, batchVars, rmVars, supVars, loadVars
<1>3. CASE EndOfTime
  BY <1>3 DEF EndOfTime, TypeInv, TypeOK, QueuedFit, StackAsked, HoldersKnown, BatchPcs, RmPcs,
              clusterVars, supVars, loadVars
<1>4. ASSUME NEW r \in Requests, ClientSend(r) PROVE TypeInv'
  <2>1. req' \in [Requests -> {"new", "sent", "await"} \cup Answers]
    BY <1>4 DEF ClientSend, TypeInv, TypeOK
  <2>. QED
    BY <1>4, <2>1 DEF ClientSend, TypeInv, TypeOK, QueuedFit, StackAsked, HoldersKnown,
                      clusterVars, batchVars, rmVars, supVars, loadVars
<1>5. CASE UNCHANGED vars
  BY <1>5 DEF vars, TypeInv, TypeOK, QueuedFit, StackAsked, HoldersKnown,
              clusterVars, batchVars, rmVars, supVars, loadVars
<1>6. CASE LoadSend
  BY <1>6 DEF LoadSend, LoadDue, TypeInv, TypeOK, QueuedFit, StackAsked, HoldersKnown,
              clusterVars, batchVars, rmVars, supVars
<1>. QED
  BY <1>1, <1>2, <1>3, <1>4, <1>5, <1>6, BatchStepTyped, RmStepTyped, SuperviseTyped
     DEF Next, System, Terminated

(***************************************************************************)
(* Every variable of a cluster keeps its type, whatever the workload, the  *)
(* load and the requests are.  In particular the scheduler always finds    *)
(* the slots it is asked for, also while it reschedules (scheduling.c:35,  *)
(* 161), and the resource manager is given a job of the table (336).       *)
(***************************************************************************)
THEOREM TypeCorrect == Spec => []TypeOK
<1>1. TypeInv => TypeOK
  BY DEF TypeInv
<1>. QED
  BY TypeInit, TypeStep, <1>1, PTL DEF Spec

-----------------------------------------------------------------------------
(* The jobs of the file that the batch has not handled yet.                *)
Coming == {Load[i] : i \in loadPos .. Len(Load)}
            \cup {m.job : m \in {o \in stack : o.name = "SB_TASK"}}

(* They are neither planned nor traced, and those that are traced are once.*)
Fresh == \A j \in Coming : Absent(gantt, j) /\ Untraced(queues, j)

(* A job in the stack is before the next one of the file.                  *)
StackLoaded ==
  \A m \in stack : m.name = "SB_TASK" =>
    \E i \in 1 .. Len(Load) : i < loadPos /\ Load[i] = m.job

TableInv ==
  /\ TypeInv
  /\ AllOrdered(gantt)
  /\ Once(queues)
  /\ StackLoaded
  /\ Fresh

-----------------------------------------------------------------------------
(* The queues.                                                             *)

(* There are as many priority queues as configured.                        *)
LEMMA QueuesLen ==
  ASSUME NEW qs \in [Queues -> Seq(Jobs)]
  PROVE  /\ qs \in Seq(Seq(Jobs)) /\ Len(qs) = NbQueues /\ 1 .. Len(qs) = Queues
         /\ \A p \in Queues : qs[p] \in Seq(Jobs) /\ Len(qs[p]) \in Nat
<1>1. qs \in Seq(Seq(Jobs)) /\ Len(qs) = NbQueues
  BY QueuesAssumption DEF Queues
<1>2. \A p \in Queues : qs[p] \in Seq(Jobs)
  OBVIOUS
<1>. QED
  BY <1>1, <1>2 DEF Queues

(* A job that was not traced is traced once.                               *)
LEMMA AppendOnce ==
  ASSUME NEW qs \in [Queues -> Seq(Jobs)], Once(qs), NEW w \in Queues, NEW j \in Jobs,
         Untraced(qs, j)
  PROVE  LET r == [qs EXCEPT ![w] = Append(@, j)]
         IN  /\ Once(r)
             /\ \A x : x # j /\ Untraced(qs, x) => Untraced(r, x)
<1>. DEFINE r == [qs EXCEPT ![w] = Append(@, j)]
            n == Len(qs[w])
<1>1. r \in [Queues -> Seq(Jobs)]
  <2>1. Append(qs[w], j) \in Seq(Jobs)
    BY QueuesLen, AppendProperties
  <2>. QED
    BY <2>1
<1>2. /\ \A p \in Queues : p # w => r[p] = qs[p]
      /\ n \in Nat /\ Len(r[w]) = n + 1 /\ r[w][n + 1] = j
      /\ \A i \in 1 .. n : r[w][i] = qs[w][i]
  <2>1. r[w] = Append(qs[w], j) /\ qs[w] \in Seq(Jobs)
    OBVIOUS
  <2>2. \A p \in Queues : p # w => r[p] = qs[p]
    OBVIOUS
  <2>. HIDE DEF r
  <2>. QED
    BY <2>1, <2>2, AppendProperties
<1>3. 1 .. Len(qs) = Queues /\ 1 .. Len(r) = Queues
  <2>. HIDE DEF r
  <2>. QED
    BY <1>1, QueuesLen
<1>. HIDE DEF r, n
(* An element is the new one, or one of before at the same place.          *)
<1>4. ASSUME NEW p \in Queues, NEW i \in 1 .. Len(r[p])
      PROVE  \/ p = w /\ i = n + 1 /\ r[p][i] = j
             \/ i \in 1 .. Len(qs[p]) /\ r[p][i] = qs[p][i]
  <2>1. CASE p # w
    BY <1>2, <2>1
  <2>2. CASE p = w /\ i = n + 1
    BY <1>2, <2>2
  <2>3. CASE p = w /\ i # n + 1
    <3>1. i \in 1 .. n
      BY <1>2, <2>3
    <3>. QED
      BY <1>2, <2>3, <3>1 DEF n
  <2>. QED
    BY <2>1, <2>2, <2>3
<1>5. ASSUME NEW p \in Queues, NEW i \in 1 .. Len(qs[p]) PROVE qs[p][i] # j
  BY <1>3 DEF Untraced, NotIn
<1>6.  \A p1, p2 \in Queues : \A a \in 1 .. Len(qs[p1]), b \in 1 .. Len(qs[p2]) :
        qs[p1][a] = qs[p2][b] => p1 = p2 /\ a = b
  BY <1>3 DEF Once
<1>7. ASSUME NEW p \in Queues, NEW q \in Queues,
             NEW i \in 1 .. Len(r[p]), NEW k \in 1 .. Len(r[q]), r[p][i] = r[q][k]
      PROVE  p = q /\ i = k
  <2>1. CASE p = w /\ i = n + 1 /\ r[p][i] = j
    BY <1>4, <1>5, <1>7, <2>1
  <2>2. CASE i \in 1 .. Len(qs[p]) /\ r[p][i] = qs[p][i]
    <3>1. k \in 1 .. Len(qs[q]) /\ r[q][k] = qs[q][k]
      BY <1>4, <1>5, <1>7, <2>2
    <3>2. qs[p][i] = qs[q][k]
      BY <1>7, <2>2, <3>1
    <3>. QED
      BY <1>6, <2>2, <3>1, <3>2
  <2>. QED
    BY <1>4, <2>1, <2>2
<1>8. Once(r)
  BY <1>3, <1>7 DEF Once
<1>9. ASSUME NEW x, x # j, Untraced(qs, x) PROVE Untraced(r, x)
  <2>1. ASSUME NEW p \in Queues, NEW i \in 1 .. Len(r[p]) PROVE r[p][i] # x
    BY <1>3, <1>4, <1>9 DEF Untraced, NotIn
  <2>. QED
    BY <1>3, <2>1 DEF Untraced, NotIn
<1>. QED
  BY <1>8, <1>9 DEF r

(* Removing a trace adds none.                                             *)
LEMMA RemoveOnce ==
  ASSUME NEW qs \in [Queues -> Seq(Jobs)], Once(qs), NEW w \in Queues, NEW j,
         Holds(qs[w], j)
  PROVE  LET r == [qs EXCEPT ![w] = Removed(@, j)]
         IN  /\ Once(r)
             /\ \A x : Untraced(qs, x) => Untraced(r, x)
<1>. DEFINE q == qs[w]
            r == [qs EXCEPT ![w] = Removed(@, j)]
<1>1. q \in Seq(Jobs) /\ Len(q) \in Nat
  BY QueuesLen
<1>2. PICK k : Without(Removed(q, j), q, k, j)
  <2>1. Holds(q, j)
    OBVIOUS
  <2>. HIDE DEF q
  <2>. QED
    BY <1>1, <2>1, RemovedProperties
<1>3. r \in [Queues -> Seq(Jobs)] /\ r[w] = Removed(q, j)
      /\ \A p \in Queues : p # w => r[p] = qs[p]
  BY <1>2 DEF Without
<1>. HIDE DEF r
<1>4. 1 .. Len(qs) = Queues /\ 1 .. Len(r) = Queues
  BY <1>3, QueuesLen
<1>. DEFINE from(p, i) == IF p = w /\ ~ (i < k) THEN i + 1 ELSE i
<1>5. ASSUME NEW p \in Queues, NEW i \in 1 .. Len(r[p])
      PROVE  from(p, i) \in 1 .. Len(qs[p]) /\ r[p][i] = qs[p][from(p, i)]
  <2>1. CASE p # w
    BY <1>3, <2>1
  <2>2. CASE p = w
    <3>1. r[p] = Removed(q, j) /\ qs[p] = q
      BY <1>3, <2>2
    <3>. HIDE DEF q
    <3>2. /\ Len(Removed(q, j)) = Len(q) - 1 /\ k \in 1 .. Len(q)
          /\ \A h \in 1 .. Len(q) - 1 : Removed(q, j)[h] = IF h < k THEN q[h] ELSE q[h + 1]
      BY <1>2 DEF Without
    <3>3. i \in 1 .. Len(q) - 1
      BY <3>1, <3>2
    <3>4. i \in 1 .. Len(q) /\ i + 1 \in 1 .. Len(q)
      BY <1>1, <3>3
    <3>. QED
      BY <2>2, <3>1, <3>2, <3>3, <3>4
  <2>. QED
    BY <2>1, <2>2
<1>6. ASSUME NEW p \in Queues, NEW i \in 1 .. Len(r[p]), NEW h \in 1 .. Len(r[p]),
             from(p, i) = from(p, h)
      PROVE  i = h
  <2>1. k \in Nat /\ i \in Int /\ h \in Int
    BY <1>1, <1>2 DEF Without
  <2>. QED
    BY <1>6, <2>1
<1>. HIDE DEF from, q
<1>7.  \A p1, p2 \in Queues : \A a \in 1 .. Len(qs[p1]), b \in 1 .. Len(qs[p2]) :
         qs[p1][a] = qs[p2][b] => p1 = p2 /\ a = b
  BY <1>4 DEF Once
<1>8. ASSUME NEW p \in Queues, NEW t \in Queues,
             NEW i \in 1 .. Len(r[p]), NEW h \in 1 .. Len(r[t]), r[p][i] = r[t][h]
      PROVE  p = t /\ i = h
  <2>. DEFINE a == from(p, i)
              b == from(t, h)
  <2>1. a \in 1 .. Len(qs[p]) /\ b \in 1 .. Len(qs[t]) /\ qs[p][a] = qs[t][b]
    BY <1>5, <1>8
  <2>. HIDE DEF a, b
  <2>2. p = t /\ a = b
    BY <1>7, <2>1
  <2>3. p = t /\ from(p, i) = from(t, h)
    BY <2>2 DEF a, b
  <2>. QED
    BY <1>6, <2>3
<1>9. Once(r)
  BY <1>4, <1>8 DEF Once
<1>10. ASSUME NEW x, Untraced(qs, x) PROVE Untraced(r, x)
  <2>1. ASSUME NEW p \in Queues, NEW i \in 1 .. Len(r[p]) PROVE r[p][i] # x
    BY <1>4, <1>5, <1>10 DEF Untraced, NotIn
  <2>. QED
    BY <1>4, <2>1 DEF Untraced, NotIn
<1>. QED
  BY <1>9, <1>10 DEF r

-----------------------------------------------------------------------------
(* The steps.                                                              *)

(* What a step that leaves the table and the queues alone must show.       *)
LEMMA QuietTable ==
  ASSUME TableInv, TypeInv', UNCHANGED <<gantt, queues>>,
         Coming' \subseteq Coming, StackLoaded'
  PROVE  TableInv'
BY DEF TableInv, Fresh, AllOrdered, Absent

(* What one that writes them must show.                                    *)
LEMMA WrittenTable ==
  ASSUME TypeInv', StackLoaded', AllOrdered(gantt'), Once(queues'),
         \A x \in Coming' : Absent(gantt', x) /\ Untraced(queues', x)
  PROVE  TableInv'
<1>1. AllOrdered(gantt)'
  BY DEF AllOrdered, Ordered, End
<1>2. Once(queues)'
  BY DEF Once
<1>3. Fresh'
  <2>1. \A x : Absent(gantt', x) => Absent(gantt, x)'
    BY DEF Absent, NotIn
  <2>2. \A x : Untraced(queues', x) => Untraced(queues, x)'
    BY DEF Untraced, NotIn
  <2>. QED
    BY <2>1, <2>2 DEF Fresh
<1>. QED
  BY <1>1, <1>2, <1>3 DEF TableInv

(* The jobs to come are those of before without the one that was handled.  *)
LEMMA HandledComing ==
  ASSUME TableInv, NEW STATE name, NEW STATE j, j \in Jobs, Handle(name, j)
  PROVE  /\ Coming' \subseteq Coming
         /\ StackLoaded'
         /\ name = "SB_TASK" => j \in Coming /\ j \notin Coming'
<1>. DEFINE m == Message(name, j)
<1>1. m \in stack /\ m.name = name /\ m.job = j
  BY DEF Handle, Message
<1>2. stack' = stack \ {m} /\ UNCHANGED loadPos
  BY DEF Handle, loadVars
<1>3. \A o \in stack : o = Message(o.name, o.job)
  BY DEF TableInv, TypeInv, TypeOK, Messages, Message
<1>4. \A o \in stack' : o.name = name => o.job # j
  BY <1>2, <1>3
<1>. HIDE DEF m
<1>5. Coming' \subseteq Coming
  BY <1>2 DEF Coming
<1>6. StackLoaded'
  BY <1>2 DEF TableInv, StackLoaded
<1>7. ASSUME name = "SB_TASK" PROVE j \in Coming /\ j \notin Coming'
  <2>1. j \in Coming
    BY <1>1, <1>7 DEF Coming
  <2>2. PICK k \in 1 .. Len(Load) : k < loadPos /\ Load[k] = j
    BY <1>1, <1>7 DEF TableInv, StackLoaded
  <2>3. ASSUME NEW i \in loadPos .. Len(Load) PROVE Load[i] # j
    <3>1. loadPos \in Nat /\ loadPos >= 1 /\ Len(Load) \in Nat
      BY LoadAssumption DEF TableInv, TypeInv, TypeOK
    <3>2. i \in 1 .. Len(Load) /\ i # k
      BY <2>2, <3>1
    <3>. QED
      BY <2>2, <3>2, LoadOnceAssumption
  <2>4. j \notin Coming'
    BY <1>2, <1>4, <1>7, <2>3 DEF Coming
  <2>. QED
    BY <2>1, <2>4
<1>. QED
  BY <1>5, <1>6, <1>7

(* schedule_task takes a slot and a trace for a job that had none.         *)
LEMMA ScheduleTaskTable ==
  ASSUME TableInv, NEW j \in Jobs, ScheduleTask(j)
  PROVE  TableInv'
<1>1. TypeInv'
  BY ScheduleTaskTyped DEF TableInv
<1>2. Handle("SB_TASK", j)
  BY DEF ScheduleTask
<1>3. Coming' \subseteq Coming /\ StackLoaded' /\ j \in Coming /\ j \notin Coming'
  BY <1>2, HandledComing
<1>4. CASE ~ (desc[j].procs =< NbNodes /\ DeadlineOpen(j))
  BY <1>1, <1>3, <1>4, QuietTable DEF ScheduleTask
<1>5. CASE desc[j].procs =< NbNodes /\ DeadlineOpen(j)
  <2>. DEFINE w == QueueOf(j)
              nb == desc[j].procs
  <2>1. /\ queues' = [queues EXCEPT ![w] = Append(@, j)]
        /\ gantt' = Accept(gantt, j, Schedule(Plugin, gantt, j, nb, clock))
    BY <1>5 DEF ScheduleTask
  <2>2. w \in Queues
    BY QueueOfType DEF TableInv, TypeInv, TypeOK
  <2>3. nb \in 1 .. NbNodes
    BY <1>5, NbNodesAssumption DEF TableInv, TypeInv, TypeOK, Descriptions
  <2>4. /\ gantt \in Tables /\ queues \in [Queues -> Seq(Jobs)] /\ clock \in Nat
        /\ AllOrdered(gantt) /\ Once(queues)
    BY DEF TableInv, TypeInv, TypeOK
  <2>5. Absent(gantt, j) /\ Untraced(queues, j)
    BY <1>3 DEF TableInv, Fresh
  <2>. HIDE DEF w, nb
  <2>6. AllOrdered(gantt') /\ \A x : x # j /\ Absent(gantt, x) => Absent(gantt', x)
    BY <2>1, <2>3, <2>4, <2>5, ScheduleOrdered
  <2>7. Once(queues') /\ \A x : x # j /\ Untraced(queues, x) => Untraced(queues', x)
    BY <2>1, <2>2, <2>4, <2>5, AppendOnce
  <2>8. \A x \in Coming' : Absent(gantt', x) /\ Untraced(queues', x)
    BY <1>3, <2>6, <2>7 DEF TableInv, Fresh
  <2>. QED
    BY <1>1, <1>3, <2>6, <2>7, <2>8, WrittenTable
<1>. QED
  BY <1>4, <1>5

(* reserve_slot: the slot is at the date the job asked for.                *)
LEMMA ReserveSlotTable ==
  ASSUME TableInv, NEW j \in Jobs, ReserveSlot(j)
  PROVE  TableInv'
<1>. DEFINE r == Message("SB_RES", j)
            nb == desc[j].procs
            date == EarliestStart(gantt, nb, gantt.start[j], gantt.wall[j])
            bid == CbfBid(gantt, nb, date, gantt.wall[j])
<1>1. TypeInv'
  BY ReserveSlotTyped DEF TableInv
<1>2. Handle("SB_RES", j) /\ queues' = queues
  BY DEF ReserveSlot
<1>3. Coming' \subseteq Coming /\ StackLoaded'
  BY <1>2, HandledComing
<1>4. CASE date # gantt.start[j]
  <2>1. UNCHANGED gantt
    BY <1>4 DEF ReserveSlot
  <2>. QED
    BY <1>1, <1>2, <1>3, <2>1, QuietTable
<1>5. CASE date = gantt.start[j]
  <2>1. gantt' = Accept(gantt, j, bid)
    BY <1>5 DEF ReserveSlot
  <2>2. r \in Requests /\ r.name = "SB_RES" /\ r.job = j
    BY <1>2, HandleTyped DEF TableInv, RequestKinds, Message
  <2>3. /\ gantt \in Tables /\ desc \in Workloads /\ desc \in [Jobs -> Descriptions]
        /\ AllOrdered(gantt)
    BY DEF TableInv, TypeInv, TypeOK
  <2>4. nb \in 1 .. NbNodes
    <3>1. nb =< NbNodes
      BY <2>2, <2>3, ReservationAssumption
    <3>2. nb \in Nat \ {0}
      BY <2>3 DEF Descriptions
    <3>. QED
      BY <3>1, <3>2, NbNodesAssumption
  <2>5. /\ date \in Nat /\ date = gantt.start[j]
        /\ date = EarliestStart(gantt, nb, gantt.start[j], gantt.wall[j])
    BY <1>5, <2>3 DEF Tables
  <2>. HIDE DEF date, nb
  <2>6. BidFits(gantt, bid) /\ BidClear(gantt, j, bid) /\ bid.start = date
    <3>1. BidFits(gantt, bid)
      BY <2>3, <2>4, <2>5, CbfBidFits
    <3>2. BidClear(gantt, j, bid)
      BY <2>3, <2>4, <2>5, CbfBidClear
    <3>3. bid.start = date
      <4>1. bid.start = EarliestStart(gantt, nb, date, gantt.wall[j])
        BY DEF CbfBid
      <4>. QED
        BY <2>5, <4>1
    <3>. QED
      BY <3>1, <3>2, <3>3
  <2>. HIDE DEF bid
  <2>7. AllOrdered(gantt')
    BY <2>1, <2>3, <2>5, <2>6, AcceptOrdered
  <2>8. \A x : x # j /\ Absent(gantt, x) => Absent(gantt', x)
    BY <2>1, <2>3, <2>6, AcceptAbsent
  <2>9. j \notin Coming
    <3>1. \A i \in 1 .. Len(Load) : Load[i] # j
      BY <2>2, LoadOnceAssumption
    <3>2. loadPos \in Nat /\ loadPos >= 1 /\ Len(Load) \in Nat
      BY LoadAssumption DEF TableInv, TypeInv, TypeOK
    <3>3. \A i \in loadPos .. Len(Load) : Load[i] # j
      BY <3>1, <3>2
    <3>4. \A m \in stack : m.name = "SB_TASK" => m.job # j
      BY <3>1 DEF TableInv, StackLoaded
    <3>. QED
      BY <3>3, <3>4 DEF Coming
  <2>10. Once(queues') /\ \A x \in Coming' : Absent(gantt', x) /\ Untraced(queues', x)
    BY <1>2, <1>3, <2>8, <2>9 DEF TableInv, Fresh
  <2>. QED
    BY <1>1, <1>3, <2>7, <2>10, WrittenTable
<1>. QED
  BY <1>4, <1>5

(* The trace of a job that ended or is cancelled is removed.               *)
LEMMA UntraceOnce ==
  ASSUME TableInv, NEW j \in Jobs, Untrace(j)
  PROVE  Once(queues') /\ \A x : Untraced(queues, x) => Untraced(queues', x)
<1>. DEFINE w == QueueOf(j)
<1>1. queues \in [Queues -> Seq(Jobs)] /\ Once(queues) /\ w \in Queues
  BY QueueOfType DEF TableInv, TypeInv, TypeOK
<1>2. \/ queues' = queues
      \/ Holds(queues[w], j) /\ queues' = [queues EXCEPT ![w] = Removed(@, j)]
  BY DEF Untrace
<1>. DEFINE r == [queues EXCEPT ![w] = Removed(@, j)]
<1>3. Holds(queues[w], j) => Once(r) /\ \A x : Untraced(queues, x) => Untraced(r, x)
  <2>. HIDE DEF w
  <2>. QED
    BY <1>1, RemoveOnce
<1>. HIDE DEF w, r
<1>4. queues' = queues \/ (Holds(queues[w], j) /\ queues' = r)
  BY <1>2 DEF r
<1>. QED
  BY <1>1, <1>3, <1>4

(* Its slots leave the table, and the waiting jobs are planned again.      *)
LEMMA RescheduledTable ==
  ASSUME TableInv, TypeInv', NEW j \in Jobs, Untrace(j), NEW ACTION st,
         gantt' = Rescheduled(DeleteDone(gantt, j), queues', st),
         Coming' \subseteq Coming, StackLoaded'
  PROVE  TableInv'
<1>. DEFINE waiting == {i \in Jobs : st[i] = "WAITING"}
            movable == {i \in waiting : DeadlineOpen(i)}
            g == DeleteDone(gantt, j)
            qs == queues'
<1>1. gantt \in Tables /\ AllOrdered(gantt) /\ clock \in Nat /\ qs \in [Queues -> Seq(Jobs)]
  BY DEF TableInv, TypeInv, TypeOK
<1>2. g \in Tables /\ AllOrdered(g) /\ \A x : Absent(gantt, x) => Absent(g, x)
  BY <1>1, DeleteDoneOrdered, DeleteDoneTyped
<1>3. Once(qs) /\ \A x : Untraced(queues, x) => Untraced(qs, x)
  BY UntraceOnce
<1>4. qs \in Seq(Seq(Jobs)) /\ Len(qs) = NbQueues /\ 1 .. Len(qs) = Queues
  BY <1>1, QueuesLen
<1>5. MovableFit(qs, movable, Procs)
  <2>1. ASSUME NEW p \in 1 .. Len(qs), NEW i \in 1 .. Len(qs[p])
        PROVE  Procs[qs[p][i]] \in 1 .. NbNodes
    <3>1. p \in Queues /\ qs[p][i] \in Jobs
      BY <1>1, <1>4, ElementOfSeq
    <3>2. desc[qs[p][i]].procs \in Nat \ {0}
      BY <3>1 DEF TableInv, TypeInv, TypeOK, Descriptions
    <3>3. desc[qs[p][i]].procs =< NbNodes
      BY <3>1, UntraceTyped DEF TableInv, TypeInv
    <3>. QED
      BY <3>1, <3>2, <3>3, NbNodesAssumption DEF Procs
  <2>. HIDE DEF movable, qs
  <2>. QED
    BY <2>1 DEF MovableFit
<1>6. gantt' = Reschedule(Plugin, g, qs, waiting, movable, Procs, clock)
  BY DEF Rescheduled
<1>7. movable \subseteq waiting
  OBVIOUS
<1>. HIDE DEF waiting, movable, g, qs
<1>8. AllOrdered(gantt') /\ \A x : Absent(g, x) /\ Untraced(qs, x) => Absent(gantt', x)
  BY <1>1, <1>2, <1>3, <1>4, <1>5, <1>6, <1>7, RescheduleOrdered
<1>9. \A x \in Coming' : Absent(gantt', x) /\ Untraced(queues', x)
  BY <1>2, <1>3, <1>8 DEF TableInv, Fresh, qs
<1>. QED
  BY <1>3, <1>8, <1>9, WrittenTable DEF qs

(* check_ACK takes the slot of the job that is over, and reschedules.      *)
LEMMA CheckAckTable ==
  ASSUME TableInv, NEW j \in Jobs, CheckAck(j)
  PROVE  TableInv'
<1>1. TypeInv'
  BY CheckAckTyped DEF TableInv
<1>2. Handle("SB_ACK", j)
  BY DEF CheckAck
<1>3. Coming' \subseteq Coming /\ StackLoaded'
  BY <1>2, HandledComing
<1>4. Untrace(j) /\ gantt' = Rescheduled(DeleteDone(gantt, j), queues', state')
  BY DEF CheckAck
<1>. QED
  BY <1>1, <1>3, <1>4, RescheduledTable

(* So does cancel_task.                                                    *)
LEMMA CancelTaskTable ==
  ASSUME TableInv, NEW j \in Jobs, CancelTask(j)
  PROVE  TableInv'
<1>1. TypeInv'
  BY CancelTaskTyped DEF TableInv
<1>2. Handle("SB_CANCEL", j)
  BY DEF CancelTask
<1>3. Coming' \subseteq Coming /\ StackLoaded'
  BY <1>2, HandledComing
<1>4. CASE state[j] # "WAITING"
  BY <1>1, <1>3, <1>4, QuietTable DEF CancelTask
<1>5. CASE state[j] = "WAITING"
  <2>1. Untrace(j) /\ gantt' = Rescheduled(DeleteDone(gantt, j), queues', state)
    BY <1>5 DEF CancelTask
  <2>. QED
    BY <1>1, <1>3, <2>1, RescheduledTable
<1>. QED
  BY <1>4, <1>5

(* get_task moves the next job of the file to the stack.                   *)
LEMMA BatchStepComing ==
  ASSUME TableInv, BatchStep
  PROVE  Coming' \subseteq Coming /\ StackLoaded'
<1>1. ASSUME NEW name \in RequestKinds \cup {"SB_ACK"}, NEW STATE j,
             stack' = stack \cup {Message(name, j)}, UNCHANGED loadPos
      PROVE  Coming' \subseteq Coming /\ StackLoaded'
  BY <1>1 DEF Coming, StackLoaded, TableInv, Message, RequestKinds
<1>2. CASE ReceiveTask
  <2>1. /\ loadPos \in 1 .. Len(Load) /\ Len(Load) \in Nat /\ loadPos' = loadPos + 1
        /\ stack' = stack \cup {Message("SB_TASK", Load[loadPos])}
    BY <1>2, LoadAssumption
       DEF ReceiveTask, TaskPending, BatchTakes, TableInv, TypeInv, TypeOK, HoldersKnown
  <2>2. /\ loadPos \in loadPos .. Len(Load)
        /\ \A i \in loadPos + 1 .. Len(Load) : i \in loadPos .. Len(Load)
    BY <2>1
  <2>3. Coming' \subseteq Coming
    BY <2>1, <2>2 DEF Coming, Message
  <2>4. \A i \in 1 .. Len(Load) : i < loadPos => i < loadPos + 1
    BY <2>1
  <2>5. StackLoaded'
    BY <2>1, <2>4 DEF StackLoaded, TableInv, Message
  <2>. QED
    BY <2>3, <2>5
<1>3. ASSUME NEW s \in Sups, ReceiveAck(s) PROVE Coming' \subseteq Coming /\ StackLoaded'
  <2>1. stack' = stack \cup {Message("SB_ACK", sjob[s])} /\ UNCHANGED loadPos
    BY <1>3 DEF ReceiveAck, BatchTakes, loadVars
  <2>. QED
    BY <1>1, <2>1
<1>4. ASSUME NEW r \in Requests, ReceiveRequest(r)
      PROVE  Coming' \subseteq Coming /\ StackLoaded'
  <2>1. stack' = stack \cup {Message(r.name, r.job)} /\ UNCHANGED loadPos
    BY <1>4 DEF ReceiveRequest, BatchTakes, loadVars
  <2>2. r.name \in RequestKinds
    BY RequestsAssumption
  <2>. QED
    BY <1>1, <2>1, <2>2
<1>5. CASE SortStack \/ Reply \/ Resume
  <2>1. UNCHANGED <<stack, loadPos>>
    BY <1>5 DEF SortStack, Reply, Resume, loadVars
  <2>. QED
    BY <2>1 DEF Coming, StackLoaded, TableInv
<1>. QED
  BY <1>2, <1>3, <1>4, <1>5 DEF BatchStep

(* It leaves the table and the queues alone.                               *)
LEMMA BatchStepTable ==
  ASSUME TableInv, BatchStep
  PROVE  TableInv'
<1>1. TypeInv'
  BY BatchStepTyped DEF TableInv
<1>2. UNCHANGED <<gantt, queues>>
  BY DEF BatchStep, ReceiveAck, ReceiveTask, ReceiveRequest, SortStack, Reply, Resume,
         BatchTakes, clusterVars
<1>. QED
  BY <1>1, <1>2, BatchStepComing, QuietTable

(* Nobody but the batch writes the table, the queues and the stack.        *)
LEMMA OthersTable ==
  ASSUME TableInv, TypeInv', UNCHANGED <<gantt, queues, stack, loadPos>>
  PROVE  TableInv'
<1>1. Coming' \subseteq Coming /\ StackLoaded'
  BY DEF Coming, StackLoaded, TableInv
<1>. QED
  BY <1>1, QuietTable

(* At first the table and the queues are empty.                            *)
LEMMA TableInit == Init => TableInv
<1>. SUFFICES ASSUME Init PROVE TableInv
  OBVIOUS
<1>1. TypeInv
  BY TypeInit
<1>2. \A n \in Nodes : gantt.chart[n] = <<>>
  BY DEF Init
<1>3. AllOrdered(gantt) /\ \A x : Absent(gantt, x)
  BY <1>2 DEF AllOrdered, Ordered, Absent, NotIn
<1>4. 1 .. Len(queues) = Queues /\ \A p \in Queues : queues[p] = <<>>
  <2>1. queues \in [Queues -> Seq(Jobs)]
    BY <1>1 DEF TypeInv, TypeOK
  <2>. QED
    BY <2>1, QueuesLen DEF Init
<1>5. Once(queues) /\ \A x : Untraced(queues, x)
  BY <1>4 DEF Once, Untraced, NotIn
<1>. QED
  BY <1>1, <1>3, <1>5 DEF TableInv, Fresh, StackLoaded, Init

(* Every step keeps the slots in order and the jobs in one slot each.      *)
LEMMA TableStep == TableInv /\ [Next]_vars => TableInv'
<1>. SUFFICES ASSUME TableInv, [Next]_vars PROVE TableInv'
  OBVIOUS
<1>1. TypeInv'
  BY TypeStep DEF TableInv
<1>2. CASE \E j \in Jobs : HandleMessage(j)
  BY <1>2, ScheduleTaskTable, ReserveSlotTable, CheckAckTable, CancelTaskTable
     DEF HandleMessage
<1>3. CASE BatchStep
  BY <1>3, BatchStepTable
<1>4. CASE RmStep
  <2>1. UNCHANGED <<gantt, queues, stack, loadPos>>
    BY <1>4 DEF RmStep, RmTimeout, ReceiveAttach, ReceiveUpdate, RmDrained, RunTaken,
                RmNext, clusterVars, batchVars, loadVars
  <2>. QED
    BY <1>1, <2>1, OthersTable
<1>5. ASSUME NEW s \in Sups, Supervise(s) PROVE TableInv'
  <2>1. UNCHANGED <<gantt, queues, stack, loadPos>>
    BY <1>5 DEF Supervise, SupStart, NodeReceive, InputReceived, SupFinish, OutputReturned,
                TellBatch, SupFrame, batchVars, loadVars
  <2>. QED
    BY <1>1, <2>1, OthersTable
<1>6. CASE \/ Tick \/ EndOfTime \/ LoadSend \/ UNCHANGED vars
           \/ \E r \in Requests : ClientSend(r)
  <2>1. UNCHANGED <<gantt, queues, stack, loadPos>>
    BY <1>6 DEF Tick, EndOfTime, LoadSend, ClientSend, vars, clusterVars, batchVars, loadVars
  <2>. QED
    BY <1>1, <2>1, OthersTable
<1>. QED
  BY <1>2, <1>3, <1>4, <1>5, <1>6 DEF Next, System, Terminated

(***************************************************************************)
(* The planned slots of a node never overlap: schedule_task, reserve_slot  *)
(* and the reschedulings of check_ACK and cancel_task (batch.c:350-510)    *)
(* take slots that are free, and no job is planned again while it still    *)
(* has slots (scheduling.c:50-58, plugins fcfs.c and cbf.c).               *)
(***************************************************************************)
THEOREM SlotsDisjoint == Spec => []PlannedDisjoint
<1>1. TableInv => PlannedDisjoint
  <2>. SUFFICES ASSUME TableInv PROVE PlannedDisjoint
    OBVIOUS
  <2>1. \A n \in Nodes : DOMAIN gantt.chart[n] = 1 .. Len(gantt.chart[n])
    BY DEF TableInv, TypeInv, TypeOK, Tables
  <2>. QED
    BY <2>1 DEF TableInv, PlannedDisjoint, AllOrdered, Ordered
<1>. QED
  BY TableInit, TableStep, <1>1, PTL DEF Spec
=============================================================================
