-------------------------- MODULE RefinementProofs --------------------------
(***************************************************************************)
(* BatchSystem implements Cluster, when everything goes as planned.        *)
(*                                                                         *)
(* The steps of the batch that write the table, and the one of the resource*)
(* manager that starts a job, are operations of the planner; the others    *)
(* leave what it sees.  It starts and ends jobs and lets time pass only    *)
(* when the plan allows it: these guards follow from the invariant of      *)
(* ClusterProofs, with the dates it gives to supervisors and to the file.  *)
(* The dates also tell when the servers can come to wait for each other;   *)
(* from then on the planner stands still.                                  *)
(***************************************************************************)
EXTENDS ClusterProofs, Refinement

-----------------------------------------------------------------------------
(* The tables of Cluster are those of BatchSystem: the operators of Gantt  *)
(* are the same in both.                                                   *)
LEMMA SameSlots ==
  ASSUME NEW g, NEW q, NEW j, NEW S
  PROVE  /\ Abstract!DeleteDone(g, j) = DeleteDone(g, j)
         /\ Abstract!Keep(q, S) = Keep(q, S)
         /\ Abstract!Clean(g, S) = Clean(g, S)
         /\ Abstract!End(g, j) = End(g, j)
         /\ Abstract!Planned(g, j) = Planned(g, j)
         /\ Abstract!Nodes = Nodes
BY DEF Abstract!DeleteDone, DeleteDone, Abstract!Keep, Keep, Abstract!Clean, Clean, Abstract!End,
   End, Abstract!Planned, Planned, Abstract!Nodes, Nodes

(* accept_schedule does the same.                                          *)
LEMMA SameAccept ==
  ASSUME NEW g, NEW j, NEW bid
  PROVE  Abstract!Accept(g, j, bid) = Accept(g, j, bid)
BY DEF Abstract!Accept, Accept, Abstract!Nodes, Nodes, Abstract!InsertJob, InsertJob

(* The search for slots finds the same date.                               *)
LEMMA SameEarliestStart ==
  ASSUME NEW g, NEW nb, NEW t, NEW dur
  PROVE  Abstract!EarliestStart(g, nb, t, dur) = EarliestStart(g, nb, t, dur)
BY DEF Abstract!EarliestStart, EarliestStart, Abstract!ReleaseDates, ReleaseDates,
   Abstract!Cardinality, Cardinality, Abstract!Nodes, Nodes, Abstract!FreeNodes, FreeNodes,
   Abstract!FreeAt, FreeAt, Abstract!FitsAt, FitsAt, Abstract!End, End, Abstract!Planned, Planned

(* The plugin cbf bids the same.                                           *)
LEMMA SameCbfBid ==
  ASSUME NEW g, NEW nb, NEW t, NEW dur
  PROVE  Abstract!CbfBid(g, nb, t, dur) = CbfBid(g, nb, t, dur)
BY DEF Abstract!CbfBid, CbfBid, Abstract!EarliestStart, EarliestStart, Abstract!ReleaseDates,
   ReleaseDates, Abstract!Cardinality, Cardinality, Abstract!Nodes, Nodes, Abstract!FreeNodes,
   FreeNodes, Abstract!FreeAt, FreeAt, Abstract!FitsAt, FitsAt, Abstract!End, End,
   Abstract!Planned, Planned, Abstract!Least, Least, Abstract!Before, Before,
   Abstract!SlotPosition, SlotPosition

(* The plugin fcfs bids the same.                                          *)
LEMMA SameFcfsBid ==
  ASSUME NEW g, NEW nb, NEW t
  PROVE  Abstract!FcfsBid(g, nb, t) = FcfsBid(g, nb, t)
BY DEF Abstract!FcfsBid, FcfsBid, Abstract!LastSlot, LastSlot, Abstract!Cardinality, Cardinality,
   Abstract!Nodes, Nodes, Abstract!End, End, Abstract!Least, Least, Abstract!Before, Before

(* Whichever the plugin is.                                                *)
LEMMA SameSchedule ==
  ASSUME NEW plugin, NEW g, NEW j, NEW nb, NEW t
  PROVE  Abstract!Schedule(plugin, g, j, nb, t) = Schedule(plugin, g, j, nb, t)
BY SameFcfsBid, SameCbfBid DEF Abstract!Schedule, Schedule

(* Planning a queue again runs through the same tables.                    *)
LEMMA SameRescheduleQueue ==
  ASSUME NEW plugin, NEW g, NEW q, NEW movable, NEW procs, NEW t
  PROVE  Abstract!RescheduleQueue(plugin, g, q, movable, procs, t)
           = RescheduleQueue(plugin, g, q, movable, procs, t)
<1>. DEFINE n == Len(q)
            Here(f) == f = [i \in 0 .. n |->
                              IF i = 0 THEN g
                              ELSE IF q[i] \in movable
                                   THEN Accept(f[i - 1], q[i],
                                               Schedule(plugin, f[i - 1], q[i], procs[q[i]], t))
                                   ELSE f[i - 1]]
            There(f) == f = [i \in 0 .. n |->
                               IF i = 0 THEN g
                               ELSE IF q[i] \in movable
                                    THEN Abstract!Accept(f[i - 1], q[i],
                                           Abstract!Schedule(plugin, f[i - 1], q[i],
                                                             procs[q[i]], t))
                                    ELSE f[i - 1]]
<1>1. ASSUME NEW f PROVE Here(f) <=> There(f)
  BY SameAccept, SameSchedule
<1>2. /\ RescheduleQueue(plugin, g, q, movable, procs, t) = (CHOOSE f : Here(f))[n]
      /\ Abstract!RescheduleQueue(plugin, g, q, movable, procs, t) = (CHOOSE f : There(f))[n]
  BY DEF RescheduleQueue, Abstract!RescheduleQueue
<1>. HIDE DEF Here, There, n
<1>3. (CHOOSE f : Here(f)) = (CHOOSE f : There(f))
  BY <1>1
<1>. QED
  BY <1>2, <1>3

(* And so does planning all queues again.                                  *)
LEMMA SameReschedule ==
  ASSUME NEW plugin, NEW g, NEW qs, NEW waiting, NEW movable, NEW procs, NEW t
  PROVE  Abstract!Reschedule(plugin, g, qs, waiting, movable, procs, t)
           = Reschedule(plugin, g, qs, waiting, movable, procs, t)
<1>. DEFINE n == Len(qs)
            Here(f) == f = [i \in 0 .. n |->
                              IF i = 0 THEN Clean(g, waiting)
                              ELSE RescheduleQueue(plugin, f[i - 1], qs[n + 1 - i],
                                                   movable, procs, t)]
            There(f) == f = [i \in 0 .. n |->
                               IF i = 0 THEN Abstract!Clean(g, waiting)
                               ELSE Abstract!RescheduleQueue(plugin, f[i - 1], qs[n + 1 - i],
                                                             movable, procs, t)]
<1>1. ASSUME NEW f PROVE Here(f) <=> There(f)
  BY SameSlots, SameRescheduleQueue
<1>2. /\ Reschedule(plugin, g, qs, waiting, movable, procs, t) = (CHOOSE f : Here(f))[n]
      /\ Abstract!Reschedule(plugin, g, qs, waiting, movable, procs, t) = (CHOOSE f : There(f))[n]
  BY DEF Reschedule, Abstract!Reschedule
<1>. HIDE DEF Here, There, n
<1>3. (CHOOSE f : Here(f)) = (CHOOSE f : There(f))
  BY <1>1
<1>. QED
  BY <1>2, <1>3

-----------------------------------------------------------------------------
(* A prefix grows by its next job.                                         *)
LEMMA PrefixGrows ==
  ASSUME NEW q \in Seq(Jobs), NEW i \in 1 .. Len(q)
  PROVE  Append(SubSeq(q, 1, i - 1), q[i]) = SubSeq(q, 1, i)
<1>. DEFINE s == SubSeq(q, 1, i - 1)
            t == SubSeq(q, 1, i)
            u == Append(s, q[i])
<1>1. Len(q) \in Nat /\ q[i] \in Jobs /\ \A k \in 1 .. Len(q) : q[k] \in Jobs
  BY ElementOfSeq
<1>2. /\ s \in Seq(Jobs) /\ Len(s) = i - 1 /\ \A k \in 1 .. i - 1 : s[k] = q[k]
  BY <1>1, SubSeqProperties
<1>3. /\ t \in Seq(Jobs) /\ Len(t) = i /\ \A k \in 1 .. i : t[k] = q[k]
  BY <1>1, SubSeqProperties
<1>. HIDE DEF s, t
<1>4. /\ u \in Seq(Jobs) /\ Len(u) = i /\ \A k \in 1 .. i - 1 : u[k] = s[k]
      /\ u[i] = q[i]
  BY <1>1, <1>2, AppendProperties
<1>. HIDE DEF u
<1>5. \A k \in 1 .. i : u[k] = t[k]
  BY <1>1, <1>2, <1>3, <1>4
<1>6. u = t
  BY <1>3, <1>4, <1>5, SeqEqual
<1>. QED
  BY <1>6 DEF u, s, t

(* All of a sequence, and nothing of it.                                   *)
LEMMA PrefixEnds ==
  ASSUME NEW q \in Seq(Jobs)
  PROVE  SubSeq(q, 1, Len(q)) = q /\ SubSeq(q, 1, 0) = <<>>
<1>1. Len(q) \in Nat /\ \A k \in 1 .. Len(q) : q[k] \in Jobs
  BY ElementOfSeq
<1>. DEFINE t == SubSeq(q, 1, Len(q))
<1>2. t \in Seq(Jobs) /\ Len(t) = Len(q) /\ \A k \in 1 .. Len(q) : t[k] = q[k]
  BY <1>1, SubSeqProperties
<1>. HIDE DEF t
<1>3. t = q
  BY <1>2, SeqEqual
<1>. QED
  BY <1>1, <1>3, SubSeqEmpty DEF t

(* Two recursions with the same steps agree.                               *)
LEMMA SameSteps ==
  ASSUME NEW n \in Nat, NEW f, NEW h, f[0] = h[0],
         \A i \in 1 .. n : f[i - 1] = h[i - 1] => f[i] = h[i]
  PROVE  f[n] = h[n]
<1>. DEFINE bad == {i \in 0 .. n : f[i] # h[i]}
<1>. SUFFICES ASSUME f[n] # h[n] PROVE FALSE
  OBVIOUS
<1>1. n \in bad
  OBVIOUS
<1>2. PICK i \in bad : \A k \in bad : i =< k
  <2>1. bad \subseteq Nat
    OBVIOUS
  <2>. HIDE DEF bad
  <2>. QED
    BY <1>1, <2>1, LeastElement
<1>3. i # 0 /\ i - 1 \in 0 .. n /\ i - 1 \notin bad
  BY <1>2
<1>. QED
  BY <1>2, <1>3

(* Keeping all jobs but one leaves a queue without it as it was.           *)
LEMMA KeepAll ==
  ASSUME NEW q \in Seq(Jobs), NEW j \in Jobs, ~ Holds(q, j)
  PROVE  Keep(q, Jobs \ {j}) = q
<1>. DEFINE n == Len(q)
            S == Jobs \ {j}
            h == [i \in 0 .. n |-> SubSeq(q, 1, i)]
<1>1. PICK f : KeepSteps(f, q, S) /\ Keep(q, S) = f[n]
  BY KeepIsSteps
<1>2. n \in Nat /\ \A i \in 1 .. n : q[i] \in S
  <2>1. n \in Nat /\ DOMAIN q = 1 .. n /\ \A i \in 1 .. n : q[i] \in Jobs
    BY ElementOfSeq
  <2>. QED
    BY <2>1 DEF Holds
<1>3. h[0] = <<>> /\ h[n] = q
  BY <1>2, PrefixEnds
<1>4. ASSUME NEW i \in 1 .. n, f[i - 1] = h[i - 1] PROVE f[i] = h[i]
  <2>1. i \in 0 .. n /\ i - 1 \in 0 .. n
    BY <1>2
  <2>2. h[i - 1] = SubSeq(q, 1, i - 1) /\ h[i] = SubSeq(q, 1, i)
    BY <2>1
  <2>3. f[i] = Append(f[i - 1], q[i])
    BY <1>1, <1>2 DEF KeepSteps
  <2>. HIDE DEF h
  <2>. QED
    BY <1>4, <2>2, <2>3, PrefixGrows
<1>5. f[0] = h[0]
  BY <1>1, <1>3 DEF KeepSteps
<1>. HIDE DEF h
<1>6. f[n] = h[n]
  BY <1>2, <1>4, <1>5, SameSteps
<1>. QED
  BY <1>1, <1>3, <1>6

(* And removes the one place of a job that has one.                        *)
LEMMA KeepRemoves ==
  ASSUME NEW q \in Seq(Jobs), NEW j \in Jobs, Holds(q, j),
         \A i, k \in 1 .. Len(q) : q[i] = q[k] => i = k
  PROVE  Keep(q, Jobs \ {j}) = Removed(q, j)
<1>. DEFINE n == Len(q)
            S == Jobs \ {j}
            r == Removed(q, j)
<1>1. PICK f : KeepSteps(f, q, S) /\ Keep(q, S) = f[n]
  BY KeepIsSteps
<1>2. PICK k : Without(r, q, k, j)
  BY RemovedProperties
<1>. HIDE DEF r
<1>. DEFINE h == [i \in 0 .. n |-> IF i < k THEN SubSeq(q, 1, i) ELSE SubSeq(r, 1, i - 1)]
<1>3. /\ n \in Nat /\ k \in 1 .. n /\ q[k] = j /\ r \in Seq(Jobs) /\ Len(r) = n - 1
      /\ \A i \in 1 .. n : q[i] \in Jobs /\ (q[i] \in S <=> i # k)
      /\ \A i \in 1 .. n - 1 : r[i] = IF i < k THEN q[i] ELSE q[i + 1]
  <2>1. n \in Nat /\ \A i \in 1 .. n : q[i] \in Jobs
    BY ElementOfSeq
  <2>. QED
    BY <1>2, <2>1 DEF Without
<1>4. h[0] = <<>> /\ h[n] = r
  <2>1. h[0] = SubSeq(q, 1, 0) /\ h[n] = SubSeq(r, 1, n - 1)
    BY <1>3
  <2>. QED
    BY <1>3, <2>1, PrefixEnds
<1>5. SubSeq(q, 1, k - 1) = SubSeq(r, 1, k - 1)
  <2>. DEFINE s == SubSeq(q, 1, k - 1)
              t == SubSeq(r, 1, k - 1)
  <2>1. /\ \A i \in 1 .. k - 1 : r[i] = q[i] /\ r[i] \in Jobs /\ q[i] \in Jobs
        /\ k - 1 \in Int /\ k - 1 >= 0
    BY <1>3
  <2>2. s \in Seq(Jobs) /\ Len(s) = k - 1 /\ \A i \in 1 .. k - 1 : s[i] = q[i]
    BY <2>1, SubSeqProperties
  <2>3. t \in Seq(Jobs) /\ Len(t) = k - 1 /\ \A i \in 1 .. k - 1 : t[i] = r[i]
    BY <2>1, SubSeqProperties
  <2>. HIDE DEF s, t
  <2>4. s = t
    BY <2>1, <2>2, <2>3, SeqEqual
  <2>. QED
    BY <2>4 DEF s, t
<1>6. ASSUME NEW i \in 1 .. n, f[i - 1] = h[i - 1] PROVE f[i] = h[i]
  <2>1. i \in 0 .. n /\ i - 1 \in 0 .. n
    BY <1>3
  <2>2. /\ h[i - 1] = IF i - 1 < k THEN SubSeq(q, 1, i - 1) ELSE SubSeq(r, 1, (i - 1) - 1)
        /\ h[i] = IF i < k THEN SubSeq(q, 1, i) ELSE SubSeq(r, 1, i - 1)
    BY <2>1
  <2>3. f[i] = IF i # k THEN Append(f[i - 1], q[i]) ELSE f[i - 1]
    BY <1>1, <1>3 DEF KeepSteps
  <2>. HIDE DEF h
  <2>4. CASE i < k
    <3>1. h[i - 1] = SubSeq(q, 1, i - 1) /\ h[i] = SubSeq(q, 1, i) /\ i # k
      BY <1>3, <2>2, <2>4
    <3>. QED
      BY <1>6, <2>3, <3>1, PrefixGrows
  <2>5. CASE i = k
    <3>1. h[i - 1] = SubSeq(q, 1, k - 1) /\ h[i] = SubSeq(r, 1, k - 1)
      BY <1>3, <2>2, <2>5
    <3>. QED
      BY <1>5, <1>6, <2>3, <2>5, <3>1
  <2>6. CASE i > k
    <3>1. /\ h[i - 1] = SubSeq(r, 1, (i - 1) - 1) /\ h[i] = SubSeq(r, 1, i - 1) /\ i # k
          /\ i - 1 \in 1 .. Len(r) /\ q[i] = r[i - 1]
      BY <1>3, <2>2, <2>6
    <3>2. Append(SubSeq(r, 1, (i - 1) - 1), r[i - 1]) = SubSeq(r, 1, i - 1)
      BY <1>3, <3>1, PrefixGrows
    <3>. QED
      BY <1>6, <2>3, <3>1, <3>2
  <2>. QED
    BY <1>3, <2>4, <2>5, <2>6
<1>7. f[0] = h[0]
  BY <1>1, <1>4 DEF KeepSteps
<1>. HIDE DEF h
<1>8. f[n] = h[n]
  BY <1>3, <1>6, <1>7, SameSteps
<1>. QED
  BY <1>1, <1>4, <1>8 DEF r

-----------------------------------------------------------------------------
(* What the planner of Cluster sees of a state, and does to it.            *)
Seen(st, g, qs, rs) == [state |-> st, gantt |-> g, queues |-> qs, reserved |-> rs]

AskedJobs == {r.job : r \in Asked}

(* It sees the variables of the batch themselves.                          *)
Plain ==
  AbstractState = state /\ AbstractTodo = Coming /\ AbstractBooked = AskedJobs

LEMMA StateSeen == OrderInv => Plain
<1>. SUFFICES ASSUME OrderInv PROVE Plain
  OBVIOUS
<1>1. /\ state \in [Jobs -> JobStates] /\ stack \subseteq Messages
      /\ \A j \in Jobs : state[j] # "ERROR"
  BY DEF OrderInv, PlanInv, TableInv, TypeInv, TypeOK, Execution
<1>2. AbstractState = state
  BY <1>1 DEF AbstractState
<1>3. AbstractTodo = Coming
  <2>1. \A m \in stack : m = Message(m.name, m.job) /\ m.job \in Jobs
    BY <1>1 DEF Messages, Message
  <2>2. InStack("SB_TASK") = {m.job : m \in {o \in stack : o.name = "SB_TASK"}}
    <3>1. \A j : Message("SB_TASK", j).name = "SB_TASK" /\ Message("SB_TASK", j).job = j
      BY DEF Message
    <3>. QED
      BY <2>1, <3>1 DEF InStack
  <2>. QED
    BY <2>2 DEF AbstractTodo, Coming
<1>4. AbstractBooked = AskedJobs
  <2>1. \A r \in Requests : r = Message(r.name, r.job) /\ r.job \in Jobs
    BY RequestsAssumption DEF Message
  <2>2. \A j : Message("SB_RES", j).name = "SB_RES" /\ Message("SB_RES", j).job = j
    BY DEF Message
  <2>. QED
    BY <2>1, <2>2 DEF AbstractBooked, AskedJobs, Asked
<1>. QED
  BY <1>2, <1>3, <1>4 DEF Plain

(* After a step too.                                                       *)
LEMMA StateSeenNext == OrderInv' => Plain'
BY StateSeen, PTL

Fields == {"state", "gantt", "queues", "reserved"}

(* It is given by its fields.                                              *)
LEMMA SeenFields ==
  ASSUME NEW st, NEW g, NEW qs, NEW rs
  PROVE  LET k == Seen(st, g, qs, rs)
         IN  /\ k = [x \in Fields |-> k[x]]
             /\ k.state = st /\ k.gantt = g /\ k.queues = qs /\ k.reserved = rs
BY DEF Seen, Fields

(* A record with its fields is what the planner sees.                      *)
LEMMA SeenEqual ==
  ASSUME NEW e, e = [x \in Fields |-> e[x]], NEW st, NEW g, NEW qs, NEW rs,
         e.state = st, e.gantt = g, e.queues = qs, e.reserved = rs
  PROVE  e = Seen(st, g, qs, rs)
<1>. DEFINE l == Seen(st, g, qs, rs)
<1>1. l = [x \in Fields |-> l[x]]
  BY DEF Seen, Fields
<1>2. l.state = st /\ l.gantt = g /\ l.queues = qs /\ l.reserved = rs
  BY DEF Seen
<1>. HIDE DEF l
<1>3. \A x \in Fields : e[x] = l[x]
  BY <1>2 DEF Fields
<1>4. e = l
  BY <1>1, <1>3
<1>. QED
  BY <1>4 DEF l

(* Another table.                                                          *)
LEMMA SeenGantt ==
  ASSUME NEW k, k = [x \in Fields |-> k[x]], NEW g2
  PROVE  [k EXCEPT !.gantt = g2] = Seen(k.state, g2, k.queues, k.reserved)
<1>. DEFINE e == [k EXCEPT !.gantt = g2]
<1>1. /\ "state" \in Fields /\ "gantt" \in Fields /\ "queues" \in Fields /\ "reserved" \in Fields
  BY DEF Fields
<1>2. /\ e = [x \in Fields |-> e[x]]
      /\ e.gantt = g2 /\ e.state = k.state /\ e.queues = k.queues /\ e.reserved = k.reserved
  BY <1>1
<1>. HIDE DEF e
<1>3. e = Seen(k.state, g2, k.queues, k.reserved)
  BY <1>2, SeenEqual
<1>. QED
  BY <1>3 DEF e

(* Writing one place of a field.                                           *)
LEMMA SeenPlace ==
  ASSUME NEW k, NEW i, NEW v, NEW g2, NEW r2, NEW q2
  PROVE  /\ [k EXCEPT !.queues[i] = v, !.gantt = g2]
              = [k EXCEPT !.queues = [k.queues EXCEPT ![i] = v], !.gantt = g2]
         /\ [k EXCEPT !.state[i] = v] = [k EXCEPT !.state = [k.state EXCEPT ![i] = v]]
         /\ [k EXCEPT !.state[i] = v, !.gantt = g2, !.reserved = r2, !.queues = q2]
              = [k EXCEPT !.state = [k.state EXCEPT ![i] = v], !.gantt = g2,
                          !.reserved = r2, !.queues = q2]
OBVIOUS

(* The planner after schedule_task, and after check_ACK.                   *)
Tasked(st, g, qs, rs, j) ==
  Seen(st, Accept(g, j, Schedule(Plugin, g, j, desc[j].procs, clock)),
       [qs EXCEPT ![QueueOf(j)] = Append(qs[QueueOf(j)], j)], rs)

Ended(st, g, qs, rs, j) ==
  LET s2 == [st EXCEPT ![j] = "DONE"]
      q2 == [p \in Queues |-> Keep(qs[p], Jobs \ {j})]
  IN  Seen(s2, Rescheduled(DeleteDone(g, j), q2, s2), q2, Keep(rs, Jobs \ {j}))

(* schedule_task is its WithTask.                                          *)
LEMMA PlannerTask ==
  ASSUME NEW st, NEW g, NEW qs, NEW rs, NEW j
  PROVE  /\ Abstract!Admits(j) <=> desc[j].procs =< NbNodes /\ DeadlineOpen(j)
         /\ Abstract!WithTask(Seen(st, g, qs, rs), j)
              = Tasked(st, g, qs, rs, j)
<1>. DEFINE k == Seen(st, g, qs, rs)
            bid == Schedule(Plugin, g, j, desc[j].procs, clock)
            i == QueueOf(j)
<1>1. Abstract!QueueOf(j) = i
  BY DEF Abstract!QueueOf, QueueOf
<1>2. Abstract!Admits(j) <=> desc[j].procs =< NbNodes /\ DeadlineOpen(j)
  BY DEF Abstract!Admits, Abstract!Open, DeadlineOpen, NoDeadline, Abstract!NoDeadline
<1>3. k.gantt = g /\ k.queues = qs /\ k.state = st /\ k.reserved = rs /\ k = [x \in Fields |-> k[x]]
  BY SeenFields
<1>. HIDE DEF k, i
<1>4. Abstract!Bid(k, j) = bid
  BY <1>3, SameSchedule DEF Abstract!Bid
<1>. HIDE DEF bid
<1>5. Abstract!WithTask(k, j) =
        [k EXCEPT !.queues[i] = Append(qs[i], j), !.gantt = Accept(g, j, bid)]
  BY <1>1, <1>3, <1>4, SameAccept DEF Abstract!WithTask
<1>6. Abstract!WithTask(k, j)
        = [k EXCEPT !.queues = [qs EXCEPT ![i] = Append(qs[i], j)], !.gantt = Accept(g, j, bid)]
  BY <1>3, <1>5, SeenPlace
<1>. DEFINE q2 == [qs EXCEPT ![i] = Append(qs[i], j)]
            g2 == Accept(g, j, bid)
            e == [k EXCEPT !.queues = q2, !.gantt = g2]
<1>7. e = Seen(st, g2, q2, rs)
  <2>. HIDE DEF q2, g2
  <2>1. /\ e = [x \in Fields |-> e[x]]
        /\ e.state = st /\ e.gantt = g2 /\ e.queues = q2 /\ e.reserved = rs
    BY <1>3 DEF Fields
  <2>. HIDE DEF e
  <2>. QED
    BY <2>1, SeenEqual
<1>. QED
  BY <1>2, <1>6, <1>7 DEF k, i, bid, Tasked

(* reserve_slot is its WithReservation.                                    *)
LEMMA PlannerReservation ==
  ASSUME NEW st, NEW g, NEW qs, NEW rs, NEW j
  PROVE  /\ Abstract!Bookable(Seen(st, g, qs, rs), j)
              <=> EarliestStart(g, desc[j].procs, desc[j].start, desc[j].wall) = desc[j].start
         /\ Abstract!WithReservation(Seen(st, g, qs, rs), j)
              = Seen(st, Accept(g, j, CbfBid(g, desc[j].procs, desc[j].start, desc[j].wall)),
                     qs, Append(rs, j))
<1>. DEFINE k == Seen(st, g, qs, rs)
            bid == CbfBid(g, desc[j].procs, desc[j].start, desc[j].wall)
<1>1. k.gantt = g /\ k.reserved = rs /\ k.state = st /\ k.queues = qs /\ k = [x \in Fields |-> k[x]]
  BY SeenFields
<1>. HIDE DEF k
<1>2. Abstract!Bookable(k, j)
        <=> EarliestStart(g, desc[j].procs, desc[j].start, desc[j].wall) = desc[j].start
  BY <1>1, SameEarliestStart DEF Abstract!Bookable
<1>3. Abstract!CbfBid(g, desc[j].procs, desc[j].start, desc[j].wall) = bid
  BY SameCbfBid
<1>. HIDE DEF bid
<1>4. Abstract!WithReservation(k, j) =
        [k EXCEPT !.reserved = Append(rs, j), !.gantt = Accept(g, j, bid)]
  BY <1>1, <1>3, SameAccept DEF Abstract!WithReservation
<1>. DEFINE r2 == Append(rs, j)
            g2 == Accept(g, j, bid)
            e == [k EXCEPT !.reserved = r2, !.gantt = g2]
<1>5. e = Seen(st, g2, qs, r2)
  <2>. HIDE DEF r2, g2
  <2>1. /\ e = [x \in Fields |-> e[x]]
        /\ e.state = st /\ e.gantt = g2 /\ e.queues = qs /\ e.reserved = r2
    BY <1>1 DEF Fields
  <2>. HIDE DEF e
  <2>. QED
    BY <2>1, SeenEqual
<1>. QED
  BY <1>2, <1>4, <1>5 DEF k, bid

(* check_ACK is its WithoutJob.                                            *)
LEMMA PlannerEnd ==
  ASSUME NEW st, NEW g, NEW qs, NEW rs, NEW j
  PROVE  Abstract!WithoutJob(Seen(st, g, qs, rs), j) = Ended(st, g, qs, rs, j)
<1>. DEFINE k == Seen(st, g, qs, rs)
            s2 == [st EXCEPT ![j] = "DONE"]
            q2 == [p \in Queues |-> Keep(qs[p], Jobs \ {j})]
            r2 == Keep(rs, Jobs \ {j})
            g2 == DeleteDone(g, j)
            waiting == {x \in Jobs : s2[x] = "WAITING"}
            k2 == Seen(s2, g2, q2, r2)
<1>1. k.state = st /\ k.gantt = g /\ k.queues = qs /\ k.reserved = rs /\ k = [x \in Fields |-> k[x]]
  BY SeenFields
<1>2. [p \in Abstract!Queues |-> Abstract!Keep(qs[p], Jobs \ {j})] = q2
  BY SameSlots DEF Abstract!Queues, Queues
<1>3. Abstract!DeleteDone(g, j) = g2 /\ Abstract!Keep(rs, Jobs \ {j}) = r2
  BY SameSlots
<1>. HIDE DEF k, g2, q2, r2
<1>4. k2 = [k EXCEPT !.state[j] = "DONE", !.gantt = g2, !.reserved = r2, !.queues = q2]
  <2>1. k2 = [k EXCEPT !.state = s2, !.gantt = g2, !.reserved = r2, !.queues = q2]
    <3>. HIDE DEF s2
    <3>. DEFINE e == [k EXCEPT !.state = s2, !.gantt = g2, !.reserved = r2, !.queues = q2]
    <3>1. /\ e = [x \in Fields |-> e[x]]
          /\ e.state = s2 /\ e.gantt = g2 /\ e.queues = q2 /\ e.reserved = r2
      BY <1>1 DEF Fields
    <3>. HIDE DEF e
    <3>2. e = k2
      BY <3>1, SeenEqual
    <3>. QED
      BY <3>2 DEF e
  <2>. HIDE DEF k2
  <2>. QED
    BY <1>1, <2>1, SeenPlace
<1>. HIDE DEF s2
<1>5. Abstract!WithoutJob(k, j) = Abstract!Replanned(k2)
  <2>. HIDE DEF k2
  <2>. QED
    BY <1>1, <1>2, <1>3, <1>4 DEF Abstract!WithoutJob
<1>6. /\ k2.state = s2 /\ k2.gantt = g2 /\ k2.queues = q2 /\ k2.reserved = r2
      /\ k2 = [x \in Fields |-> k2[x]]
  BY SeenFields
<1>7. \A x : Abstract!Open(x) <=> DeadlineOpen(x)
  BY DEF Abstract!Open, DeadlineOpen, NoDeadline, Abstract!NoDeadline
<1>8. {x \in waiting : Abstract!Open(x)} = {x \in waiting : DeadlineOpen(x)}
  BY <1>7
<1>. HIDE DEF k2
<1>9. Abstract!Replanned(k2) = [k2 EXCEPT !.gantt = Rescheduled(g2, q2, s2)]
  BY <1>6, <1>8, SameReschedule DEF Abstract!Replanned, Rescheduled, Procs
<1>10. [k2 EXCEPT !.gantt = Rescheduled(g2, q2, s2)] = Seen(s2, Rescheduled(g2, q2, s2), q2, r2)
  BY <1>6, SeenGantt
<1>. QED
  BY <1>5, <1>9, <1>10 DEF k, s2, g2, q2, r2, Ended

-----------------------------------------------------------------------------
(* What the steps of the batch are for the planner.                        *)

RefInv == OrderInv /\ Punctual

(* It sees the state before and after a step.                              *)
LEMMA StepSeen ==
  ASSUME OrderInv, OrderInv'
  PROVE  /\ Plain /\ Plain'
         /\ AbstractCluster = Seen(state, gantt, queues, reserved)
         /\ AbstractCluster' = Seen(state', gantt', queues', reserved')
<1>1. Plain /\ Plain'
  BY StateSeen, StateSeenNext
<1>. QED
  BY <1>1 DEF Plain, AbstractCluster, Seen

(* Nothing is new for it.                                                  *)
LEMMA Stutters ==
  ASSUME OrderInv, OrderInv', UNCHANGED <<clock, desc, state, gantt, queues, reserved>>,
         Coming' = Coming, AskedJobs' = AskedJobs
  PROVE  Abstract!Idle
<1>1. /\ Plain /\ Plain'
      /\ AbstractCluster = Seen(state, gantt, queues, reserved)
      /\ AbstractCluster' = Seen(state', gantt', queues', reserved')
  BY StepSeen
<1>. QED
  BY <1>1 DEF Abstract!Idle, Plain

(* schedule_task submits a job.                                            *)
LEMMA TaskSubmits ==
  ASSUME RefInv, OrderInv', NEW j \in Jobs, ScheduleTask(j)
  PROVE  Abstract!Submit(j)
<1>1. /\ Plain /\ Plain'
      /\ AbstractCluster = Seen(state, gantt, queues, reserved)
      /\ AbstractCluster' = Seen(state', gantt', queues', reserved')
  BY StepSeen DEF RefInv
<1>2. /\ Handle("SB_TASK", j) /\ UNCHANGED <<clock, desc, state, reserved, req, loadPos>>
      /\ IF desc[j].procs =< NbNodes /\ DeadlineOpen(j)
           THEN /\ queues' = [queues EXCEPT ![QueueOf(j)] = Append(@, j)]
                /\ gantt' = Accept(gantt, j, Schedule(Plugin, gantt, j, desc[j].procs, clock))
           ELSE UNCHANGED <<queues, gantt>>
  BY DEF ScheduleTask, Handle, loadVars
<1>3. Message("SB_TASK", j) \in stack /\ stack' = stack \ {Message("SB_TASK", j)}
  BY <1>2 DEF Handle
<1>4. clock = desc[j].submit
  BY <1>3 DEF RefInv, Punctual, Message
<1>5. Coming' = Coming \ {j} /\ j \in Coming
  <2>1. /\ j \in Coming /\ j \notin Coming' /\ Coming' \subseteq Coming
    BY <1>2, HandledComing DEF RefInv, OrderInv, PlanInv
  <2>2. \A o \in stack : o = Message("SB_TASK", j) \/ o \in stack'
    BY <1>3
  <2>3. Coming \subseteq Coming' \cup {j}
    BY <1>2, <2>2 DEF Coming, Message
  <2>. QED
    BY <2>1, <2>3
<1>6. AskedJobs' = AskedJobs
  BY <1>2 DEF AskedJobs, Asked
<1>7. AbstractCluster' = IF Abstract!Admits(j) THEN Abstract!WithTask(AbstractCluster, j)
                                               ELSE AbstractCluster
  <2>1. Abstract!Admits(j) <=> desc[j].procs =< NbNodes /\ DeadlineOpen(j)
    BY PlannerTask
  <2>2. Abstract!WithTask(AbstractCluster, j) = Tasked(state, gantt, queues, reserved, j)
    BY <1>1, PlannerTask
  <2>3. Abstract!Admits(j) => AbstractCluster' = Tasked(state, gantt, queues, reserved, j)
    BY <1>1, <1>2, <2>1 DEF Tasked
  <2>4. ~ Abstract!Admits(j) => AbstractCluster' = AbstractCluster
    BY <1>1, <1>2, <2>1
  <2>. QED
    BY <2>2, <2>3, <2>4
<1>. QED
  BY <1>1, <1>2, <1>4, <1>5, <1>6, <1>7 DEF Abstract!Submit, Plain

(* reserve_slot books a slot or not.                                       *)
LEMMA ReserveBooks ==
  ASSUME Orderly, RefInv, OrderInv', NEW j \in Jobs, ReserveSlot(j)
  PROVE  Abstract!Book(j)
<1>. DEFINE r == Message("SB_RES", j)
            d == desc[j]
<1>1. /\ Plain /\ Plain'
      /\ AbstractCluster = Seen(state, gantt, queues, reserved)
      /\ AbstractCluster' = Seen(state', gantt', queues', reserved')
  BY StepSeen DEF RefInv
<1>2. /\ TypeInv /\ Walls /\ BookingsFree /\ BookingsHeld /\ StackAsked
  BY DEF RefInv, OrderInv, PlanInv, TableInv, TypeInv, Records, Bookings
<1>3. /\ r \in stack /\ stack' = stack \ {r} /\ r.name = "SB_RES" /\ r.job = j
      /\ UNCHANGED <<clock, desc, state, queues, loadPos>>
  BY DEF ReserveSlot, Handle, Message, loadVars
<1>4. r \in Requests /\ req[r] = "await" /\ r \in Asked
  BY <1>2, <1>3 DEF StackAsked, RequestKinds, BookingsHeld, Asked
<1>5. gantt.start[j] = d.start /\ gantt.wall[j] = d.wall
  BY <1>2, <1>3, <1>4 DEF BookingsFree, Walls
<1>6. /\ req' = [req EXCEPT ![r] = "SB_OK"] \/ req' = [req EXCEPT ![r] = "SB_KO"]
      /\ IF EarliestStart(gantt, d.procs, d.start, d.wall) = d.start
           THEN /\ reserved' = Append(reserved, j)
                /\ gantt' = Accept(gantt, j, CbfBid(gantt, d.procs, d.start, d.wall))
           ELSE UNCHANGED <<reserved, gantt>>
  BY <1>5 DEF ReserveSlot
<1>7. AskedJobs' = AskedJobs \ {j} /\ j \in AskedJobs
  <2>1. \A o \in Requests : o # r => o.job # j
    BY <1>4, OrderlyRequest
  <2>2. req \in [Requests -> {"new", "sent", "await"} \cup Answers]
    BY <1>2 DEF TypeInv, TypeOK
  <2>3. \A o \in Requests : req'[o] = req[o] \/ o = r
    BY <1>4, <1>6, <2>2
  <2>4. req'[r] \notin {"new", "sent", "await"}
    BY <1>4, <1>6, <2>2
  <2>. HIDE DEF r
  <2>5. \A o : o \in Asked' <=> o \in Asked /\ o # r
    BY <2>2, <2>3, <2>4 DEF Asked
  <2>6. r \in Asked /\ r.job = j /\ \A o \in Asked : o \in Requests
    BY <1>3, <1>4 DEF Asked
  <2>. QED
    BY <2>1, <2>5, <2>6 DEF AskedJobs
<1>8. Coming' = Coming
  BY <1>3 DEF Coming
<1>9. AbstractCluster' = IF Abstract!Bookable(AbstractCluster, j)
                           THEN Abstract!WithReservation(AbstractCluster, j)
                           ELSE AbstractCluster
  <2>1. Abstract!Bookable(AbstractCluster, j)
          <=> EarliestStart(gantt, d.procs, d.start, d.wall) = d.start
    BY <1>1, PlannerReservation
  <2>2. Abstract!WithReservation(AbstractCluster, j)
          = Seen(state, Accept(gantt, j, CbfBid(gantt, d.procs, d.start, d.wall)),
                 queues, Append(reserved, j))
    BY <1>1, PlannerReservation
  <2>. HIDE DEF d
  <2>. QED
    BY <1>1, <1>3, <1>6, <2>1, <2>2
<1>. QED
  BY <1>1, <1>3, <1>7, <1>8, <1>9 DEF Abstract!Book, Plain

(* The trace of a job is kept once, in the reservations or in its queue.   *)
LEMMA UntraceKeeps ==
  ASSUME OrderInv, NEW j \in Jobs, Untrace(j)
  PROVE  /\ reserved' = Keep(reserved, Jobs \ {j})
         /\ queues' = [p \in Queues |-> Keep(queues[p], Jobs \ {j})]
<1>. DEFINE w == QueueOf(j)
            K(q) == Keep(q, Jobs \ {j})
<1>1. /\ reserved \in Seq(Jobs) /\ queues \in [Queues -> Seq(Jobs)] /\ w \in Queues
      /\ ReservedOnce /\ ReservedAccepted /\ Once(queues) /\ Filed /\ Len(queues) = NbQueues
  <2>1. queues \in [Queues -> Seq(Jobs)] /\ desc \in [Jobs -> Descriptions]
    BY DEF OrderInv, PlanInv, TableInv, TypeInv, TypeOK
  <2>2. Len(queues) = NbQueues
    BY <2>1, QueuesLen
  <2>3. w \in Queues
    BY <2>1, QueueOfType
  <2>. QED
    BY <2>1, <2>2, <2>3 DEF OrderInv, PlanInv, TableInv, TypeInv, TypeOK, Records, Tracing
<1>2. \A p \in Queues : Holds(queues[p], j) => p = w /\ ~ Holds(reserved, j)
  <2>1. ASSUME NEW p \in Queues, Holds(queues[p], j), Holds(reserved, j) PROVE FALSE
    <3>1. PICK k \in 1 .. Len(Load) : Load[k] = j
      BY <1>1, <2>1 DEF Filed
    <3>2. PICK r \in Requests : r = Message("SB_RES", j)
      BY <1>1, <2>1 DEF ReservedAccepted, Reserved
    <3>3. r.name = "SB_RES" /\ r.job = j
      BY <3>2 DEF Message
    <3>. QED
      BY <3>1, <3>3, LoadOnceAssumption
  <2>. QED
    BY <1>1, <2>1 DEF Filed
<1>. HIDE DEF w
<1>3. ASSUME NEW p \in Queues, ~ Holds(queues[p], j) PROVE K(queues[p]) = queues[p]
  <2>1. queues[p] \in Seq(Jobs)
    BY <1>1
  <2>. QED
    BY <1>3, <2>1, KeepAll
<1>4. CASE /\ Holds(reserved, j) /\ reserved' = Removed(reserved, j) /\ UNCHANGED queues
  <2>1. reserved' = K(reserved)
    BY <1>1, <1>4, KeepRemoves DEF ReservedOnce
  <2>2. \A p \in Queues : K(queues[p]) = queues[p]
    BY <1>2, <1>3, <1>4
  <2>3. queues = [p \in Queues |-> queues[p]]
    BY <1>1
  <2>. HIDE DEF K
  <2>4. queues' = [p \in Queues |-> K(queues[p])]
    BY <1>4, <2>2, <2>3
  <2>. QED
    BY <2>1, <2>4 DEF K
<1>5. CASE /\ Holds(queues[w], j) /\ UNCHANGED reserved
           /\ queues' = [queues EXCEPT ![w] = Removed(@, j)]
  <2>1. ~ Holds(reserved, j)
    BY <1>1, <1>2, <1>5
  <2>2. reserved' = K(reserved)
    BY <1>1, <1>5, <2>1, KeepAll
  <2>3. /\ queues[w] \in Seq(Jobs)
        /\ \A i, k \in 1 .. Len(queues[w]) : queues[w][i] = queues[w][k] => i = k
    <3>1. w \in 1 .. Len(queues)
      BY <1>1 DEF Queues
    <3>. QED
      BY <1>1, <3>1 DEF Once
  <2>4. K(queues[w]) = Removed(queues[w], j)
    BY <1>5, <2>3, KeepRemoves
  <2>5. \A p \in Queues : p # w => K(queues[p]) = queues[p]
    BY <1>2, <1>3
  <2>. HIDE DEF K
  <2>6. queues' = [p \in Queues |-> K(queues[p])]
    BY <1>1, <1>5, <2>4, <2>5
  <2>. QED
    BY <2>2, <2>6 DEF K
<1>. QED
  BY <1>4, <1>5 DEF Untrace, w

(* check_ACK ends a job.                                                   *)
LEMMA AckFinishes ==
  ASSUME Orderly, RefInv, OrderInv', NEW j \in Jobs, CheckAck(j)
  PROVE  Abstract!Finish(j)
<1>. DEFINE m == Message("SB_ACK", j)
            d == desc[j]
            K(q) == Keep(q, Jobs \ {j})
            s2 == [state EXCEPT ![j] = "DONE"]
            q2 == [p \in Queues |-> K(queues[p])]
            k == Seen(state, gantt, queues, reserved)
<1>1. /\ Plain /\ Plain' /\ AbstractCluster = k
      /\ AbstractCluster' = Seen(state', gantt', queues', reserved')
  BY StepSeen DEF RefInv
<1>2. /\ TypeInv /\ Walls /\ Execution /\ Pace /\ AcksSound /\ clock \in Nat /\ OrderInv
      /\ state \in [Jobs -> JobStates]
  BY DEF RefInv, OrderInv, PlanInv, TableInv, TypeInv, TypeOK, Records, Execution, ExecInv
<1>3. /\ m \in stack /\ stack' = stack \ {m} /\ m.name = "SB_ACK" /\ m.job = j
      /\ UNCHANGED <<clock, desc, req, loadPos>>
      /\ state' = s2 /\ Untrace(j) /\ gantt' = Rescheduled(DeleteDone(gantt, j), queues', state')
  BY DEF CheckAck, Handle, Message, loadVars
<1>4. reserved' = K(reserved) /\ queues' = q2
  BY <1>2, <1>3, UntraceKeeps
<1>5. Abstract!WithoutJob(k, j) =
        Seen(s2, Rescheduled(DeleteDone(gantt, j), q2, s2), q2, K(reserved))
  <2>1. Abstract!WithoutJob(Seen(state, gantt, queues, reserved), j)
          = Ended(state, gantt, queues, reserved, j)
    BY PlannerEnd
  <2>. QED
    BY <2>1 DEF Ended
<1>6. AbstractCluster' = Abstract!WithoutJob(AbstractCluster, j)
  <2>. HIDE DEF k, q2, s2, K
  <2>. QED
    BY <1>1, <1>3, <1>4, <1>5
<1>7. state[j] = "PROCESSING"
  BY <1>2, <1>3 DEF AcksSound, Running, Execution
<1>8. Abstract!Traced(k, j)
  <2>1. TracedAt(j)
    BY <1>2, <1>7 DEF OrderInv, PlanInv, Tracing, PlannedTraced, Running
  <2>2. QueueOf(j) \in Queues
    BY <1>2, QueueOfType DEF TypeInv, TypeOK
  <2>3. k.reserved = reserved /\ k.queues = queues
    BY SeenFields
  <2>. HIDE DEF k
  <2>. QED
    BY <2>1, <2>2, <2>3 DEF Abstract!Traced, TracedAt, Holds, Abstract!Queues, Queues
<1>9. Abstract!MayEnd(k, j)
  <2>1. k.state = state /\ k.gantt = gantt
    BY SeenFields
  <2>. HIDE DEF k
  <2>2. clock = Left(j)
    BY <1>2, <1>3 DEF Pace
  <2>3. /\ Left(j) =< End(gantt, j) /\ gantt.start[j] \in Nat
        /\ Left(j) = gantt.start[j] + Stay(d)
    BY <1>2, Dates
  <2>4. /\ d.input \in Nat /\ d.output \in Nat /\ Cut(d) \in Nat /\ gantt.wall[j] = d.wall
    BY <1>2, OrderlyJob DEF Walls
  <2>5. Stay(d) = d.input + Cut(d) + d.output
    BY DEF Stay
  <2>6. clock >= gantt.start[j] + Cut(d)
    <3>. HIDE DEF d
    <3>. QED
      BY <2>2, <2>3, <2>4, <2>5
  <2>7. Cut(d) = IF d.run < d.wall THEN d.run ELSE d.wall
    <3>1. d.run \in Nat /\ d.wall \in Nat
      BY <1>2 DEF TypeInv, TypeOK, Descriptions
    <3>. HIDE DEF d
    <3>. QED
      BY <3>1 DEF Cut
  <2>8. Abstract!End(gantt, j) = End(gantt, j)
    BY SameSlots
  <2>. QED
    BY <1>7, <2>1, <2>2, <2>3, <2>4, <2>6, <2>7, <2>8 DEF Abstract!MayEnd
<1>10. AskedJobs' = AskedJobs /\ Coming' = Coming
  BY <1>3 DEF AskedJobs, Asked, Coming
<1>. QED
  BY <1>1, <1>3, <1>6, <1>8, <1>9, <1>10 DEF Abstract!Finish, Plain

(* The resource manager starts a job, or changes none.                     *)
LEMMA RmStates ==
  ASSUME OrderInv, RmStep
  PROVE  state' = state \/ \E j \in Startable : state' = [state EXCEPT ![j] = "PROCESSING"]
<1>1. TypeInv
  BY DEF OrderInv, PlanInv, TableInv
<1>2. CASE RmTimeout
  <2>1. /\ rpc = "wait" /\ rmJob # NoJob /\ state' = [state EXCEPT ![rmJob] = "PROCESSING"]
    BY <1>2 DEF RmTimeout, TimerDue, Dispatch
  <2>2. rmJob \in Startable
    BY <1>1, <2>1 DEF OrderInv, PlanInv, ExecInv, TimerSound, Startable, TypeInv, TypeOK
  <2>. QED
    BY <2>1, <2>2
<1>3. CASE RmDrained \/ RmNext
  <2>1. NextWakeup(pool)
    BY <1>3 DEF RmDrained, RmNext
  <2>. QED
    BY <1>1, <2>1, NextWakeupStarts
<1>4. CASE (\E s \in Sups : ReceiveAttach(s)) \/ ReceiveUpdate \/ RunTaken
  BY <1>4 DEF ReceiveAttach, ReceiveUpdate, RunTaken, clusterVars
<1>. QED
  BY <1>2, <1>3, <1>4 DEF RmStep

(* The table of Cluster has a job where that of the batch has it.          *)
LEMMA SeenInTable ==
  ASSUME NEW st, NEW g, NEW qs, NEW rs, NEW j
  PROVE  j \in Abstract!InTable(Seen(st, g, qs, rs)) <=> \E n \in Nodes : j \in Planned(g, n)
<1>. DEFINE k == Seen(st, g, qs, rs)
<1>1. k.gantt = g
  BY SeenFields
<1>. HIDE DEF k
<1>2. Abstract!InTable(k) = UNION {Planned(g, o) : o \in Nodes}
  BY <1>1, SameSlots DEF Abstract!InTable
<1>. QED
  BY <1>2 DEF k

(* A timer that is over starts a job at its planned date.                  *)
LEMMA RmStarts ==
  ASSUME RefInv, OrderInv', RmStep, StartsOnPlanStep
  PROVE  Abstract!Idle \/ \E j \in Jobs : Abstract!Start(j)
<1>1. /\ UNCHANGED <<clock, desc, gantt, queues, reserved, stack, req, loadPos>>
  BY DEF RmStep, RmTimeout, ReceiveAttach, ReceiveUpdate, RmDrained, RunTaken, RmNext,
         clusterVars, batchVars, loadVars
<1>2. Coming' = Coming /\ AskedJobs' = AskedJobs
  BY <1>1, SameAsked DEF AskedJobs
<1>3. CASE state' = state
  BY <1>1, <1>2, <1>3, Stutters DEF RefInv
<1>4. ASSUME NEW j \in Startable, state' = [state EXCEPT ![j] = "PROCESSING"]
      PROVE  Abstract!Start(j)
  <2>. DEFINE k == Seen(state, gantt, queues, reserved)
              s2 == [state EXCEPT ![j] = "PROCESSING"]
              e == [k EXCEPT !.state = s2]
  <2>1. /\ Plain /\ Plain' /\ AbstractCluster = k
        /\ AbstractCluster' = Seen(state', gantt', queues', reserved')
    BY StepSeen DEF RefInv
  <2>2. /\ k = [x \in Fields |-> k[x]] /\ k.state = state /\ k.gantt = gantt
        /\ k.queues = queues /\ k.reserved = reserved
    BY SeenFields
  <2>3. /\ j \in Jobs /\ state \in [Jobs -> JobStates] /\ state[j] \in {"WAITING", "RESERVED"}
    BY DEF Startable, RefInv, OrderInv, PlanInv, TableInv, TypeInv, TypeOK
  <2>4. state'[j] = "PROCESSING" /\ state[j] # "PROCESSING"
    BY <1>4, <2>3
  <2>5. clock = gantt.start[j] /\ NodesOf(j) # {}
    BY <2>3, <2>4 DEF StartsOnPlanStep
  <2>6. PICK n \in Nodes : j \in Planned(gantt, n)
    BY <2>5 DEF NodesOf
  <2>7. j \in Abstract!InTable(k)
    BY <2>6, SeenInTable
  <2>. HIDE DEF k
  <2>8. Abstract!Due(k, j)
    BY <2>2, <2>3, <2>5, <2>7 DEF Abstract!Due, Abstract!ToStart
  <2>9. e = Seen(s2, gantt, queues, reserved)
    <3>. HIDE DEF s2
    <3>1. /\ e = [x \in Fields |-> e[x]] /\ e.state = s2 /\ e.gantt = gantt
          /\ e.queues = queues /\ e.reserved = reserved
      BY <2>2 DEF Fields
    <3>. HIDE DEF e
    <3>. QED
      BY <3>1, SeenEqual
  <2>10. [k EXCEPT !.state[j] = "PROCESSING"] = e
    BY <2>2, SeenPlace
  <2>. HIDE DEF e
  <2>11. AbstractCluster' = [AbstractCluster EXCEPT !.state[j] = "PROCESSING"]
    <3>1. AbstractCluster' = Seen(s2, gantt, queues, reserved)
      BY <1>1, <1>4, <2>1
    <3>. HIDE DEF s2
    <3>. QED
      BY <2>1, <2>9, <2>10, <3>1
  <2>. QED
    BY <1>1, <1>2, <2>1, <2>8, <2>11 DEF Abstract!Start, Plain
<1>. QED
  BY <1>3, <1>4, RmStates DEF Startable, RefInv

(* What is planned is a job.                                               *)
LEMMA PlannedJob ==
  ASSUME NEW g \in Tables, NEW n \in Nodes, NEW x \in Planned(g, n)
  PROVE  x \in Jobs
<1>1. g.chart[n] \in Seq(Jobs)
  BY DEF Tables
<1>. QED
  BY <1>1 DEF Planned

(* Time passes when all that was planned for now is done.                  *)
LEMMA TickPasses ==
  ASSUME Orderly, RefInv, OrderInv', Tick, OnTimeStep, ~ CircularWait
  PROVE  Abstract!Tick
<1>. DEFINE k == Seen(state, gantt, queues, reserved)
<1>1. /\ ~ Busy /\ clock' = clock + 1
      /\ UNCHANGED <<desc, state, gantt, queues, reserved, stack, req, loadPos, loadWake>>
  BY DEF Tick, clusterVars, batchVars, loadVars
<1>2. /\ Plain /\ Plain' /\ AbstractCluster = k
      /\ AbstractCluster' = Seen(state', gantt', queues', reserved')
  BY StepSeen DEF RefInv
<1>3. k.state = state /\ k.gantt = gantt
  BY SeenFields
<1>4. /\ TypeInv /\ Walls /\ Execution /\ clock \in Nat /\ desc \in Workloads
      /\ desc \in [Jobs -> Descriptions] /\ loadPos \in 1 .. Len(Load) + 1 /\ Len(Load) \in Nat
      /\ gantt \in Tables /\ gantt.start \in [Jobs -> Nat]
  <2>1. TypeInv /\ Walls /\ Execution
    BY DEF RefInv, OrderInv, PlanInv, TableInv, Records
  <2>2. /\ clock \in Nat /\ desc \in Workloads /\ desc \in [Jobs -> Descriptions]
        /\ loadPos \in 1 .. Len(Load) + 1 /\ gantt \in Tables
    BY <2>1 DEF TypeInv, TypeOK
  <2>. QED
    BY <2>1, <2>2, LoadAssumption DEF Tables
<1>5. stack = {} /\ rpc # "run"
  BY <1>1, NotBusy DEF RefInv, OrderInv
<1>6. ASSUME NEW j \in Abstract!ToStart(k) PROVE gantt.start[j] > clock
  <2>1. j \in Abstract!InTable(k) /\ k.state[j] \in {"WAITING", "RESERVED"}
    BY DEF Abstract!ToStart
  <2>2. PICK n \in Nodes : j \in Planned(gantt, n)
    BY <2>1, SeenInTable
  <2>3. j \in Jobs /\ j \in Startable
    BY <1>3, <1>4, <2>1, <2>2, PlannedJob DEF Startable
  <2>4. gantt.start[j] >= clock' /\ gantt.start[j] \in Nat
    BY <1>1, <1>4, <2>2, <2>3 DEF OnTimeStep
  <2>. QED
    BY <1>1, <1>4, <2>4
<1>7. ASSUME NEW j \in Abstract!Running(k) PROVE Abstract!End(gantt, j) > clock
  <2>1. j \in Abstract!InTable(k) /\ state[j] = "PROCESSING"
    BY <1>3 DEF Abstract!Running
  <2>2. j \in Jobs
    <3>1. PICK n \in Nodes : j \in Planned(gantt, n)
      BY <2>1, SeenInTable
    <3>. QED
      BY <1>4, <3>1, PlannedJob
  <2>3. PICK s \in Sups : sjob[s] = j
    BY <1>4, <1>5, <2>1, <2>2 DEF Execution, InHands
  <2>4. spc[s] # "idle"
    BY <2>2, <2>3, JobsAssumption DEF RefInv, OrderInv, PlanInv, ExecInv, SupsSound
  <2>5. Executing(s)
    BY <1>1, <2>4, TickSups DEF RefInv
  <2>6. clock < Left(j)
    BY <1>1, <2>3, <2>5, ExecutingEarly DEF RefInv
  <2>7. Left(j) \in Nat /\ Left(j) =< End(gantt, j) /\ End(gantt, j) \in Nat
    BY <1>4, <2>2, Dates
  <2>8. Abstract!End(gantt, j) = End(gantt, j)
    BY SameSlots
  <2>. QED
    BY <1>4, <2>6, <2>7, <2>8
<1>8. ASSUME NEW j \in Coming PROVE desc[j].submit > clock
  <2>1. PICK i \in loadPos .. Len(Load) : j = Load[i]
    BY <1>5 DEF Coming
  <2>2. /\ loadPos \in 1 .. Len(Load) /\ i \in 1 .. Len(Load) /\ loadPos =< i
    BY <1>4, <2>1
  <2>3. clock < loadWake /\ loadWake = desc[Load[loadPos]].submit
    BY <2>2, TickPunctual DEF RefInv, OrderInv, SubmitInv, Punctual
  <2>4. desc[Load[loadPos]].submit \in Nat /\ desc[j].submit \in Nat
    <3>1. Load[loadPos] \in Jobs /\ j \in Jobs
      BY <2>1, <2>2, LoadAssumption
    <3>. QED
      BY <1>4, <3>1 DEF Descriptions
  <2>5. desc[Load[loadPos]].submit =< desc[j].submit
    BY <1>4, <2>1, <2>2, <2>4 DEF Orderly, Sorted
  <2>. QED
    BY <1>4, <2>3, <2>4, <2>5
<1>. HIDE DEF k
<1>9. Abstract!Settled(k)
  BY <1>3, <1>6, <1>7 DEF Abstract!Settled
<1>10. Coming' = Coming /\ AskedJobs' = AskedJobs
  BY <1>1, SameAsked DEF AskedJobs
<1>11. AbstractCluster' = AbstractCluster
  BY <1>1, <1>2 DEF k
<1>. QED
  BY <1>1, <1>2, <1>8, <1>9, <1>10, <1>11 DEF Abstract!Tick, Plain

-----------------------------------------------------------------------------
(* What the batch receives is none of the planner's business.              *)
LEMMA BatchStepStutters ==
  ASSUME Orderly, RefInv, OrderInv', BatchStep
  PROVE  Abstract!Idle
<1>. DEFINE Goal == Coming' = Coming /\ AskedJobs' = AskedJobs
<1>1. /\ UNCHANGED <<clock, desc, state, gantt, queues, reserved>>
  BY DEF BatchStep, ReceiveAck, ReceiveTask, ReceiveRequest, SortStack, Reply, Resume,
         BatchTakes, clusterVars
<1>2. ASSUME NEW STATE name, NEW STATE j, name # "SB_TASK", loadPos' = loadPos,
             stack' = stack \cup {Message(name, j)}
      PROVE  Coming' = Coming
  <2>1. Message(name, j).name # "SB_TASK"
    BY <1>2 DEF Message
  <2>2. {o \in stack' : o.name = "SB_TASK"} = {o \in stack : o.name = "SB_TASK"}
    BY <1>2, <2>1
  <2>. QED
    BY <1>2, <2>2 DEF Coming
<1>3. ASSUME NEW s \in Sups, ReceiveAck(s) PROVE Goal
  <2>1. /\ stack' = stack \cup {Message("SB_ACK", sjob[s])} /\ UNCHANGED <<loadPos, req>>
    BY <1>3 DEF ReceiveAck, BatchTakes, loadVars
  <2>2. Coming' = Coming
    BY <1>2, <2>1
  <2>. QED
    BY <2>1, <2>2 DEF AskedJobs, Asked
<1>4. ASSUME ReceiveTask PROVE Goal
  <2>. DEFINE m == Message("SB_TASK", Load[loadPos])
  <2>1. /\ loadPos =< Len(Load) /\ loadPos' = loadPos + 1 /\ stack' = stack \cup {m} /\ req' = req
    BY <1>4 DEF ReceiveTask, TaskPending, BatchTakes, RefInv, OrderInv, PlanInv, TableInv, TypeInv,
       HoldersKnown
  <2>2. loadPos \in Nat /\ Len(Load) \in Nat
    BY LoadAssumption DEF RefInv, OrderInv, PlanInv, TableInv, TypeInv, TypeOK
  <2>3. m.name = "SB_TASK" /\ m.job = Load[loadPos]
    BY DEF Message
  <2>4. {Load[i] : i \in loadPos .. Len(Load)}
          = {Load[i] : i \in loadPos + 1 .. Len(Load)} \cup {Load[loadPos]}
    BY <2>1, <2>2
  <2>. HIDE DEF m
  <2>5. {o.job : o \in {o \in stack' : o.name = "SB_TASK"}}
          = {o.job : o \in {o \in stack : o.name = "SB_TASK"}} \cup {Load[loadPos]}
    BY <2>1, <2>3
  <2>6. Coming' = Coming
    BY <2>1, <2>4, <2>5 DEF Coming
  <2>. QED
    BY <2>1, <2>6 DEF AskedJobs, Asked
<1>5. ASSUME NEW r \in Requests, ReceiveRequest(r) PROVE Goal
  <2>1. /\ req[r] = "sent" /\ stack' = stack \cup {Message(r.name, r.job)} /\ loadPos' = loadPos
        /\ req' = [req EXCEPT ![r] = "await"]
    BY <1>5 DEF ReceiveRequest, RequestPending, BatchTakes, loadVars
  <2>2. r.name # "SB_TASK"
    BY OrderlyRequest
  <2>3. Coming' = Coming
    BY <1>2, <2>1, <2>2
  <2>4. req \in [Requests -> {"new", "sent", "await"} \cup Answers]
    BY DEF RefInv, OrderInv, PlanInv, TableInv, TypeInv, TypeOK
  <2>5. Asked' = Asked
    BY <2>1, <2>4 DEF Asked
  <2>. QED
    BY <2>3, <2>5 DEF AskedJobs
<1>6. ASSUME SortStack \/ Resume PROVE Goal
  BY <1>6 DEF SortStack, Resume, loadVars, AskedJobs, Asked, Coming
<1>7. ~ Reply
  BY DEF Reply, RefInv, OrderInv, PlanInv, NoCancelPending
<1>8. Goal
  BY <1>3, <1>4, <1>5, <1>6, <1>7 DEF BatchStep
<1>. QED
  BY <1>1, <1>8, Stutters DEF RefInv

(* Nor is how the supervisors execute, who asks and how the servers end.   *)
LEMMA OthersStutter ==
  ASSUME Orderly, RefInv, OrderInv',
         \/ \E s \in Sups : Supervise(s)
         \/ \E r \in Requests : ClientSend(r)
         \/ LoadSend
         \/ EndOfTime
         \/ UNCHANGED vars
  PROVE  Abstract!Idle
<1>1. UNCHANGED <<clock, desc, gantt, queues, reserved, stack, loadPos>>
  BY DEF Supervise, SupStart, NodeReceive, InputReceived, SupFinish, OutputReturned, TellBatch,
         SupFrame, ClientSend, LoadSend, EndOfTime, vars, clusterVars, batchVars, loadVars
<1>2. state' = state
  <2>1. ASSUME NEW s \in Sups, Supervise(s) PROVE state' = state
    <3>1. CASE Execute(s) /\ spc[s] \in {"start", "receiving"}
      <4>1. spc[s] # "idle"
        BY <3>1
      <4>. QED
        BY <3>1, <4>1, ExecuteRuns DEF RefInv
    <3>. QED
      BY <2>1, <3>1 DEF Supervise, SupStart, NodeReceive, InputReceived, SupFinish,
         OutputReturned, TellBatch
  <2>. QED
    BY <2>1 DEF ClientSend, LoadSend, EndOfTime, vars, clusterVars
<1>3. Asked' = Asked
  <2>1. req \in [Requests -> {"new", "sent", "await"} \cup Answers]
    BY DEF RefInv, OrderInv, PlanInv, TableInv, TypeInv, TypeOK
  <2>2. req' = req \/ \E r \in Requests : req[r] = "new" /\ req' = [req EXCEPT ![r] = "sent"]
    BY DEF Supervise, SupStart, NodeReceive, InputReceived, SupFinish, OutputReturned, TellBatch,
           SupFrame, ClientSend, LoadSend, EndOfTime, vars
  <2>3. \A r \in Requests : req'[r] = req[r] \/ (req[r] = "new" /\ req'[r] = "sent")
    BY <2>1, <2>2
  <2>. QED
    BY <2>3 DEF Asked
<1>4. Coming' = Coming /\ AskedJobs' = AskedJobs
  BY <1>1, <1>3 DEF Coming, AskedJobs
<1>. QED
  BY <1>1, <1>2, <1>4, Stutters DEF RefInv

-----------------------------------------------------------------------------
(* When the servers come to wait for each other.                           *)

(* Messages do not move the jobs that run.                                 *)
LEMMA HandledStarts ==
  ASSUME Orderly, OrderInv, NEW j \in Jobs, HandleMessage(j)
  PROVE  \A x \in Jobs : state[x] = "PROCESSING" => gantt'.start[x] = gantt.start[x]
<1>1. ASSUME ScheduleTask(j)
      PROVE  \A x \in Jobs : state[x] = "PROCESSING" => gantt'.start[x] = gantt.start[x]
  <2>1. \A x \in Jobs : x # j => gantt'.start[x] = gantt.start[x]
    BY <1>1, ScheduleTaskRecords
  <2>2. state[j] # "PROCESSING"
    <3>1. Handle("SB_TASK", j)
      BY <1>1 DEF ScheduleTask
    <3>2. j \in Coming
      BY <3>1, HandledComing DEF OrderInv, PlanInv
    <3>. QED
      BY <3>2 DEF OrderInv, Records, Unstarted, Startable
  <2>. QED
    BY <2>1, <2>2
<1>2. ASSUME ReserveSlot(j)
      PROVE  \A x \in Jobs : state[x] = "PROCESSING" => gantt'.start[x] = gantt.start[x]
  <2>1. \A x \in Jobs : x # j => gantt'.start[x] = gantt.start[x]
    BY <1>2, ReserveSlotRecords
  <2>2. Message("SB_RES", j) \in Asked /\ Message("SB_RES", j).job = j
    BY <1>2, ReserveSlotSlots DEF OrderInv, Message
  <2>3. state[j] # "PROCESSING"
    BY <2>2 DEF OrderInv, Records, Unstarted, Startable
  <2>. QED
    BY <2>1, <2>3
<1>3. CASE CheckAck(j)
  BY <1>3, CheckAckRecords
<1>4. ~ CancelTask(j)
  BY DEF CancelTask, Handle, Message, OrderInv, PlanInv, NoCancelPending
<1>. QED
  BY <1>1, <1>2, <1>3, <1>4 DEF HandleMessage

(* A supervisor that sends SB_ACK was on the way to it before.             *)
LEMMA AckBefore ==
  ASSUME TypeInv, [Next]_vars, NEW s \in Sups, spc'[s] = "ack"
  PROVE  spc[s] \in {"told", "ack"} /\ sjob'[s] = sjob[s]
<1>1. spc \in [Sups -> SupPcs] /\ sjob \in [Sups -> Jobs \cup {NoJob}]
  BY DEF TypeInv, TypeOK
<1>2. CASE UNCHANGED <<spc, sjob>>
  BY <1>2
<1>3. ASSUME NEW u \in Sups, ReceiveAck(u) PROVE spc[s] \in {"told", "ack"} /\ sjob'[s] = sjob[s]
  BY <1>1, <1>3 DEF ReceiveAck
<1>4. ASSUME NEW u \in Sups, ReceiveAttach(u)
      PROVE  spc[s] \in {"told", "ack"} /\ sjob'[s] = sjob[s]
  BY <1>1, <1>4 DEF ReceiveAttach
<1>5. ASSUME NEW u \in Sups, Supervise(u)
      PROVE  spc[s] \in {"told", "ack"} /\ sjob'[s] = sjob[s]
  <2>1. sjob' = sjob
    BY <1>5 DEF Supervise, SupStart, NodeReceive, InputReceived, SupFinish, OutputReturned,
       TellBatch, SupFrame
  <2>2. CASE TellBatch(u)
    BY <1>1, <2>1, <2>2 DEF TellBatch
  <2>3. CASE ~ TellBatch(u)
    <3>1. \E pc \in SupPcs \ {"told", "ack"} : spc' = [spc EXCEPT ![u] = pc]
      BY <1>5, <2>3 DEF Supervise, SupStart, NodeReceive, InputReceived, SupFinish,
         OutputReturned, Execute, SupPcs
    <3>. QED
      BY <1>1, <2>1, <3>1
  <2>. QED
    BY <2>2, <2>3
<1>6. CASE RunTaken
  <2>1. rmSup \in Sups
    BY <1>6 DEF RunTaken, TypeInv, HoldersKnown
  <2>. QED
    BY <1>1, <1>6, <2>1 DEF RunTaken
<1>. QED
  BY <1>2, <1>3, <1>4, <1>5, <1>6 DEF Next, System, Terminated, vars, supVars, HandleMessage,
     ScheduleTask, ReserveSlot, CheckAck, CancelTask, Handle, BatchStep, ReceiveTask,
     ReceiveRequest, SortStack, Reply, Resume, RmStep, RmTimeout, ReceiveUpdate, RmDrained, RmNext,
     LoadSend, Tick, EndOfTime, ClientSend

(* The job a supervisor is sent was chosen before, or is now.              *)
LEMMA RunBefore ==
  ASSUME OrderInv, [Next]_vars, rpc' = "run"
  PROVE  \/ rpc = "run" /\ rmJob' = rmJob
         \/ RmStep /\ rmJob' \in Startable
<1>1. TypeInv /\ TimerSound
  BY DEF OrderInv, PlanInv, ExecInv
<1>2. CASE RmStep
  <2>1. CASE RmTimeout
    <3>1. rpc = "wait" /\ rmJob # NoJob /\ rmJob' = rmJob
      BY <2>1 DEF RmTimeout, TimerDue, Dispatch
    <3>2. rmJob \in Startable
      BY <1>1, <3>1 DEF TimerSound, Startable, TypeInv, TypeOK
    <3>. QED
      BY <1>2, <3>1, <3>2
  <2>2. CASE RmDrained \/ RmNext
    <3>1. NextWakeup(pool)
      BY <2>2 DEF RmDrained, RmNext
    <3>. QED
      BY <1>1, <1>2, <3>1, NextWakeupStarts
  <2>3. ~ (\E s \in Sups : ReceiveAttach(s)) /\ ~ ReceiveUpdate /\ ~ RunTaken
    BY DEF ReceiveAttach, ReceiveUpdate, RunTaken
  <2>. QED
    BY <1>2, <2>1, <2>2, <2>3 DEF RmStep
<1>3. CASE ~ RmStep
  BY <1>3 DEF Next, System, Terminated, vars, rmVars, HandleMessage, ScheduleTask, ReserveSlot,
     CheckAck, CancelTask, Handle, BatchStep, ReceiveAck, ReceiveTask, ReceiveRequest, SortStack,
     Reply, Resume, BatchTakes, Supervise, SupStart, NodeReceive, InputReceived, SupFinish,
     OutputReturned, TellBatch, SupFrame, LoadSend, Tick, EndOfTime, ClientSend
<1>. QED
  BY <1>2, <1>3

(* Only messages change the table.                                         *)
LEMMA GanttMoves ==
  ASSUME [Next]_vars, ~ \E j \in Jobs : HandleMessage(j)
  PROVE  gantt' = gantt
BY DEF Next, System, Terminated, vars, clusterVars, BatchStep, ReceiveAck, ReceiveTask,
   ReceiveRequest, SortStack, Reply, Resume, BatchTakes, RmStep, RmTimeout, ReceiveAttach,
   ReceiveUpdate, RmDrained, RunTaken, RmNext, Supervise, SupStart, NodeReceive, InputReceived,
   SupFinish, OutputReturned, TellBatch, SupFrame, LoadSend, Tick, EndOfTime, ClientSend

(* Those who have a job run it.                                            *)
Handed ==
  /\ rpc = "run" => state[rmJob] = "PROCESSING"
  /\ \A s \in Sups : spc[s] # "idle" => sjob[s] \in Jobs /\ state[sjob[s]] = "PROCESSING"

(* After a step too.                                                       *)
LEMMA HandedNext == OrderInv' => Handed'
<1>1. OrderInv => Handed
  BY InHandsRunning DEF Handed
<1>. QED
  BY <1>1, PTL

(***************************************************************************)
(* RUN is sent at the planned start of its job, to a supervisor whose job  *)
(* has just ended.                                                         *)
(***************************************************************************)
LEMMA CircleForms ==
  ASSUME Orderly, RefInv, OrderInv', [Next]_vars, StartsOnPlanStep, ~ CircularWait, CircularWait'
  PROVE  Abstract!MayStop(AbstractCluster')
<1>. DEFINE s == rmSup'
            i == rmJob'
            j == sjob[s]
            k == Seen(state', gantt', queues', reserved')
<1>1. bpc' = "update" /\ rpc' = "run" /\ spc'[s] = "ack"
  BY DEF CircularWait
<1>2. /\ TypeInv /\ Walls /\ Pace /\ OrderInv /\ clock \in Nat
  BY DEF RefInv, OrderInv, PlanInv, TableInv, TypeInv, TypeOK, Records, Execution
<1>3. /\ TypeInv' /\ Walls' /\ TimerSound' /\ s \in Sups /\ i \in Jobs
  <2>1. TypeInv' /\ Walls' /\ TimerSound'
    BY DEF OrderInv, PlanInv, ExecInv, Records
  <2>. QED
    BY <1>1, <2>1 DEF TypeInv, HoldersKnown
<1>4. spc[s] \in {"told", "ack"} /\ sjob'[s] = j
  BY <1>1, <1>2, <1>3, AckBefore
<1>5. /\ j \in Jobs /\ state'[j] = "PROCESSING" /\ state'[i] = "PROCESSING" /\ i # j
  <2>1. j \in Jobs /\ state'[j] = "PROCESSING" /\ state'[i] = "PROCESSING"
    BY <1>1, <1>3, <1>4, HandedNext DEF Handed
  <2>2. sjob'[s] # i
    BY <1>1, <1>3 DEF TimerSound
  <2>. QED
    BY <1>4, <2>1, <2>2
<1>6. clock = Left(j) /\ state[j] = "PROCESSING"
  <2>1. spc[s] # "idle" /\ spc[s] \in {"attach", "told", "ack"}
    BY <1>4
  <2>2. AtPace(s)
    BY <1>2, <1>3 DEF Pace
  <2>3. clock = Left(j)
    BY <2>1, <2>2 DEF AtPace
  <2>4. state[j] = "PROCESSING"
    BY <1>2, <1>3, <2>1, InHandsRunning
  <2>. QED
    BY <2>3, <2>4
<1>. HIDE DEF s, j
<1>7. UNCHANGED <<clock, desc>>
  <2>1. ~ Tick
    BY DEF Tick, batchVars, rmVars, supVars, CircularWait
  <2>. QED
    BY <2>1, ClockMoves
<1>8. gantt'.start[i] = clock
  <2>1. CASE rpc = "run" /\ i = rmJob
    <3>1. clock = gantt.start[i] /\ state[i] = "PROCESSING"
      BY <1>2, <2>1, InHandsRunning DEF Pace
    <3>2. gantt'.start[i] = gantt.start[i]
      BY <1>2, <1>3, <3>1, HandledStarts, GanttMoves
    <3>. QED
      BY <3>1, <3>2
  <2>2. CASE RmStep /\ i \in Startable
    <3>1. state[i] # "PROCESSING"
      BY <2>2 DEF Startable
    <3>2. clock = gantt.start[i]
      BY <1>3, <1>5, <3>1 DEF StartsOnPlanStep
    <3>3. gantt' = gantt
      BY <2>2 DEF RmStep, RmTimeout, ReceiveAttach, ReceiveUpdate, RmDrained, RunTaken, RmNext,
         clusterVars
    <3>. QED
      BY <3>2, <3>3
  <2>. QED
    BY <1>1, <1>2, <2>1, <2>2, RunBefore
<1>9. gantt'.start[j] = gantt.start[j] /\ gantt'.wall[j] = desc[j].wall
  <2>1. gantt'.start[j] = gantt.start[j]
    BY <1>2, <1>5, <1>6, HandledStarts, GanttMoves
  <2>2. gantt'.wall[j] = desc[j].wall
    BY <1>3, <1>5, <1>7 DEF Walls
  <2>. QED
    BY <2>1, <2>2
<1>10. k.state = state' /\ k.gantt = gantt' /\ AbstractCluster' = k
  <2>1. k.state = state' /\ k.gantt = gantt'
    BY SeenFields
  <2>. QED
    BY <2>1, StepSeen DEF RefInv
<1>. HIDE DEF k
<1>11. Abstract!MayEnd(k, j)
  <2>. DEFINE d == desc[j]
  <2>1. /\ Left(j) =< End(gantt, j) /\ gantt.start[j] \in Nat
        /\ Left(j) = gantt.start[j] + Stay(d)
    BY <1>2, <1>5, Dates
  <2>2. End(gantt', j) = End(gantt, j)
    BY <1>2, <1>5, <1>9 DEF End, Walls
  <2>3. /\ d.input \in Nat /\ d.output \in Nat /\ Cut(d) \in Nat /\ d.wall \in Nat
        /\ d.run \in Nat
    BY <1>2, <1>5, OrderlyJob DEF Descriptions
  <2>4. Stay(d) = d.input + Cut(d) + d.output
    BY DEF Stay
  <2>5. Abstract!End(gantt', j) = End(gantt', j)
    BY SameSlots
  <2>. HIDE DEF d
  <2>6. clock >= gantt.start[j] + Cut(d)
    BY <1>6, <2>1, <2>3, <2>4
  <2>7. Cut(d) = IF d.run < d.wall THEN d.run ELSE d.wall
    BY <2>3 DEF Cut
  <2>. QED
    BY <1>5, <1>6, <1>9, <1>10, <2>1, <2>2, <2>5, <2>6, <2>7 DEF Abstract!MayEnd, d
<1>. QED
  BY <1>3, <1>5, <1>8, <1>10, <1>11 DEF Abstract!MayStop

-----------------------------------------------------------------------------
(* Once they do the planner stands still.                                  *)
LEMMA CircleIsStand ==
  ASSUME Orderly, RefInv, OrderInv', [Next]_vars, CircularWait
  PROVE  Abstract!Stand \/ UNCHANGED Abstract!vars
<1>. USE DEF CircularWait
<1>1. CircularWait'
  BY CircleStands DEF RefInv, OrderInv, PlanInv, TableInv
<1>2. CASE Tick
  <2>1. /\ clock' = clock + 1
        /\ UNCHANGED <<desc, state, gantt, queues, reserved, stack, req, loadPos>>
    BY <1>2 DEF Tick, clusterVars, batchVars, loadVars
  <2>2. Coming' = Coming /\ AskedJobs' = AskedJobs
    BY <2>1, SameAsked DEF AskedJobs
  <2>3. /\ Plain /\ Plain'
        /\ AbstractCluster = Seen(state, gantt, queues, reserved)
        /\ AbstractCluster' = Seen(state', gantt', queues', reserved')
    BY StepSeen DEF RefInv
  <2>. QED
    BY <1>1, <2>1, <2>2, <2>3 DEF Abstract!Stand, Plain
<1>3. ASSUME \/ \E s \in Sups : Supervise(s)
             \/ \E r \in Requests : ClientSend(r)
             \/ LoadSend
             \/ UNCHANGED vars
      PROVE  UNCHANGED Abstract!vars
  BY <1>1, <1>3, OthersStutter DEF Abstract!Idle, Abstract!vars
<1>4. ~ \E j \in Jobs : HandleMessage(j)
  BY DEF HandleMessage, ScheduleTask, ReserveSlot, CheckAck, CancelTask, Handle
<1>5. ~ BatchStep /\ ~ EndOfTime
  BY DEF BatchStep, ReceiveAck, ReceiveTask, ReceiveRequest, SortStack, Reply, Resume, BatchTakes,
     EndOfTime
<1>6. ~ RmStep
  BY DEF RmStep, RmTimeout, TimerDue, ReceiveAttach, ReceiveUpdate, RmDrained, RunTaken, RmNext
<1>. QED
  BY <1>2, <1>3, <1>4, <1>5, <1>6 DEF Next, System, Terminated

(* Before, every step is one of its operations, or none.                   *)
LEMMA StepWorks ==
  ASSUME Orderly, RefInv, OrderInv', [Next]_vars, OnTimeStep, StartsOnPlanStep, ~ CircularWait
  PROVE  Abstract!Work
<1>. DEFINE Goal == \/ Abstract!Tick
                    \/ \E j \in Jobs : \/ Abstract!Submit(j) \/ Abstract!Book(j)
                                       \/ Abstract!Start(j) \/ Abstract!Finish(j)
                    \/ Abstract!Idle
<1>1. ASSUME NEW j \in Jobs, HandleMessage(j) PROVE Goal
  <2>1. ~ CancelTask(j)
    BY DEF CancelTask, Handle, Message, RefInv, OrderInv, PlanInv, NoCancelPending
  <2>2. Abstract!Submit(j) \/ Abstract!Book(j) \/ Abstract!Finish(j)
    BY <1>1, <2>1, TaskSubmits, ReserveBooks, AckFinishes DEF HandleMessage
  <2>. QED
    BY <2>2
<1>2. ASSUME BatchStep PROVE Goal
  BY <1>2, BatchStepStutters
<1>3. ASSUME RmStep PROVE Goal
  BY <1>3, RmStarts
<1>4. ASSUME Tick PROVE Goal
  BY <1>4, TickPasses
<1>5. ASSUME \/ \E s \in Sups : Supervise(s)
             \/ \E r \in Requests : ClientSend(r)
             \/ LoadSend
             \/ EndOfTime
             \/ UNCHANGED vars
      PROVE  Goal
  BY <1>5, OthersStutter
<1>6. Goal
  BY <1>1, <1>2, <1>3, <1>4, <1>5 DEF Next, System, Terminated
<1>7. CircularWait' => Abstract!MayStop(AbstractCluster')
  BY CircleForms
<1>8. CircularWait' \in BOOLEAN
  BY DEF CircularWait
<1>. QED
  BY <1>6, <1>7, <1>8 DEF Abstract!Work

(* Every step is one of the planner, or none.                              *)
LEMMA RefStep ==
  ASSUME Orderly, RefInv, [Next]_vars
  PROVE  RefInv' /\ [Abstract!Next]_Abstract!vars
<1>1. OrderInv' /\ RefInv'
  <2>1. OrderInv'
    BY OrderStep DEF RefInv
  <2>2. SubmitInv'
    BY SubmitStep DEF RefInv, OrderInv, SubmitInv, Orderly
  <2>. QED
    BY <2>1, <2>2 DEF RefInv, SubmitInv
<1>2. OnTimeStep /\ StartsOnPlanStep
  BY PlanStep DEF RefInv, OrderInv, Orderly
<1>3. CASE CircularWait
  BY <1>1, <1>3, CircleIsStand DEF Abstract!Next
<1>4. CASE ~ CircularWait
  BY <1>1, <1>2, <1>4, StepWorks DEF Abstract!Next
<1>. QED
  BY <1>1, <1>3, <1>4

(* At first the planner has nothing, and the file and the clients do.      *)
LEMMA RefInit == Orderly /\ Init => RefInv /\ Abstract!Init
<1>. SUFFICES ASSUME Orderly, Init PROVE RefInv /\ Abstract!Init
  OBVIOUS
<1>1. OrderInv /\ RefInv
  BY OrderInit, SubmitInit DEF RefInv, SubmitInv
<1>2. Plain
  BY <1>1, StateSeen
<1>3. AbstractCluster = Abstract!EmptyCluster
  BY <1>2 DEF Init, Plain, AbstractCluster, Abstract!EmptyCluster, Abstract!Nodes, Nodes,
     Abstract!Queues, Queues
<1>4. stack = {} /\ loadPos = 1
  BY DEF Init
<1>5. Coming \subseteq Jobs /\ \A j \in Coming : \E i \in 1 .. Len(Load) : Load[i] = j
  BY <1>4, LoadAssumption DEF Coming
<1>6. AskedJobs \subseteq Jobs \ Coming
  BY <1>5, OrderlyRequest DEF AskedJobs, Asked
<1>7. clock = 0 /\ ~ CircularWait
  BY DEF Init, CircularWait
<1>. QED
  BY <1>1, <1>2, <1>3, <1>5, <1>6, <1>7 DEF Abstract!Init, Plain

(***************************************************************************)
(* The processes of a cluster, their messages and their timers behave like *)
(* one planner that submits, books, starts and ends jobs atomically: every *)
(* behaviour of BatchSystem is one of Cluster under the mapping of         *)
(* Refinement (batch.c, resource_manager.c).                               *)
(***************************************************************************)
THEOREM Implements == Orderly => (Spec => ImplementsCluster)
<1>. SUFFICES ASSUME Orderly PROVE Spec => ImplementsCluster
  OBVIOUS
<1>1. RefInv /\ [Next]_vars => RefInv' /\ [Abstract!Next]_Abstract!vars
  BY RefStep
<1>2. Init => RefInv /\ Abstract!Init
  BY RefInit
<1>. QED
  BY <1>1, <1>2, PTL DEF Spec, ImplementsCluster, Abstract!Spec
=============================================================================
