------------------------------- MODULE Gantt -------------------------------
(***************************************************************************)
(* The scheduling table of a Simbatch cluster (waiting_queue, the "Gantt   *)
(* diagram" of include/simbatch/cluster.h) and the pure part of the        *)
(* schedulers that write it: src/cluster/scheduling.c, the table functions *)
(* of src/cluster/cluster.c, and the two scheduler plugins that are not    *)
(* marked deprecated, src/plugins/scheduler/fcfs.c and cbf.c.              *)
(*                                                                         *)
(* A table g is a record                                                   *)
(*    g.chart[n]  the jobs planned on node n, in the order of the dynar    *)
(*    g.start[j]  job->start_time, the planned start                       *)
(*    g.wall[j]   job->wall_time, the length of the slot of j              *)
(*    g.nodes[j]  the nodes named by job->mapping                          *)
(*    g.lead[j]   job->mapping[0], the only entry the code ever reads      *)
(* Chart entries are pointers to jobs, hence start and wall are looked up  *)
(* through the job.  Dates (doubles in C) are natural numbers.             *)
(***************************************************************************)
EXTENDS Integers, FiniteSets, Sequences

CONSTANTS NbNodes,  \* cluster->nb_nodes
          Jobs      \* the jobs the simulation ever sees

Nodes == 1 .. NbNodes

(***************************************************************************)
(* NbNodesAssumption is what cluster_new enforces (it aborts without node).*)
(***************************************************************************)
ASSUME NbNodesAssumption == NbNodes \in Nat \ {0}

Tables == [chart : [Nodes -> Seq(Jobs)],
           start : [Jobs -> Nat],
           wall  : [Jobs -> Nat],
           nodes : [Jobs -> SUBSET Nodes],
           lead  : [Jobs -> Nodes]]

-----------------------------------------------------------------------------
(* Slots of one node.                                                      *)

End(g, j) == g.start[j] + g.wall[j]

Planned(g, n) == {g.chart[n][i] : i \in DOMAIN g.chart[n]}

(* get_last_slot: the end of the last planned job, never in the past.      *)
LastSlot(g, n, now) ==
  LET q == g.chart[n]
      last == IF q = <<>> THEN 0 ELSE End(g, q[Len(q)])
  IN  IF last < now THEN now ELSE last

(***************************************************************************)
(* search_a_slot walks one queue from a date t: it skips the jobs that are *)
(* over at t and stops at the end of the queue or in front of a job that   *)
(* starts strictly more than dur after t.  Position p is such a stop.      *)
(***************************************************************************)
(* Mutant: a gap as long as the job is enough.                             *)
X_FitsAtTight(g, n, p, t, dur) ==
  LET q == g.chart[n]
  IN  /\ \A k \in 1 .. p - 1 : End(g, q[k]) =< t
      /\ p # Len(q) + 1 => g.start[q[p]] - t >= dur

(* Mutant: the length of the job is forgotten.                             *)
X_FitsAtAnyGap(g, n, p, t, dur) ==
  LET q == g.chart[n]
  IN  /\ \A k \in 1 .. p - 1 : End(g, q[k]) =< t
      /\ p # Len(q) + 1 => g.start[q[p]] > t

FitsAt(g, n, p, t, dur) ==
  LET q == g.chart[n]
  IN  /\ \A k \in 1 .. p - 1 : End(g, q[k]) =< t
      /\ p # Len(q) + 1 => g.start[q[p]] - t > dur

FreeAt(g, n, t, dur) ==
  \E p \in 1 .. Len(g.chart[n]) + 1 : FitsAt(g, n, p, t, dur)

(* slot->position, counted from 1: there is at most one (see OnePosition).  *)
SlotPosition(g, n, t, dur) ==
  CHOOSE p \in 1 .. Len(g.chart[n]) + 1 : FitsAt(g, n, p, t, dur)

-----------------------------------------------------------------------------
(* Slots of the whole cluster.                                             *)

FreeNodes(g, t, dur) == {n \in Nodes : FreeAt(g, n, t, dur)}

(* Mutant: no backfilling, a queue becomes free at its end only.           *)
X_ReleaseDatesLast(g, t) == {t} \cup {LastSlot(g, n, t) : n \in Nodes}

(* The dates at which something becomes free, from date t on.              *)
ReleaseDates(g, t) ==
  {t} \cup {e \in {End(g, j) : j \in UNION {Planned(g, n) : n \in Nodes}} : e > t}

(***************************************************************************)
(* find_a_slot repeats search_a_slot on the nodes whose slot is too early  *)
(* until the nb first slots start together: the result is the earliest     *)
(* date, from t on, at which nb nodes are free for dur.                    *)
(***************************************************************************)
EarliestStart(g, nb, t, dur) ==
  LET dates == {e \in ReleaseDates(g, t) : Cardinality(FreeNodes(g, e, dur)) >= nb}
  IN  CHOOSE e \in dates : \A f \in dates : e =< f

(***************************************************************************)
(* The nb nodes of S with the least key, ties to the lowest node: the sort *)
(* by comp in find_a_slot and the repeated auction of select_n_slots.      *)
(***************************************************************************)
X_BeforeReverse(key, m, n) == key[m] < key[n] \/ (key[m] = key[n] /\ n < m)

Before(key, m, n) == key[m] < key[n] \/ (key[m] = key[n] /\ m < n)

Least(S, key, nb) == {n \in S : Cardinality({m \in S : Before(key, m, n)}) < nb}

-----------------------------------------------------------------------------
(* The scheduler plugins.  A bid is what schedule() returns and accept()   *)
(* inserts: the chosen nodes, the first of them, the position in the queue *)
(* of each, and the date the job will start at.                            *)

(* Mutant: the job starts with the first of its slots, as predict_schedule *)
(* assumes, and not with the last.                                         *)
X_FcfsBidFirst(g, nb, now) ==
  LET last   == [n \in Nodes |-> LastSlot(g, n, now)]
      chosen == Least(Nodes, last, nb)
      lead   == CHOOSE n \in chosen : \A m \in chosen : ~ Before(last, m, n)
  IN  [nodes |-> chosen, lead |-> lead, start |-> last[lead],
       pos   |-> [n \in chosen |-> Len(g.chart[n]) + 1]]

FcfsBid(g, nb, now) ==
  LET last   == [n \in Nodes |-> LastSlot(g, n, now)]
      chosen == Least(Nodes, last, nb)
  IN  [nodes |-> chosen,
       lead  |-> CHOOSE n \in chosen : \A m \in chosen : ~ Before(last, m, n),
       pos   |-> [n \in chosen |-> Len(g.chart[n]) + 1],
       start |-> CHOOSE s \in {last[n] : n \in chosen} : \A n \in chosen : last[n] =< s]

CbfBid(g, nb, t, dur) ==
  LET date   == EarliestStart(g, nb, t, dur)
      free   == FreeNodes(g, date, dur)
      chosen == Least(free, [n \in Nodes |-> date], nb)
  IN  [nodes |-> chosen,
       lead  |-> CHOOSE n \in chosen : \A m \in chosen : n =< m,
       pos   |-> [n \in chosen |-> SlotPosition(g, n, date, dur)],
       start |-> date]

(* scheduler->schedule: fcfs_schedule and cbf_schedule.                     *)
Schedule(plugin, g, j, nb, now) ==
  IF plugin = "fcfs" THEN FcfsBid(g, nb, now)
                     ELSE CbfBid(g, nb, now, g.wall[j])

InsertJob(q, p, j) == SubSeq(q, 1, p - 1) \o <<j>> \o SubSeq(q, p, Len(q))

(* fcfs_accept, cbf_accept and the table part of reserve_slot.             *)
Accept(g, j, bid) ==
  [g EXCEPT !.chart = [n \in Nodes |->
                         IF n \in bid.nodes
                           THEN InsertJob(g.chart[n], bid.pos[n], j)
                           ELSE g.chart[n]],
            !.start[j] = bid.start,
            !.nodes[j] = bid.nodes,
            !.lead[j]  = bid.lead]

-----------------------------------------------------------------------------
(* The table functions of cluster.c and of generic_reschedule.             *)

(* The jobs of q that are in S, in their order.                            *)
Keep(q, S) ==
  LET kept[i \in 0 .. Len(q)] ==
        IF i = 0 THEN <<>>
        ELSE IF q[i] \in S THEN Append(kept[i - 1], q[i]) ELSE kept[i - 1]
  IN  kept[Len(q)]

(* Mutant: the table is not cleaned before the jobs are scheduled again.   *)
X_CleanNothing(g, waiting) == g

(* cluster_clean: the WAITING jobs leave the table.                        *)
Clean(g, waiting) ==
  [g EXCEPT !.chart = [n \in Nodes |-> Keep(g.chart[n], Jobs \ waiting)]]

(* Mutant: the job is deleted on the node of mapping[0] only.              *)
X_DeleteDoneLead(g, j) ==
  [g EXCEPT !.chart[g.lead[j]] = IF @ # <<>> /\ @[1] = j THEN Tail(@) ELSE @]

(* cluster_delete_done_job: j is looked for at the head of each queue only. *)
DeleteDone(g, j) ==
  [g EXCEPT !.chart = [n \in Nodes |->
                         IF g.chart[n] # <<>> /\ g.chart[n][1] = j
                           THEN Tail(g.chart[n]) ELSE g.chart[n]]]

(***************************************************************************)
(* generic_reschedule: clean, then from the highest priority down schedule *)
(* and accept again, in the order of its queue, every job of movable (the  *)
(* WAITING jobs whose deadline is not over).                               *)
(***************************************************************************)
RescheduleQueue(plugin, g, q, movable, procs, now) ==
  LET after[i \in 0 .. Len(q)] ==
        IF i = 0 THEN g
        ELSE IF q[i] \in movable
             THEN Accept(after[i - 1], q[i],
                         Schedule(plugin, after[i - 1], q[i], procs[q[i]], now))
             ELSE after[i - 1]
  IN  after[Len(q)]

(* queues is a sequence, queues[p + 1] the jobs of priority p.             *)
Reschedule(plugin, g, queues, waiting, movable, procs, now) ==
  LET levels == Len(queues)
      after[i \in 0 .. levels] ==
        IF i = 0 THEN Clean(g, waiting)
        ELSE RescheduleQueue(plugin, after[i - 1], queues[levels + 1 - i],
                             movable, procs, now)
  IN  after[levels]

(***************************************************************************)
(* next_job_to_schedule: on each node the first job still to be started,   *)
(* among those the earliest, ties to the lowest node.  Candidates are the  *)
(* nodes that have such a job.                                             *)
(***************************************************************************)
FirstToStart(g, n, startable) ==
  LET q == g.chart[n]
      k == CHOOSE i \in DOMAIN q : /\ q[i] \in startable
                                   /\ \A h \in 1 .. i - 1 : q[h] \notin startable
  IN  q[k]

NodesToStart(g, startable) == {n \in Nodes : Planned(g, n) \cap startable # {}}

NextJob(g, startable) ==
  LET first == [n \in NodesToStart(g, startable) |-> FirstToStart(g, n, startable)]
      date  == [n \in NodesToStart(g, startable) |-> g.start[first[n]]]
      node  == CHOOSE n \in NodesToStart(g, startable) :
                 \A m \in NodesToStart(g, startable) : ~ Before(date, m, n)
  IN  first[node]
=============================================================================
