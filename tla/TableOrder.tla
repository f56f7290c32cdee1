----------------------------- MODULE TableOrder -----------------------------
(***************************************************************************)
(* When a table and the queues of a cluster are in order, and when its     *)
(* waiting jobs take their turns: the invariants of the proofs are made of *)
(* these.  There is no theorem here: MetaProofs speaks of clusters with    *)
(* any numbers of nodes, by an instance of this module for each number.    *)
(***************************************************************************)
EXTENDS Gantt

(* The slots of the queue q are in order and do not overlap.               *)
Ordered(g, q) ==
  \A i, k \in 1 .. Len(q) : i < k => End(g, q[i]) =< g.start[q[k]]

AllOrdered(g) == \A n \in Nodes : Ordered(g, g.chart[n])

(* The table has no slot for j.                                            *)
NotIn(q, j) == \A i \in 1 .. Len(q) : q[i] # j

Absent(g, j) == \A n \in Nodes : NotIn(g.chart[n], j)

(* The queues trace each job once.                                         *)
Once(qs) ==
  \A p, r \in 1 .. Len(qs) : \A i \in 1 .. Len(qs[p]), k \in 1 .. Len(qs[r]) :
    qs[p][i] = qs[r][k] => p = r /\ i = k

Untraced(qs, x) == \A p \in 1 .. Len(qs) : NotIn(qs[p], x)

(* Every job of the queues that is in movable fits the cluster.            *)
MovableFit(queues, movable, procs) ==
  \A p \in 1 .. Len(queues) : \A i \in 1 .. Len(queues[p]) :
    queues[p][i] \in movable => procs[queues[p][i]] \in 1 .. NbNodes

(* The table is in order, and the queues hold jobs it can plan, each once. *)
Tidy(g, qs, procs) ==
  /\ g \in Tables /\ AllOrdered(g)
  /\ qs \in Seq(Seq(Jobs)) /\ Once(qs)
  /\ MovableFit(qs, Jobs, procs)

(* trace_job: the queue of a new job.                                      *)
Grown(qs, p, x) == [qs EXCEPT ![p] = Append(qs[p], x)]

(* All queues but p are empty.                                             *)
Alone(qs, p) == \A r \in 1 .. Len(qs) : r # p => qs[r] = <<>>

-----------------------------------------------------------------------------
(* Jobs of one queue that are planned in its order, by fcfs.               *)

(* The nodes whose queue holds x.                                          *)
On(g, x) == {n \in Nodes : x \in Planned(g, n)}

(* What is planned on n of the jobs of A is over at t.                     *)
Clears(g, n, A, t) == \A x \in Planned(g, n) \cap A : End(g, x) =< t

(* The jobs the i-th of the queue comes after: those that do not wait, and *)
(* those in front of it.                                                   *)
Ahead(q, i, W) == (Jobs \ W) \cup {q[k] : k \in 1 .. i - 1}

(* x starts when nb nodes are through with A, and is planned on these.     *)
AfterOf(g, x, A, nb, now) ==
  /\ now =< g.start[x]
  /\ Cardinality(On(g, x)) = nb
  /\ \A n \in On(g, x) : Clears(g, n, A, g.start[x])
  /\ \A n \in Nodes \ On(g, x), t \in now .. g.start[x] - 1 : ~ Clears(g, n, A, t)

(* So do the waiting jobs W among the m first of q, and no other is planned*)
Turn(g, q, m, W, procs, now) ==
  /\ \A i \in 1 .. m : q[i] \in W => AfterOf(g, q[i], Ahead(q, i, W), procs[q[i]], now)
  /\ \A n \in Nodes : \A x \in Planned(g, n) \cap W : \E k \in 1 .. m : q[k] = x

(***************************************************************************)
(* A cluster whose waiting jobs W share one queue: the others are empty,   *)
(* and the jobs of that one take their turns.                              *)
(***************************************************************************)
InTurns(g, qs, W, procs, now) ==
  \E p \in 1 .. Len(qs) : /\ \A r \in 1 .. Len(qs) : r # p => qs[r] = <<>>
                          /\ Turn(g, qs[p], Len(qs[p]), W, procs, now)
=============================================================================
