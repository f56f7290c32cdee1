----------------------------- MODULE TableWalk -----------------------------
(***************************************************************************)
(* The table is driven through all short sequences of the calls that write *)
(* it: what a slot search promises holds in every table reached.           *)
(***************************************************************************)
EXTENDS Gantt

CONSTANTS Walls,    \* wall times of the jobs
          Horizon   \* bound: the clock and the requested dates stay below it

ASSUME WalkAssumption == Walls \in [Jobs -> Nat \ {0}] /\ Horizon \in Nat

VARIABLES gantt, now

vars == <<gantt, now>>

-----------------------------------------------------------------------------
(* The walk.  now stands for MSG_get_clock().                              *)

Init ==
  /\ now = 0
  /\ gantt = [chart |-> [n \in Nodes |-> <<>>],
              start |-> [j \in Jobs |-> 0],
              wall  |-> Walls,
              nodes |-> [j \in Jobs |-> {}],
              lead  |-> [j \in Jobs |-> 1]]

InTable(j) == \E n \in Nodes : j \in Planned(gantt, n)

(* A batch uses one plugin: "fcfs" and "cbf" charts are both reached, and   *)
(* the mixed ones only make the tables more varied.                        *)
Add(plugin, j, nb) ==
  /\ ~ InTable(j)
  /\ gantt' = Accept(gantt, j, Schedule(plugin, gantt, j, nb, now))
  /\ UNCHANGED now

Reserve(j, nb, t) ==
  /\ ~ InTable(j)
  /\ EarliestStart(gantt, nb, t, gantt.wall[j]) = t
  /\ gantt' = Accept(gantt, j, CbfBid(gantt, nb, t, gantt.wall[j]))
  /\ UNCHANGED now

(* A job leaves the head of its queues when it is over.  Its old slot is    *)
(* forgotten, so that it can come back as a fresh job.                     *)
Complete(j) ==
  /\ InTable(j)
  /\ gantt.start[j] < now
  /\ \A n \in gantt.nodes[j] : gantt.chart[n][1] = j
  /\ gantt' = [DeleteDone(gantt, j) EXCEPT !.start[j] = 0, !.nodes[j] = {},
                                           !.lead[j] = 1]
  /\ UNCHANGED now

Advance == now < Horizon /\ now' = now + 1 /\ UNCHANGED gantt

Next ==
  \/ \E j \in Jobs, nb \in Nodes, plugin \in {"fcfs", "cbf"} : Add(plugin, j, nb)
  \/ \E j \in Jobs, nb \in Nodes, t \in now .. Horizon : Reserve(j, nb, t)
  \/ \E j \in Jobs : Complete(j)
  \/ Advance

Spec == Init /\ [][Next]_vars

-----------------------------------------------------------------------------
(* Properties.                                                             *)

(* No two jobs of a node are planned at the same time, and the queue of a  *)
(* node is in the order of the planned starts, whatever mix of fcfs, cbf   *)
(* and reservations filled it.                                             *)
PlannedDisjoint ==
  \A n \in Nodes : \A i, k \in DOMAIN gantt.chart[n] :
    i < k => End(gantt, gantt.chart[n][i]) =< gantt.start[gantt.chart[n][k]]

(* Node n has the room for dur at the date t.                              *)
IdleDuring(n, t, dur) ==
  \A j \in Planned(gantt, n) : End(gantt, j) =< t \/ gantt.start[j] - t > dur

IdleNodes(t, dur) == {n \in Nodes : IdleDuring(n, t, dur)}

Earliest(nb, t, dur, date) ==
  /\ Cardinality(IdleNodes(date, dur)) >= nb
  /\ \A e \in t .. date - 1 : Cardinality(IdleNodes(e, dur)) < nb

(* find_a_slot is optimal: at no earlier date do nb nodes have the room the*)
(* search asks for, where room is stated on the dates alone.               *)
FindASlotEarliest ==
  \A nb \in Nodes, t \in now .. Horizon, dur \in 1 .. 3 :
    Earliest(nb, t, dur, EarliestStart(gantt, nb, t, dur))
=============================================================================
