----------------------------- MODULE WalkProofs -----------------------------
(***************************************************************************)
(* The scheduling table, whoever writes it: slots never overlap, and       *)
(* find_a_slot is optimal, for every number of nodes and of jobs.          *)
(*                                                                         *)
(* That a search is optimal is not plain: its candidates are the dates at  *)
(* which a slot ends, and none else.  An idle date is never the worse for  *)
(* being moved back to the last of the candidates before it (MovedBack).   *)
(***************************************************************************)
EXTENDS TableWalk, GanttProofs

(* A job is in the queues of its nodes and in no other.                    *)
WalkInv ==
  /\ gantt \in Tables /\ now \in Nat
  /\ AllOrdered(gantt)
  /\ gantt.wall = Walls
  /\ \A j \in Jobs : On(gantt, j) \subseteq gantt.nodes[j]

-----------------------------------------------------------------------------
(* The calls.                                                              *)

LEMMA WalkInit == Init => WalkInv
<1> SUFFICES ASSUME Init PROVE WalkInv
  OBVIOUS
<1>1. 1 \in Nodes
  BY NbNodesAssumption DEF Nodes
<1>2. gantt \in Tables /\ gantt.wall = Walls
  BY <1>1, WalkAssumption DEF Init, Tables
<1>3. \A n \in Nodes : gantt.chart[n] = <<>>
  BY DEF Init
<1>4. AllOrdered(gantt)
  BY <1>3 DEF AllOrdered, Ordered
<1>5. \A j \in Jobs : On(gantt, j) = {}
  BY <1>3 DEF On, Planned
<1> QED
  BY <1>2, <1>4, <1>5 DEF Init, WalkInv

LEMMA NotInTable == ASSUME WalkInv, NEW j \in Jobs, ~ InTable(j) PROVE Absent(gantt, j)
<1>1. On(gantt, j) = {}
  BY DEF InTable, On
<1> QED
  BY <1>1, AbsentOn DEF WalkInv

(* A bid that is clear is accepted for a job that is not in the table.     *)
LEMMA Accepted ==
  ASSUME WalkInv, NEW j \in Jobs, ~ InTable(j), NEW bid, BidFits(gantt, bid),
         BidClear(gantt, j, bid), gantt' = Accept(gantt, j, bid), now' = now
  PROVE  WalkInv'
<1>1. gantt \in Tables /\ AllOrdered(gantt) /\ Absent(gantt, j) /\ On(gantt, j) = {}
  BY NotInTable, AbsentOn DEF WalkInv
<1>2. gantt' \in Tables
  BY <1>1, AcceptTyped
<1>3. AllOrdered(gantt')
  BY <1>1, AcceptOrdered
<1>4. /\ gantt'.wall = gantt.wall
      /\ \A x \in Jobs : x # j => Slot(gantt', x) = Slot(gantt, x)
      /\ On(gantt', j) = bid.nodes \cup On(gantt, j)
      /\ gantt'.nodes[j] = bid.nodes
  BY <1>1, AcceptSlots
<1>5. ASSUME NEW x \in Jobs PROVE On(gantt', x) \subseteq gantt'.nodes[x]
  BY <1>1, <1>4 DEF WalkInv, Slot
<1> QED
  BY <1>2, <1>3, <1>4, <1>5 DEF WalkInv, AllOrdered, On, Planned

LEMMA AddKeeps ==
  ASSUME WalkInv, NEW j \in Jobs, NEW nb \in Nodes, NEW plugin, Add(plugin, j, nb)
  PROVE  WalkInv'
<1>1. gantt \in Tables /\ now \in Nat /\ nb \in 1 .. NbNodes /\ nb \in Nat \ {0}
  BY NbNodesAssumption DEF WalkInv, Nodes
<1>2. CASE plugin = "fcfs"
  <2>1. BidFits(gantt, FcfsBid(gantt, nb, now)) /\ BidClear(gantt, j, FcfsBid(gantt, nb, now))
    BY <1>1, FcfsBidFits, FcfsBidClear DEF WalkInv
  <2> QED
    BY <1>2, <2>1, Accepted DEF Add, Schedule
<1>3. CASE plugin # "fcfs"
  <2>1. /\ BidFits(gantt, CbfBid(gantt, nb, now, gantt.wall[j]))
        /\ BidClear(gantt, j, CbfBid(gantt, nb, now, gantt.wall[j]))
    BY <1>1, CbfBidFits, CbfBidClear
  <2> QED
    BY <1>3, <2>1, Accepted DEF Add, Schedule
<1> QED
  BY <1>2, <1>3

LEMMA ReserveKeeps ==
  ASSUME WalkInv, NEW j \in Jobs, NEW nb \in Nodes, NEW t \in now .. Horizon, Reserve(j, nb, t)
  PROVE  WalkInv'
<1>1. gantt \in Tables /\ t \in Nat /\ nb \in 1 .. NbNodes
  BY WalkAssumption DEF WalkInv, Nodes
<1>2. /\ BidFits(gantt, CbfBid(gantt, nb, t, gantt.wall[j]))
      /\ BidClear(gantt, j, CbfBid(gantt, nb, t, gantt.wall[j]))
  BY <1>1, CbfBidFits, CbfBidClear
<1> QED
  BY <1>2, Accepted DEF Reserve

(* The job leaves all its queues, and is in none of them twice: its slot   *)
(* may be forgotten.                                                       *)
LEMMA CompleteKeeps == ASSUME WalkInv, NEW j \in Jobs, Complete(j) PROVE WalkInv'
<1> DEFINE h == DeleteDone(gantt, j)
<1>1. gantt \in Tables /\ AllOrdered(gantt)
  BY DEF WalkInv
<1>2. /\ h \in Tables /\ AllOrdered(h) /\ h.wall = gantt.wall
      /\ \A x \in Jobs : x # j => Slot(h, x) = Slot(gantt, x)
  BY <1>1, DeleteDoneTyped, DeleteDoneOrdered, DeleteDoneSlots
<1>3. ASSUME NEW n \in Nodes PROVE NotIn(h.chart[n], j)
  <2> DEFINE q == gantt.chart[n]
  <2>1. q \in Seq(Jobs) /\ Ordered(gantt, q)
    BY <1>1 DEF Tables, AllOrdered
  <2>2. h.chart[n] = IF q # <<>> /\ q[1] = j THEN Tail(q) ELSE q
    BY <1>1 DEF DeleteDone, Tables
  <2>3. CASE j \in Planned(gantt, n)
    <3>1. n \in gantt.nodes[j]
      BY <2>3 DEF WalkInv, On
    <3>2. q[1] = j /\ q # <<>>
      BY <2>3, <3>1 DEF Complete, Planned
    <3>3. gantt.wall[j] \in Nat \ {0} /\ gantt.start[j] \in Nat
      BY <1>1, WalkAssumption DEF WalkInv, Tables
    <3>4. \A i \in 2 .. Len(q) : q[i] # j
      <4>1. SUFFICES ASSUME NEW i \in 2 .. Len(q), q[i] = j PROVE FALSE
        OBVIOUS
      <4>2. End(gantt, q[1]) =< gantt.start[q[i]]
        BY <2>1 DEF Ordered
      <4> QED
        BY <3>2, <3>3, <4>1, <4>2 DEF End
    <3>5. h.chart[n] = Tail(q)
      BY <2>2, <3>2
    <3>6. \A i \in 1 .. Len(Tail(q)) : Tail(q)[i] = q[i + 1] /\ i + 1 \in 2 .. Len(q)
      BY <2>1, <3>2
    <3> QED
      BY <3>4, <3>5, <3>6 DEF NotIn
  <2>4. CASE j \notin Planned(gantt, n)
    <3>1. h.chart[n] = q
      BY <2>1, <2>2, <2>4 DEF Planned
    <3> QED
      BY <3>1, <2>1, <2>4 DEF NotIn, Planned
  <2> QED
    BY <2>3, <2>4
<1>4. /\ gantt' = [h EXCEPT !.start[j] = 0, !.nodes[j] = {}, !.lead[j] = 1]
      /\ now' = now
  BY DEF Complete
<1>5. 1 \in Nodes
  BY NbNodesAssumption DEF Nodes
<1> HIDE DEF h
<1>6. /\ gantt' \in Tables /\ gantt'.chart = h.chart /\ gantt'.wall = h.wall
      /\ \A x \in Jobs : x # j => gantt'.start[x] = h.start[x] /\ gantt'.nodes[x] = h.nodes[x]
  BY <1>2, <1>4, <1>5 DEF Tables
<1>7. AllOrdered(gantt')
  <2>1. ASSUME NEW n \in Nodes, NEW i \in 1 .. Len(h.chart[n]), NEW k \in 1 .. Len(h.chart[n]),
               i < k
        PROVE  End(gantt', h.chart[n][i]) =< gantt'.start[h.chart[n][k]]
    <3>1. h.chart[n] \in Seq(Jobs)
      BY <1>2 DEF Tables
    <3>2. h.chart[n][i] \in Jobs \ {j} /\ h.chart[n][k] \in Jobs \ {j}
      BY <1>3, <3>1 DEF NotIn
    <3>3. End(h, h.chart[n][i]) =< h.start[h.chart[n][k]]
      BY <1>2, <2>1 DEF AllOrdered, Ordered
    <3> QED
      BY <1>6, <3>2, <3>3 DEF End
  <2> QED
    BY <1>6, <2>1 DEF AllOrdered, Ordered
<1>8. ASSUME NEW x \in Jobs PROVE On(gantt', x) \subseteq gantt'.nodes[x]
  <2>1. On(gantt', x) = On(h, x)
    BY <1>6 DEF On, Planned
  <2>2. CASE x = j
    <3>1. On(h, j) = {}
      BY <1>2, <1>3, AbsentOn DEF Absent
    <3> QED
      BY <2>1, <2>2, <3>1
  <2>3. CASE x # j
    BY <1>2, <1>6, <2>1, <2>3 DEF WalkInv, Slot
  <2> QED
    BY <2>2, <2>3
<1> QED
  BY <1>2, <1>4, <1>6, <1>7, <1>8 DEF WalkInv, AllOrdered, On, Planned

LEMMA WalkStep == WalkInv /\ [Next]_vars => WalkInv'
<1> SUFFICES ASSUME WalkInv, [Next]_vars PROVE WalkInv'
  OBVIOUS
<1>1. CASE UNCHANGED gantt /\ now' \in {now, now + 1}
  BY <1>1 DEF WalkInv, AllOrdered, On, Planned
<1>2. Advance \/ UNCHANGED vars => UNCHANGED gantt /\ now' \in {now, now + 1}
  BY DEF Advance, vars
<1> QED
  BY <1>1, <1>2, AddKeeps, ReserveKeeps, CompleteKeeps DEF Next

LEMMA WalkInvariant == Spec => []WalkInv
BY WalkInit, WalkStep, PTL DEF Spec

-----------------------------------------------------------------------------
(* The search.                                                             *)

(* A queue has one gap the search of a date stops at: slot->position is    *)
(* what SlotPosition chooses (scheduling.c:49).                            *)
LEMMA OnePosition ==
  ASSUME NEW g \in Tables, NEW n \in Nodes, NEW t \in Nat, NEW dur \in Nat,
         NEW p \in 1 .. Len(g.chart[n]) + 1, NEW r \in 1 .. Len(g.chart[n]) + 1,
         FitsAt(g, n, p, t, dur), FitsAt(g, n, r, t, dur)
  PROVE  ~ p < r
<1> DEFINE q == g.chart[n]
<1>1. SUFFICES ASSUME p < r PROVE FALSE
  OBVIOUS
<1>2. q \in Seq(Jobs) /\ p \in 1 .. Len(q)
  BY <1>1 DEF Tables
<1>3. g.start[q[p]] \in Nat /\ g.wall[q[p]] \in Nat
  BY <1>2 DEF Tables
<1>4. g.start[q[p]] + g.wall[q[p]] =< t /\ g.start[q[p]] - t > dur
  BY <1>1, <1>2 DEF FitsAt, End
<1> DEFINE s == g.start[q[p]]
           w == g.wall[q[p]]
<1>5. s \in Nat /\ w \in Nat /\ s + w =< t /\ s - t > dur
  BY <1>3, <1>4
<1> HIDE DEF s, w
<1> QED
  BY <1>5

(* A node is free for the search when no slot is in the way.               *)
LEMMA FreeIsIdle ==
  ASSUME gantt \in Tables, AllOrdered(gantt), NEW n \in Nodes, NEW t \in Nat, NEW dur \in Nat
  PROVE  FreeAt(gantt, n, t, dur) <=> IdleDuring(n, t, dur)
<1> DEFINE q == gantt.chart[n]
           Over(i) == End(gantt, q[i]) =< t
           Later(i) == gantt.start[q[i]] - t > dur
<1>1. q \in Seq(Jobs) /\ Len(q) \in Nat /\ DOMAIN q = 1 .. Len(q)
  BY DEF Tables
<1>2. ASSUME NEW i \in 1 .. Len(q)
      PROVE  gantt.start[q[i]] \in Nat /\ gantt.wall[q[i]] \in Nat
  BY <1>1 DEF Tables
<1>3. IdleDuring(n, t, dur) <=> \A i \in 1 .. Len(q) : Over(i) \/ Later(i)
  BY <1>1 DEF IdleDuring, Planned
<1>4. ASSUME FreeAt(gantt, n, t, dur), NEW i \in 1 .. Len(q) PROVE Over(i) \/ Later(i)
  <2>1. PICK p \in 1 .. Len(q) + 1 : FitsAt(gantt, n, p, t, dur)
    BY <1>4 DEF FreeAt
  <2>2. CASE i < p
    BY <1>1, <2>1, <2>2 DEF FitsAt
  <2>3. CASE i = p
    BY <1>1, <2>1, <2>3 DEF FitsAt
  <2>4. CASE i > p
    <3>1. p \in 1 .. Len(q) /\ Later(p)
      BY <1>1, <2>1, <2>4 DEF FitsAt
    <3>2. End(gantt, q[p]) =< gantt.start[q[i]]
      BY <3>1, <2>4 DEF AllOrdered, Ordered
    <3>3. gantt.start[q[i]] \in Nat /\ gantt.start[q[p]] \in Nat /\ gantt.wall[q[p]] \in Nat
      BY <1>2, <3>1
    <3>4. gantt.start[q[p]] =< gantt.start[q[i]]
      BY <3>2, <3>3 DEF End
    <3>5. gantt.start[q[p]] - t > dur
      BY <3>1
    <3>6. Later(i)
      <4> HIDE DEF q
      <4> QED
        BY <3>3, <3>4, <3>5
    <3> QED
      BY <3>6
  <2> QED
    BY <1>1, <2>2, <2>3, <2>4
<1>5. ASSUME \A i \in 1 .. Len(q) : Over(i) \/ Later(i) PROVE FreeAt(gantt, n, t, dur)
  <2> DEFINE late == {i \in 1 .. Len(q) : ~ Over(i)}
  <2>1. CASE late = {}
    <3>1. FitsAt(gantt, n, Len(q) + 1, t, dur)
      BY <1>1, <2>1 DEF FitsAt
    <3>2. Len(q) + 1 \in 1 .. Len(q) + 1
      BY <1>1
    <3> QED
      BY <3>1, <3>2 DEF FreeAt
  <2>2. CASE late # {}
    <3>1. late \subseteq Nat
      BY <1>1
    <3>2. PICK p \in late : \A i \in late : p =< i
      <4> HIDE DEF late
      <4> QED
        BY <2>2, <3>1, LeastElement
    <3>3. p \in 1 .. Len(q) + 1 /\ Later(p) /\ \A k \in 1 .. p - 1 : Over(k)
      BY <1>1, <1>5, <3>2
    <3>4. FitsAt(gantt, n, p, t, dur)
      BY <3>3 DEF FitsAt
    <3> QED
      BY <3>3, <3>4 DEF FreeAt
  <2> QED
    BY <2>1, <2>2
<1> HIDE DEF Over, Later
<1> QED
  BY <1>3, <1>4, <1>5

(* A date that is idle for a node is idle from the last end before it on.  *)
LEMMA MovedBack ==
  ASSUME gantt \in Tables, NEW n \in Nodes, NEW t \in Nat, NEW dur \in Nat,
         NEW e \in Nat, NEW r \in Nat, r =< e, t =< r,
         \A f \in ReleaseDates(gantt, t) : f =< e => f =< r,
         IdleDuring(n, e, dur)
  PROVE  IdleDuring(n, r, dur)
<1> SUFFICES ASSUME NEW j \in Planned(gantt, n)
             PROVE  End(gantt, j) =< r \/ gantt.start[j] - r > dur
  BY DEF IdleDuring
<1>1. j \in Jobs
  BY DEF Planned, Tables
<1>2. gantt.start[j] \in Nat /\ gantt.wall[j] \in Nat
  BY <1>1 DEF Tables
<1>3. End(gantt, j) \in Nat
  BY <1>2 DEF End
<1>4. CASE End(gantt, j) =< e
  <2>1. End(gantt, j) > t => End(gantt, j) \in ReleaseDates(gantt, t)
    BY DEF ReleaseDates
  <2> QED
    BY <1>3, <1>4, <2>1
<1>5. CASE gantt.start[j] - e > dur
  BY <1>2, <1>5
<1> QED
  BY <1>4, <1>5 DEF IdleDuring

LEMMA SearchOptimal ==
  ASSUME gantt \in Tables, AllOrdered(gantt), NEW nb \in 1 .. NbNodes, NEW t \in Nat,
         NEW dur \in Nat
  PROVE  Earliest(nb, t, dur, EarliestStart(gantt, nb, t, dur))
<1> DEFINE date == EarliestStart(gantt, nb, t, dur)
           idle(e) == IdleNodes(e, dur)
<1>1. /\ date \in Nat /\ t =< date
      /\ Cardinality(FreeNodes(gantt, date, dur)) >= nb
      /\ \A e \in ReleaseDates(gantt, t) :
           Cardinality(FreeNodes(gantt, e, dur)) >= nb => date =< e
  BY EarliestStartExists
<1>2. ASSUME NEW e \in Nat PROVE FreeNodes(gantt, e, dur) = idle(e)
  BY FreeIsIdle DEF FreeNodes, IdleNodes
<1>3. Cardinality(idle(date)) >= nb
  BY <1>1, <1>2
<1>4. ASSUME NEW e \in t .. date - 1 PROVE Cardinality(idle(e)) < nb
  <2> DEFINE past == {f \in ReleaseDates(gantt, t) : f =< e}
  <2> HIDE DEF date
  <2>1. e \in Nat /\ e < date /\ t =< e
    BY <1>1
  <2>2. /\ IsFiniteSet(past) /\ past \subseteq Nat /\ t \in past
        /\ \A f \in past : t =< f
    <3> DEFINE ends == {End(gantt, j) : j \in UNION {Planned(gantt, n) : n \in Nodes}}
    <3>1. IsFiniteSet(ends) /\ ends \subseteq Nat
      BY EndsFinite
    <3>2. past \subseteq ends \cup {t}
      BY DEF ReleaseDates
    <3>3. IsFiniteSet(ends \cup {t})
      BY <3>1, FS_AddElement
    <3>4. IsFiniteSet(past)
      BY <3>2, <3>3, FS_Subset
    <3>5. past \subseteq Nat /\ t \in past /\ \A f \in past : t =< f
      <4>1. ReleaseDates(gantt, t) = {t} \cup {f \in ends : f > t}
        BY DEF ReleaseDates
      <4> HIDE DEF ends
      <4>2. ASSUME NEW f \in ReleaseDates(gantt, t) PROVE f \in Nat /\ t =< f
        <5>1. f = t \/ (f \in ends /\ f > t)
          BY <4>1
        <5>2. f \in ends => f \in Nat
          BY <3>1
        <5> QED
          BY <5>1, <5>2
      <4>3. t \in past
        BY <2>1, <4>1
      <4> QED
        BY <4>2, <4>3
    <3> QED
      BY <3>4, <3>5
  <2>3. PICK r \in past : \A f \in past : f =< r
    <3> HIDE DEF past
    <3> QED
      BY <2>2, GreatestElement
  <2>4. r \in ReleaseDates(gantt, t) /\ r \in Nat /\ r =< e /\ t =< r
    BY <2>2, <2>3
  <2>5. idle(e) \subseteq idle(r)
    BY <2>1, <2>3, <2>4, MovedBack DEF IdleNodes
  <2>6. ~ Cardinality(idle(r)) >= nb
    <3>1. FreeNodes(gantt, r, dur) = idle(r)
      BY <1>2, <2>4
    <3>2. ~ date =< r
      BY <1>1, <2>1, <2>4
    <3> HIDE DEF idle
    <3> QED
      BY <1>1, <2>4, <3>1, <3>2
  <2>7. IsFiniteSet(idle(r)) /\ Cardinality(idle(r)) \in Nat
    <3>1. idle(r) \subseteq Nodes
      BY DEF IdleNodes
    <3> QED
      BY <3>1, NodesFinite, FS_Subset, FS_CardinalityType
  <2>8. Cardinality(idle(e)) =< Cardinality(idle(r)) /\ Cardinality(idle(e)) \in Nat
    <3> HIDE DEF idle
    <3> QED
      BY <2>5, <2>7, FS_Subset, FS_CardinalityType
  <2> HIDE DEF idle
  <2> QED
    BY <2>6, <2>7, <2>8
<1> QED
  BY <1>3, <1>4 DEF Earliest

-----------------------------------------------------------------------------
(* Slots never overlap, whatever mix of fcfs, cbf and reservations fills   *)
(* the table (scheduling.c, fcfs.c, cbf.c, batch.c:401).                   *)
THEOREM WalkDisjoint == Spec => []PlannedDisjoint
<1>1. WalkInv => PlannedDisjoint
  <2> SUFFICES ASSUME WalkInv, NEW n \in Nodes PROVE
        \A i, k \in DOMAIN gantt.chart[n] :
          i < k => End(gantt, gantt.chart[n][i]) =< gantt.start[gantt.chart[n][k]]
    BY DEF PlannedDisjoint
  <2>1. gantt.chart[n] \in Seq(Jobs)
    BY DEF WalkInv, Tables
  <2> QED
    BY <2>1 DEF WalkInv, AllOrdered, Ordered
<1> QED
  BY <1>1, WalkInvariant, PTL

(* In every table, find_a_slot returns the earliest date at which nb nodes *)
(* have the room it asks for (scheduling.c:204).                           *)
THEOREM SearchEarliest == Spec => []FindASlotEarliest
<1>1. WalkInv => FindASlotEarliest
  <2> SUFFICES ASSUME WalkInv, NEW nb \in Nodes, NEW t \in now .. Horizon, NEW dur \in 1 .. 3
               PROVE  Earliest(nb, t, dur, EarliestStart(gantt, nb, t, dur))
    BY DEF FindASlotEarliest
  <2>1. nb \in 1 .. NbNodes /\ t \in Nat /\ dur \in Nat
    BY WalkAssumption DEF WalkInv, Nodes
  <2> QED
    BY <2>1, SearchOptimal DEF WalkInv
<1> QED
  BY <1>1, WalkInvariant, PTL
=============================================================================
