----------------------------- MODULE GanttProofs -----------------------------
(***************************************************************************)
(* What the operators of Gantt return, for every number of nodes and jobs. *)
(* The slot searches are defined with CHOOSE: the lemmas below show that   *)
(* what they choose exists, which is to say that the loops of scheduling.c *)
(* end, that the tables keep their type through every call, and what each  *)
(* call does to the slots.  Nothing here is about the state of a cluster.  *)
(***************************************************************************)
EXTENDS TableOrder, FiniteSetTheorems, SequenceTheorems, TLAPS

-----------------------------------------------------------------------------
(* Natural numbers.                                                        *)

NatLess == {ss \in Nat \X Nat : ss[1] < ss[2]}

(* There is no infinite descent in the naturals.                           *)
LEMMA NatLessWellFounded == IsWellFoundedOn(NatLess, Nat)
BY NatLessThanWellFounded DEF OpToRel, NatLess

(* A set of naturals that is not empty has a least element.                *)
LEMMA LeastElement ==
  ASSUME NEW T, T \subseteq Nat, T # {}
  PROVE  \E x \in T : \A y \in T : x =< y
<1>1. PICK x \in T : \A y \in T : ~ (<<y, x>> \in NatLess)
  BY NatLessWellFounded, WFMin
<1>2. ASSUME NEW y \in T, y < x PROVE <<y, x>> \in NatLess
  <2>. DEFINE p == <<y, x>>
  <2>1. p \in Nat \X Nat /\ p[1] = y /\ p[2] = x
    OBVIOUS
  <2>2. p[1] < p[2]
    BY <1>2, <2>1
  <2>. QED
    BY <2>1, <2>2 DEF NatLess
<1>3. ASSUME NEW y \in T PROVE x =< y
  <2>1. x \in Nat /\ y \in Nat
    OBVIOUS
  <2>2. ~ (y < x)
    BY <1>1, <1>2
  <2>. QED
    BY <2>1, <2>2
<1>. QED
  BY <1>3

(* Induction along a function, with the least i that breaks it.            *)
LEMMA FunctionInduction ==
  ASSUME NEW n \in Nat, NEW T, NEW f, f[0] \in T,
         \A i \in 1 .. n : f[i - 1] \in T => f[i] \in T
  PROVE  \A i \in 0 .. n : f[i] \in T
<1>. DEFINE bad == {i \in 0 .. n : f[i] \notin T}
<1>1. SUFFICES ASSUME bad # {} PROVE FALSE
  OBVIOUS
<1>2. PICK i \in bad : \A k \in bad : i =< k
  <2>1. bad \subseteq Nat
    OBVIOUS
  <2>. HIDE DEF bad
  <2>. QED
    BY <1>1, <2>1, LeastElement
<1>3. i # 0 /\ i - 1 \in 0 .. n /\ i - 1 \notin bad
  BY <1>2
<1>. QED
  BY <1>2, <1>3

(* A finite set of natural numbers has a greatest element.                 *)
LEMMA GreatestElement ==
  ASSUME NEW S, S \subseteq Nat, S # {}, IsFiniteSet(S)
  PROVE  \E x \in S : \A y \in S : y =< x
<1>. DEFINE Unbounded(A) == /\ A \subseteq Nat /\ A # {} /\ IsFiniteSet(A)
                            /\ ~ \E x \in A : \A y \in A : y =< x
            sizes == {Cardinality(A) : A \in {B \in SUBSET Nat : Unbounded(B)}}
<1>1. SUFFICES ASSUME Unbounded(S) PROVE FALSE
  OBVIOUS
<1>2. sizes \subseteq Nat /\ sizes # {}
  BY <1>1, FS_CardinalityType
<1>3. PICK least \in sizes : \A k \in sizes : least =< k
  BY <1>2, LeastElement
<1>4. PICK A \in SUBSET Nat : Unbounded(A) /\ Cardinality(A) = least
  BY <1>3
<1>5. PICK a \in A : TRUE
  BY <1>4
<1>. DEFINE B == A \ {a}
<1>6. IsFiniteSet(B) /\ Cardinality(B) = Cardinality(A) - 1
  BY <1>4, <1>5, FS_RemoveElement
<1>7. ~ Unbounded(B)
  <2>1. SUFFICES ASSUME Unbounded(B) PROVE FALSE
    OBVIOUS
  <2>2. Cardinality(B) \in sizes /\ least \in Nat
    BY <1>2, <1>3, <2>1
  <2>3. least =< Cardinality(B)
    BY <1>3, <2>2
  <2>. QED
    BY <1>4, <1>6, <2>2, <2>3
<1>8. CASE B = {}
  BY <1>4, <1>5, <1>8
<1>9. CASE B # {}
  <2>1. PICK m \in B : \A y \in B : y =< m
    BY <1>6, <1>7, <1>9
  <2>2. \A y \in A : y =< IF a =< m THEN m ELSE a
    BY <2>1
  <2>. QED
    BY <1>4, <2>1, <2>2
<1>. QED
  BY <1>8, <1>9

(* f is the recursion of n steps from first, each by the function step.     *)
Recursion(f, n, T, first, step) ==
  /\ f \in [0 .. n -> T]
  /\ f[0] = first
  /\ \A i \in 1 .. n : f[i] = step[<<i, f[i - 1]>>]

(***************************************************************************)
(* A recursion of n steps defines a function, when the step is a function  *)
(* that stays in T.                                                        *)
(***************************************************************************)
LEMMA RecursionExists ==
  ASSUME NEW n \in Nat, NEW T, NEW first \in T, NEW step \in [(1 .. n) \X T -> T]
  PROVE  \E f : Recursion(f, n, T, first, step)
<1>. DEFINE bad == {k \in 0 .. n : ~ \E f : Recursion(f, k, T, first, step)}
<1>1. SUFFICES ASSUME bad # {} PROVE FALSE
  OBVIOUS
<1>2. PICK k \in bad : \A m \in bad : k =< m
  <2>1. bad \subseteq Nat
    OBVIOUS
  <2>. HIDE DEF bad
  <2>. QED
    BY <1>1, <2>1, LeastElement
<1>3. CASE k = 0
  <2>1. Recursion([i \in 0 .. 0 |-> first], 0, T, first, step)
    BY DEF Recursion
  <2>. QED
    BY <1>2, <1>3, <2>1
<1>4. CASE k # 0
  <2>1. k \in 1 .. n /\ k - 1 \in 0 .. n
    BY <1>2, <1>4
  <2>2. k - 1 \notin bad
    BY <1>2, <2>1
  <2>3. PICK f : Recursion(f, k - 1, T, first, step)
    BY <2>1, <2>2
  <2>. DEFINE g == [i \in 0 .. k |-> IF i = k THEN step[<<k, f[k - 1]>>] ELSE f[i]]
  <2>4. step[<<k, f[k - 1]>>] \in T
    BY <2>1, <2>3 DEF Recursion
  <2>5. g \in [0 .. k -> T] /\ g[0] = first
    BY <2>1, <2>3, <2>4 DEF Recursion
  <2>6. ASSUME NEW i \in 1 .. k PROVE g[i] = step[<<i, g[i - 1]>>]
    <3>1. g[i - 1] = f[i - 1]
      BY <2>1
    <3>2. CASE i = k
      <4>1. g[k] = step[<<k, f[k - 1]>>]
        BY <2>1
      <4>. HIDE DEF g
      <4>. QED
        BY <3>1, <3>2, <4>1
    <3>3. CASE i # k
      BY <2>1, <2>3, <3>1, <3>3 DEF Recursion
    <3>. QED
      BY <3>2, <3>3
  <2>7. Recursion(g, k, T, first, step)
    BY <2>5, <2>6 DEF Recursion
  <2>. QED
    BY <1>2, <2>7
<1>. QED
  BY <1>3, <1>4

-----------------------------------------------------------------------------
(* The queues of the table.                                                *)

(* Inserting a job at a position of a queue gives a queue.                 *)
LEMMA InsertJobType ==
  ASSUME NEW q \in Seq(Jobs), NEW p \in 1 .. Len(q) + 1, NEW j \in Jobs
  PROVE  InsertJob(q, p, j) \in Seq(Jobs)
<1>1. SubSeq(q, 1, p - 1) \in Seq(Jobs)
  BY SubSeqProperties
<1>2. SubSeq(q, p, Len(q)) \in Seq(Jobs)
  BY SubSeqProperties
<1>3. <<j>> \in Seq(Jobs)
  OBVIOUS
<1>. QED
  BY <1>1, <1>2, <1>3, ConcatProperties DEF InsertJob

(* f[i] is what is left of the i first jobs of q.                          *)
KeepSteps(f, q, S) ==
  /\ f \in [0 .. Len(q) -> Seq(Jobs)]
  /\ f[0] = <<>>
  /\ \A i \in 1 .. Len(q) :
       f[i] = IF q[i] \in S THEN Append(f[i - 1], q[i]) ELSE f[i - 1]

(* cluster_clean goes from queue to queue.                                 *)
LEMMA KeepIsSteps ==
  ASSUME NEW q \in Seq(Jobs), NEW S
  PROVE  \E f : KeepSteps(f, q, S) /\ Keep(q, S) = f[Len(q)]
<1>. DEFINE n == Len(q)
            T == Seq(Jobs)
            none == <<>>
            Next1(i, t) == IF q[i] \in S THEN Append(t, q[i]) ELSE t
            step == [x \in (1 .. n) \X T |-> Next1(x[1], x[2])]
            Kept(f) == f = [i \in 0 .. n |->
                              IF i = 0 THEN <<>>
                              ELSE IF q[i] \in S THEN Append(f[i - 1], q[i])
                                                 ELSE f[i - 1]]
            kept == CHOOSE f : Kept(f)
<1>1. n \in Nat /\ none \in T
  OBVIOUS
<1>2. ASSUME NEW i \in 1 .. n, NEW t \in T PROVE Next1(i, t) \in T
  <2>1. q[i] \in Jobs
    OBVIOUS
  <2>. QED
    BY <2>1, AppendProperties
<1>3. step \in [(1 .. n) \X T -> T]
  <2>. HIDE DEF Next1, n, T
  <2>. QED
    BY <1>2
<1>4. ASSUME NEW i \in 1 .. n, NEW t \in T PROVE step[<<i, t>>] = Next1(i, t)
  <2>. HIDE DEF Next1, n, T
  <2>. QED
    OBVIOUS
<1>5. PICK f : Recursion(f, n, T, none, step)
  <2>. HIDE DEF step, n, T, Kept, kept, none, Next1
  <2>. QED
    BY <1>1, <1>3, RecursionExists
<1>6. Kept(f)
  <2>1. ASSUME NEW i \in 0 .. n, i # 0 PROVE f[i] = Next1(i, f[i - 1])
    <3>. HIDE DEF step, T, kept, none, Next1
    <3>1. i \in 1 .. n /\ i - 1 \in 0 .. n
      BY <1>1, <2>1
    <3>. HIDE DEF n
    <3>2. f[i - 1] \in T
      BY <1>5, <3>1 DEF Recursion
    <3>. QED
      BY <1>4, <1>5, <3>1, <3>2 DEF Recursion
  <2>. HIDE DEF n, T, step
  <2>. QED
    BY <1>5, <2>1 DEF Recursion
<1>7. Kept(kept)
  <2>. HIDE DEF Kept
  <2>. QED
    BY <1>6
<1>8. \A i \in 0 .. n : kept[i] \in T
  <2>. HIDE DEF kept
  <2>1. kept[0] \in T
    BY <1>1, <1>7
  <2>2. ASSUME NEW i \in 1 .. n, kept[i - 1] \in T PROVE kept[i] \in T
    <3>1. kept[i] = Next1(i, kept[i - 1])
      <4>. HIDE DEF n, T, step, none
      <4>1. i \in 0 .. n /\ i # 0
        BY <1>1
      <4>. QED
        BY <1>7, <4>1
    <3>. HIDE DEF Next1, n, T, Kept
    <3>. QED
      BY <1>2, <2>2, <3>1
  <2>. HIDE DEF n, Kept, T, Next1, none, step
  <2>. QED
    BY <1>1, <2>1, <2>2, FunctionInduction
<1>9. Keep(q, S) = kept[n]
  BY DEF Keep
<1>10. KeepSteps(kept, q, S)
  <2>1. kept = [i \in 0 .. n |-> kept[i]]
    <3>. HIDE DEF n, step, T
    <3>. QED
      BY <1>7
  <2>2. kept[0] = <<>>
    <3>. HIDE DEF kept
    <3>. QED
      BY <1>1, <1>7
  <2>3. ASSUME NEW i \in 1 .. n PROVE kept[i] = Next1(i, kept[i - 1])
    <3>1. i \in 0 .. n /\ i # 0
      BY <1>1
    <3>. HIDE DEF n, T, step, none, kept
    <3>. QED
      BY <1>7, <3>1
  <2>. HIDE DEF kept, Kept
  <2>. QED
    BY <1>8, <2>1, <2>2, <2>3 DEF KeepSteps
<1>. HIDE DEF kept, n
<1>. QED
  BY <1>9, <1>10 DEF n

(* cluster_clean keeps a queue of jobs a queue of jobs.                     *)
LEMMA KeepType ==
  ASSUME NEW q \in Seq(Jobs), NEW S
  PROVE  Keep(q, S) \in Seq(Jobs)
<1>1. PICK f : KeepSteps(f, q, S) /\ Keep(q, S) = f[Len(q)]
  BY KeepIsSteps
<1>2. Len(q) \in 0 .. Len(q)
  OBVIOUS
<1>. QED
  BY <1>1, <1>2 DEF KeepSteps

(* cluster_clean and cluster_delete_done_job write the queues only.        *)
LEMMA CleanTyped ==
  ASSUME NEW g \in Tables, NEW waiting
  PROVE  Clean(g, waiting) \in Tables
<1>1. \A n \in Nodes : Keep(g.chart[n], Jobs \ waiting) \in Seq(Jobs)
  BY KeepType DEF Tables
<1>. QED
  BY <1>1 DEF Clean, Tables

(* cluster_delete_done_job keeps a table well formed.                      *)
LEMMA DeleteDoneTyped ==
  ASSUME NEW g \in Tables, NEW j
  PROVE  DeleteDone(g, j) \in Tables
<1>1. ASSUME NEW n \in Nodes, g.chart[n] # <<>> PROVE Tail(g.chart[n]) \in Seq(Jobs)
  BY <1>1, HeadTailProperties DEF Tables
<1>. QED
  BY <1>1 DEF DeleteDone, Tables

-----------------------------------------------------------------------------
(* The dates.                                                              *)

(* A finite set of arguments has a finite set of values.                   *)
LEMMA FiniteImage ==
  ASSUME NEW S, IsFiniteSet(S), NEW f, f \in [S -> {f[x] : x \in S}]
  PROVE  IsFiniteSet({f[x] : x \in S})
<1>1. f \in Surjection(S, {f[x] : x \in S})
  BY DEF Surjection
<1>. QED
  BY <1>1, FS_Surjection

(* There are NbNodes nodes, at least one.                                  *)
LEMMA NodesFinite == IsFiniteSet(Nodes) /\ Cardinality(Nodes) = NbNodes /\ Nodes # {}
<1>1. NbNodes \in Int /\ 1 \in Int /\ NbNodes >= 1
  BY NbNodesAssumption
<1>2. IsFiniteSet(1 .. NbNodes) /\ Cardinality(1 .. NbNodes) = NbNodes - 1 + 1
  BY <1>1, FS_Interval
<1>3. 1 \in 1 .. NbNodes
  BY <1>1
<1>. QED
  BY <1>1, <1>2, <1>3 DEF Nodes

(* The planned ends of all nodes are finitely many natural numbers.        *)
LEMMA EndsFinite ==
  ASSUME NEW g \in Tables
  PROVE  LET ends == {End(g, j) : j \in UNION {Planned(g, n) : n \in Nodes}}
         IN  IsFiniteSet(ends) /\ ends \subseteq Nat
<1>. DEFINE plan == [n \in Nodes |-> Planned(g, n)]
            all  == UNION {Planned(g, n) : n \in Nodes}
            end  == [j \in all |-> End(g, j)]
<1>1. ASSUME NEW n \in Nodes PROVE IsFiniteSet(Planned(g, n)) /\ Planned(g, n) \subseteq Jobs
  <2>. DEFINE q == g.chart[n]
  <2>1. q \in Seq(Jobs)
    BY DEF Tables
  <2>. HIDE DEF q
  <2>2. Len(q) \in Nat /\ DOMAIN q = 1 .. Len(q) /\ q = [i \in DOMAIN q |-> q[i]]
    BY <2>1
  <2>3. IsFiniteSet(DOMAIN q)
    BY <2>2, FS_Interval
  <2>4. q \in [DOMAIN q -> {q[i] : i \in DOMAIN q}]
    BY <2>2
  <2>5. IsFiniteSet({q[i] : i \in DOMAIN q})
    BY <2>3, <2>4, FiniteImage
  <2>6. {q[i] : i \in DOMAIN q} \subseteq Jobs
    BY <2>1, <2>2
  <2>. QED
    BY <2>5, <2>6 DEF Planned, q
<1>2. IsFiniteSet({plan[n] : n \in Nodes})
  BY NodesFinite, FiniteImage
<1>3. {plan[n] : n \in Nodes} = {Planned(g, n) : n \in Nodes}
  OBVIOUS
<1>4. IsFiniteSet(all)
  BY <1>1, <1>2, <1>3, FS_UNION
<1>5. IsFiniteSet({end[j] : j \in all})
  <2>. HIDE DEF all
  <2>. QED
    BY <1>4, FiniteImage
<1>6. {end[j] : j \in all} = {End(g, j) : j \in all}
  OBVIOUS
<1>7. \A j \in all : End(g, j) \in Nat
  BY <1>1 DEF End, Tables
<1>. QED
  BY <1>5, <1>6, <1>7

(* get_last_slot: not in the past.                                         *)
LEMMA LastSlotType ==
  ASSUME NEW g \in Tables, NEW n \in Nodes, NEW now \in Nat
  PROVE  LastSlot(g, n, now) \in Nat /\ now =< LastSlot(g, n, now)
<1>. DEFINE q == g.chart[n]
<1>1. q \in Seq(Jobs)
  BY DEF Tables
<1>2. q # <<>> => q[Len(q)] \in Jobs
  BY <1>1, EmptySeq, ElementOfSeq
<1>. QED
  BY <1>2 DEF LastSlot, End, Tables

-----------------------------------------------------------------------------
(* The choice of nodes.                                                    *)

(* Some node comes before all others: the least key, then the least node.  *)
LEMMA FirstNode ==
  ASSUME NEW S \in SUBSET Nodes, S # {}, NEW key, \A n \in S : key[n] \in Nat
  PROVE  \E n \in S : \A m \in S : ~ Before(key, m, n)
<1>1. S \subseteq Nat
  BY DEF Nodes
<1>. DEFINE keys == {key[n] : n \in S}
<1>2. PICK k \in keys : \A x \in keys : k =< x
  <2>1. keys \subseteq Nat /\ keys # {}
    OBVIOUS
  <2>. HIDE DEF keys
  <2>. QED
    BY <2>1, LeastElement
<1>. DEFINE best == {n \in S : key[n] = k}
<1>3. PICK n \in best : \A m \in best : n =< m
  <2>1. best \subseteq Nat /\ best # {}
    BY <1>1
  <2>. HIDE DEF best
  <2>. QED
    BY <2>1, LeastElement
<1>4. ASSUME NEW m \in S PROVE ~ Before(key, m, n)
  <2>1. key[n] = k /\ key[n] =< key[m] /\ key[n] \in Nat /\ key[m] \in Nat
    BY <1>2
  <2>2. key[m] = key[n] => n =< m /\ m \in Nat /\ n \in Nat
    BY <1>1, <1>3
  <2>. QED
    BY <2>1, <2>2 DEF Before
<1>. QED
  BY <1>4

(* At least one node is chosen when one is asked for.                      *)
LEMMA LeastNonEmpty ==
  ASSUME NEW S \in SUBSET Nodes, S # {}, NEW key, \A n \in S : key[n] \in Nat,
         NEW nb \in Nat \ {0}
  PROVE  Least(S, key, nb) \in SUBSET S /\ Least(S, key, nb) # {}
<1>1. PICK n \in S : \A m \in S : ~ Before(key, m, n)
  BY FirstNode
<1>2. {m \in S : Before(key, m, n)} = {}
  BY <1>1
<1>3. Cardinality({m \in S : Before(key, m, n)}) < nb
  BY <1>2, FS_EmptySet
<1>. QED
  BY <1>3 DEF Least

-----------------------------------------------------------------------------
(* The bids.                                                               *)

(* What accept() expects of a bid.                                         *)
BidFits(g, bid) ==
  /\ bid.nodes \in SUBSET Nodes
  /\ bid.lead \in Nodes
  /\ bid.start \in Nat
  /\ \A n \in bid.nodes : bid.pos[n] \in 1 .. Len(g.chart[n]) + 1

(* A table stays a table when a bid is accepted.                           *)
LEMMA AcceptTyped ==
  ASSUME NEW g \in Tables, NEW j \in Jobs, NEW bid, BidFits(g, bid)
  PROVE  Accept(g, j, bid) \in Tables
<1>1. ASSUME NEW n \in bid.nodes PROVE InsertJob(g.chart[n], bid.pos[n], j) \in Seq(Jobs)
  BY InsertJobType DEF BidFits, Tables
<1>. QED
  BY <1>1 DEF Accept, Tables, BidFits

(* fcfs_schedule finds its slots.                                          *)
LEMMA FcfsBidFits ==
  ASSUME NEW g \in Tables, NEW nb \in Nat \ {0}, NEW now \in Nat
  PROVE  BidFits(g, FcfsBid(g, nb, now))
<1>. DEFINE last   == [n \in Nodes |-> LastSlot(g, n, now)]
            chosen == Least(Nodes, last, nb)
            bid    == FcfsBid(g, nb, now)
            dates  == {last[n] : n \in chosen}
<1>1. \A n \in Nodes : last[n] \in Nat
  BY LastSlotType
<1>2. chosen \in SUBSET Nodes /\ chosen # {}
  <2>. HIDE DEF last
  <2>. QED
    BY <1>1, LeastNonEmpty, NodesFinite
<1>3. \E n \in chosen : \A m \in chosen : ~ Before(last, m, n)
  <2>. HIDE DEF last, chosen
  <2>. QED
    BY <1>1, <1>2, FirstNode
<1>4. bid.lead \in Nodes
  <2>. HIDE DEF last, chosen
  <2>1. (CHOOSE n \in chosen : \A m \in chosen : ~ Before(last, m, n)) \in chosen
    BY <1>3
  <2>. QED
    BY <1>2, <2>1 DEF FcfsBid, last, chosen
<1>5. dates \subseteq Nat /\ dates # {} /\ IsFiniteSet(dates)
  <2>. HIDE DEF last, chosen
  <2>. DEFINE f == [n \in chosen |-> last[n]]
  <2>1. IsFiniteSet(chosen)
    BY <1>2, NodesFinite, FS_Subset
  <2>2. IsFiniteSet({f[n] : n \in chosen})
    BY <2>1, FiniteImage
  <2>. QED
    BY <1>1, <1>2, <2>2
<1>6. bid.start \in Nat
  <2>1. \E s \in dates : \A n \in chosen : last[n] =< s
    <3>1. PICK s \in dates : \A d \in dates : d =< s
      <4>. HIDE DEF dates
      <4>. QED
        BY <1>5, GreatestElement
    <3>. HIDE DEF last, chosen
    <3>. QED
      BY <3>1
  <2>. HIDE DEF last, chosen
  <2>2. (CHOOSE s \in dates : \A n \in chosen : last[n] =< s) \in dates
    BY <2>1
  <2>. QED
    BY <1>5, <2>2 DEF FcfsBid, last, chosen
<1>7. bid.nodes = chosen
  BY DEF FcfsBid
<1>8. ASSUME NEW n \in chosen PROVE bid.pos[n] \in 1 .. Len(g.chart[n]) + 1
  <2>1. bid.pos[n] = Len(g.chart[n]) + 1
    BY DEF FcfsBid
  <2>2. Len(g.chart[n]) \in Nat
    BY <1>2 DEF Tables
  <2>. QED
    BY <2>1, <2>2
<1>. HIDE DEF chosen, bid
<1>. QED
  BY <1>2, <1>4, <1>6, <1>7, <1>8 DEF BidFits, bid

(* It starts when the last of its nodes is free.                           *)
LEMMA FcfsStart ==
  ASSUME NEW g \in Tables, NEW nb \in Nat \ {0}, NEW now \in Nat
  PROVE  LET bid == FcfsBid(g, nb, now)
         IN  \A n \in bid.nodes : /\ n \in Nodes
                                  /\ bid.pos[n] = Len(g.chart[n]) + 1
                                  /\ LastSlot(g, n, now) =< bid.start
<1>. DEFINE last   == [n \in Nodes |-> LastSlot(g, n, now)]
            chosen == Least(Nodes, last, nb)
            bid    == FcfsBid(g, nb, now)
            dates  == {last[n] : n \in chosen}
<1>1. \A n \in Nodes : last[n] \in Nat
  BY LastSlotType
<1>2. chosen \in SUBSET Nodes /\ chosen # {}
  <2>. HIDE DEF last
  <2>. QED
    BY <1>1, LeastNonEmpty, NodesFinite
<1>3. dates \subseteq Nat /\ dates # {} /\ IsFiniteSet(dates)
  <2>. HIDE DEF last, chosen
  <2>. DEFINE f == [n \in chosen |-> last[n]]
  <2>1. IsFiniteSet(chosen)
    BY <1>2, NodesFinite, FS_Subset
  <2>2. IsFiniteSet({f[n] : n \in chosen})
    BY <2>1, FiniteImage
  <2>. QED
    BY <1>1, <1>2, <2>2
<1>4. \E s \in dates : \A n \in chosen : last[n] =< s
  <2>1. PICK s \in dates : \A d \in dates : d =< s
    <3>. HIDE DEF dates
    <3>. QED
      BY <1>3, GreatestElement
  <2>. HIDE DEF last, chosen
  <2>. QED
    BY <2>1
<1>5. /\ bid.nodes = chosen
      /\ bid.pos = [n \in chosen |-> Len(g.chart[n]) + 1]
      /\ bid.start = CHOOSE s \in dates : \A n \in chosen : last[n] =< s
  BY DEF FcfsBid
<1>. HIDE DEF bid, chosen
<1>6. \A n \in chosen : last[n] =< bid.start
  <2>. HIDE DEF last
  <2>. QED
    BY <1>4, <1>5
<1>. QED
  BY <1>2, <1>5, <1>6 DEF bid

(* When every planned job of n is over there is a slot at the end of n.    *)
LEMMA FreeAtEnd ==
  ASSUME NEW g \in Tables, NEW n \in Nodes, NEW t, NEW dur,
         \A j \in Planned(g, n) : End(g, j) =< t
  PROVE  FreeAt(g, n, t, dur)
<1>. DEFINE q == g.chart[n]
            p == Len(q) + 1
<1>1. q \in Seq(Jobs)
  BY DEF Tables
<1>2. p \in 1 .. Len(q) + 1
  BY <1>1
<1>3. ASSUME NEW k \in 1 .. p - 1 PROVE End(g, q[k]) =< t
  <2>1. k \in DOMAIN q
    BY <1>1
  <2>. QED
    BY <2>1 DEF Planned
<1>4. FitsAt(g, n, p, t, dur)
  BY <1>3 DEF FitsAt
<1>. QED
  BY <1>2, <1>4 DEF FreeAt

(***************************************************************************)
(* The search of find_a_slot succeeds: a date at which nb nodes are free   *)
(* exists, and EarliestStart is the first such date.                       *)
(***************************************************************************)
LEMMA EarliestStartExists ==
  ASSUME NEW g \in Tables, NEW nb \in 1 .. NbNodes, NEW t \in Nat, NEW dur
  PROVE  LET date == EarliestStart(g, nb, t, dur)
         IN  /\ date \in ReleaseDates(g, t) /\ date \in Nat /\ t =< date
             /\ Cardinality(FreeNodes(g, date, dur)) >= nb
             /\ \A e \in ReleaseDates(g, t) :
                  Cardinality(FreeNodes(g, e, dur)) >= nb => date =< e
<1>. DEFINE ends  == {End(g, j) : j \in UNION {Planned(g, n) : n \in Nodes}}
            dates == {e \in ReleaseDates(g, t) : Cardinality(FreeNodes(g, e, dur)) >= nb}
<1>1. IsFiniteSet(ends) /\ ends \subseteq Nat
  BY EndsFinite
<1>2. ReleaseDates(g, t) = {t} \cup {e \in ends : e > t}
  BY DEF ReleaseDates
<1>3. PICK last \in ReleaseDates(g, t) : \A e \in ends : e =< last
  <2>. HIDE DEF ends
  <2>1. CASE ends = {}
    BY <1>2, <2>1
  <2>2. CASE ends # {}
    <3>1. PICK m \in ends : \A e \in ends : e =< m
      BY <1>1, <2>2, GreatestElement
    <3>2. CASE m > t
      BY <1>2, <3>1, <3>2
    <3>3. CASE ~ (m > t)
      <4>1. \A e \in ends : e =< t
        BY <1>1, <3>1, <3>3
      <4>. QED
        BY <1>2, <4>1
    <3>. QED
      BY <3>2, <3>3
  <2>. QED
    BY <2>1, <2>2
<1>4. FreeNodes(g, last, dur) = Nodes
  <2>1. ASSUME NEW n \in Nodes PROVE FreeAt(g, n, last, dur)
    <3>1. \A j \in Planned(g, n) : End(g, j) =< last
      BY <1>3
    <3>. QED
      BY <3>1, FreeAtEnd
  <2>. QED
    BY <2>1 DEF FreeNodes
<1>5. dates \subseteq Nat /\ dates # {}
  <2>1. Cardinality(FreeNodes(g, last, dur)) >= nb
    BY <1>4, NodesFinite, NbNodesAssumption
  <2>. QED
    BY <1>1, <1>2, <1>3, <2>1
<1>6. \E e \in dates : \A f \in dates : e =< f
  <2>. HIDE DEF dates
  <2>. QED
    BY <1>5, LeastElement
<1>7. EarliestStart(g, nb, t, dur) = CHOOSE e \in dates : \A f \in dates : e =< f
  BY DEF EarliestStart
<1>. DEFINE date == EarliestStart(g, nb, t, dur)
<1>8. date \in dates /\ \A f \in dates : date =< f
  <2>. HIDE DEF dates
  <2>. QED
    BY <1>6, <1>7
<1>9. date \in ReleaseDates(g, t) /\ Cardinality(FreeNodes(g, date, dur)) >= nb
  BY <1>8
<1>10. date \in Nat /\ t =< date
  <2>. HIDE DEF ends, date, dates
  <2>1. CASE date = t
    BY <2>1
  <2>2. CASE date \in ends /\ date > t
    <3>1. date \in Nat
      BY <1>1, <2>2
    <3>. QED
      BY <2>2, <3>1
  <2>. QED
    BY <1>2, <1>9, <2>1, <2>2
<1>11. \A e \in ReleaseDates(g, t) :
         Cardinality(FreeNodes(g, e, dur)) >= nb => date =< e
  BY <1>8
<1>. HIDE DEF date
<1>. QED
  BY <1>9, <1>10, <1>11 DEF date

(* cbf_schedule finds its slots, when no more than NbNodes are asked for.  *)
LEMMA CbfBidFits ==
  ASSUME NEW g \in Tables, NEW nb \in 1 .. NbNodes, NEW t \in Nat, NEW dur
  PROVE  BidFits(g, CbfBid(g, nb, t, dur))
<1>. DEFINE date   == EarliestStart(g, nb, t, dur)
            free   == FreeNodes(g, date, dur)
            key    == [n \in Nodes |-> date]
            chosen == Least(free, key, nb)
            bid    == CbfBid(g, nb, t, dur)
<1>1. date \in Nat /\ Cardinality(free) >= nb
  BY EarliestStartExists
<1>2. free \in SUBSET Nodes
  BY DEF FreeNodes
<1>3. nb \in Nat \ {0}
  BY NbNodesAssumption
<1>4. free # {}
  <2>. HIDE DEF free
  <2>. QED
    BY <1>1, <1>3, FS_EmptySet
<1>5. \A n \in free : key[n] \in Nat
  BY <1>1, <1>2
<1>6. chosen \in SUBSET free /\ chosen # {}
  <2>. HIDE DEF free, key
  <2>. QED
    BY <1>2, <1>3, <1>4, <1>5, LeastNonEmpty
<1>. HIDE DEF chosen, free, key, date
<1>7. \E n \in chosen : \A m \in chosen : n =< m
  <2>1. chosen \subseteq Nat
    BY <1>2, <1>6 DEF Nodes
  <2>. QED
    BY <1>6, <2>1, LeastElement
<1>8. bid.nodes = chosen /\ bid.start = date
  BY DEF CbfBid, chosen, free, key, date
<1>9. bid.lead \in Nodes
  <2>1. (CHOOSE n \in chosen : \A m \in chosen : n =< m) \in chosen
    BY <1>7
  <2>2. bid.lead = CHOOSE n \in chosen : \A m \in chosen : n =< m
    BY DEF CbfBid, chosen, free, key, date
  <2>. QED
    BY <1>2, <1>6, <2>1, <2>2
<1>10. ASSUME NEW n \in chosen PROVE bid.pos[n] \in 1 .. Len(g.chart[n]) + 1
  <2>1. bid.pos[n] = SlotPosition(g, n, date, dur)
    BY DEF CbfBid, chosen, free, key, date
  <2>2. FreeAt(g, n, date, dur)
    BY <1>6 DEF free, FreeNodes
  <2>. QED
    BY <2>1, <2>2 DEF SlotPosition, FreeAt
<1>. HIDE DEF bid
<1>. QED
  BY <1>1, <1>2, <1>6, <1>8, <1>9, <1>10 DEF BidFits, bid

(* On each of its nodes the job fits at the position of the bid.           *)
LEMMA CbfPosition ==
  ASSUME NEW g \in Tables, NEW nb \in 1 .. NbNodes, NEW t \in Nat, NEW dur
  PROVE  LET bid == CbfBid(g, nb, t, dur)
         IN  \A n \in bid.nodes : /\ n \in Nodes
                                  /\ bid.pos[n] \in 1 .. Len(g.chart[n]) + 1
                                  /\ FitsAt(g, n, bid.pos[n], bid.start, dur)
<1>. DEFINE date   == EarliestStart(g, nb, t, dur)
            free   == FreeNodes(g, date, dur)
            key    == [n \in Nodes |-> date]
            chosen == Least(free, key, nb)
            bid    == CbfBid(g, nb, t, dur)
<1>1. /\ bid.nodes = chosen
      /\ bid.pos = [n \in chosen |-> SlotPosition(g, n, date, dur)]
      /\ bid.start = date
  BY DEF CbfBid
<1>2. chosen \subseteq free
  BY DEF Least
<1>. HIDE DEF bid, chosen, date
<1>3. ASSUME NEW n \in chosen
      PROVE  /\ n \in Nodes
             /\ SlotPosition(g, n, date, dur) \in 1 .. Len(g.chart[n]) + 1
             /\ FitsAt(g, n, SlotPosition(g, n, date, dur), date, dur)
  <2>1. n \in Nodes /\ FreeAt(g, n, date, dur)
    BY <1>2 DEF FreeNodes
  <2>. QED
    BY <2>1 DEF SlotPosition, FreeAt
<1>. QED
  BY <1>1, <1>3 DEF bid

(* scheduler->schedule and scheduler->accept, for either plugin.           *)
LEMMA ScheduleTyped ==
  ASSUME NEW plugin, NEW g \in Tables, NEW j \in Jobs, NEW nb \in 1 .. NbNodes, NEW now \in Nat
  PROVE  Accept(g, j, Schedule(plugin, g, j, nb, now)) \in Tables
<1>1. nb \in Nat \ {0}
  BY NbNodesAssumption
<1>2. BidFits(g, Schedule(plugin, g, j, nb, now))
  BY <1>1, FcfsBidFits, CbfBidFits DEF Schedule
<1>. QED
  BY <1>2, AcceptTyped

-----------------------------------------------------------------------------
(* generic_reschedule.                                                     *)

(* f[i] is the table after the i first jobs of the queue q.                *)
QueueSteps(f, plugin, g, q, movable, procs, now) ==
  /\ f \in [0 .. Len(q) -> Tables]
  /\ f[0] = g
  /\ \A i \in 1 .. Len(q) :
       f[i] = IF q[i] \in movable
                THEN Accept(f[i - 1], q[i],
                            Schedule(plugin, f[i - 1], q[i], procs[q[i]], now))
                ELSE f[i - 1]

(***************************************************************************)
(* The inner loop of generic_reschedule goes from table to table, when     *)
(* every job it moves fits the cluster.                                    *)
(***************************************************************************)
LEMMA RescheduleQueueSteps ==
  ASSUME NEW plugin, NEW g \in Tables, NEW q \in Seq(Jobs), NEW movable, NEW procs,
         \A i \in 1 .. Len(q) : q[i] \in movable => procs[q[i]] \in 1 .. NbNodes,
         NEW now \in Nat
  PROVE  \E f : /\ QueueSteps(f, plugin, g, q, movable, procs, now)
                /\ RescheduleQueue(plugin, g, q, movable, procs, now) = f[Len(q)]
<1>. DEFINE n == Len(q)
            Moved(i, h) == IF q[i] \in movable
                             THEN Accept(h, q[i], Schedule(plugin, h, q[i], procs[q[i]], now))
                             ELSE h
            step == [x \in (1 .. n) \X Tables |-> Moved(x[1], x[2])]
            After(f) == f = [i \in 0 .. n |->
                               IF i = 0 THEN g
                               ELSE IF q[i] \in movable
                                    THEN Accept(f[i - 1], q[i],
                                                Schedule(plugin, f[i - 1], q[i],
                                                         procs[q[i]], now))
                                    ELSE f[i - 1]]
            after == CHOOSE f : After(f)
            Steps(f) == QueueSteps(f, plugin, g, q, movable, procs, now)
<1>1. n \in Nat
  OBVIOUS
<1>2. ASSUME NEW i \in 1 .. n, NEW h \in Tables PROVE Moved(i, h) \in Tables
  <2>1. q[i] \in Jobs
    OBVIOUS
  <2>. QED
    BY <2>1, ScheduleTyped
<1>3. step \in [(1 .. n) \X Tables -> Tables]
  <2>. HIDE DEF Moved, n
  <2>. QED
    BY <1>2
<1>4. ASSUME NEW i \in 1 .. n, NEW h \in Tables PROVE step[<<i, h>>] = Moved(i, h)
  <2>. HIDE DEF Moved, n
  <2>. QED
    OBVIOUS
<1>5. PICK f : Recursion(f, n, Tables, g, step)
  <2>. HIDE DEF step, n
  <2>. QED
    BY <1>1, <1>3, RecursionExists
<1>6. ASSUME NEW i \in 1 .. n PROVE f[i] = Moved(i, f[i - 1])
  <2>. HIDE DEF step, Moved
  <2>1. i - 1 \in 0 .. n
    BY <1>1
  <2>. HIDE DEF n
  <2>2. f[i - 1] \in Tables
    BY <1>5, <2>1 DEF Recursion
  <2>. QED
    BY <1>4, <1>5, <2>2 DEF Recursion
<1>7. After(f)
  <2>. HIDE DEF step
  <2>1. ASSUME NEW i \in 0 .. n, i # 0 PROVE f[i] = Moved(i, f[i - 1])
    <3>1. i \in 1 .. n
      BY <1>1, <2>1
    <3>. HIDE DEF Moved, n
    <3>. QED
      BY <1>6, <3>1
  <2>. HIDE DEF n
  <2>. QED
    BY <1>5, <2>1 DEF Recursion
<1>8. After(after)
  <2>. HIDE DEF After
  <2>. QED
    BY <1>7
<1>9. Steps(after)
  <2>. HIDE DEF after
  <2>1. ASSUME NEW i \in 1 .. n PROVE after[i] = Moved(i, after[i - 1])
    <3>1. i \in 0 .. n /\ i # 0
      BY <1>1
    <3>. HIDE DEF n, step
    <3>. QED
      BY <1>8, <3>1
  <2>2. after[0] = g
    BY <1>1, <1>8
  <2>3. \A i \in 0 .. n : after[i] \in Tables
    <3>1. ASSUME NEW i \in 1 .. n, after[i - 1] \in Tables PROVE after[i] \in Tables
      <4>. HIDE DEF Moved, n
      <4>. QED
        BY <1>2, <2>1, <3>1
    <3>. HIDE DEF After, n, Moved, step
    <3>. QED
      BY <1>1, <2>2, <3>1, FunctionInduction
  <2>4. after \in [0 .. n -> Tables]
    <3>. HIDE DEF n, step
    <3>1. after = [i \in 0 .. n |-> after[i]]
      BY <1>8
    <3>. HIDE DEF After
    <3>. QED
      BY <2>3, <3>1
  <2>. QED
    BY <2>1, <2>2, <2>4 DEF QueueSteps
<1>10. RescheduleQueue(plugin, g, q, movable, procs, now) = after[n]
  BY DEF RescheduleQueue
<1>. HIDE DEF after
<1>. QED
  BY <1>9, <1>10

(* Putting back the jobs of one priority queue keeps the table well formed.*)
LEMMA RescheduleQueueTyped ==
  ASSUME NEW plugin, NEW g \in Tables, NEW q \in Seq(Jobs), NEW movable, NEW procs,
         \A i \in 1 .. Len(q) : q[i] \in movable => procs[q[i]] \in 1 .. NbNodes,
         NEW now \in Nat
  PROVE  RescheduleQueue(plugin, g, q, movable, procs, now) \in Tables
<1>1. PICK f : /\ QueueSteps(f, plugin, g, q, movable, procs, now)
               /\ RescheduleQueue(plugin, g, q, movable, procs, now) = f[Len(q)]
  BY RescheduleQueueSteps
<1>2. Len(q) \in 0 .. Len(q)
  OBVIOUS
<1>. QED
  BY <1>1, <1>2 DEF QueueSteps

(* f[i] is the table after the i queues of highest priority.               *)
LevelSteps(f, plugin, g, queues, movable, procs, now) ==
  /\ f \in [0 .. Len(queues) -> Tables]
  /\ f[0] = g
  /\ \A i \in 1 .. Len(queues) :
       f[i] = RescheduleQueue(plugin, f[i - 1], queues[Len(queues) + 1 - i],
                              movable, procs, now)

(***************************************************************************)
(* The outer loop of generic_reschedule starts from the cleaned table and  *)
(* goes from table to table.                                               *)
(***************************************************************************)
LEMMA RescheduleSteps ==
  ASSUME NEW plugin, NEW g \in Tables, NEW queues \in Seq(Seq(Jobs)), NEW waiting,
         NEW movable, NEW procs, MovableFit(queues, movable, procs), NEW now \in Nat
  PROVE  \E f : /\ LevelSteps(f, plugin, Clean(g, waiting), queues, movable, procs, now)
                /\ Reschedule(plugin, g, queues, waiting, movable, procs, now)
                     = f[Len(queues)]
<1>. DEFINE n == Len(queues)
            first == Clean(g, waiting)
            Moved(i, h) == RescheduleQueue(plugin, h, queues[n + 1 - i], movable, procs, now)
            step == [x \in (1 .. n) \X Tables |-> Moved(x[1], x[2])]
            After(f) == f = [i \in 0 .. n |->
                               IF i = 0 THEN Clean(g, waiting)
                               ELSE RescheduleQueue(plugin, f[i - 1], queues[n + 1 - i],
                                                    movable, procs, now)]
            after == CHOOSE f : After(f)
            Steps(f) == LevelSteps(f, plugin, first, queues, movable, procs, now)
<1>1. n \in Nat
  OBVIOUS
<1>2. ASSUME NEW i \in 1 .. n, NEW h \in Tables PROVE Moved(i, h) \in Tables
  <2>1. n + 1 - i \in 1 .. n
    BY <1>1
  <2>. DEFINE q == queues[n + 1 - i]
  <2>2. q \in Seq(Jobs)
    BY <2>1, ElementOfSeq
  <2>3. \A k \in 1 .. Len(q) : q[k] \in movable => procs[q[k]] \in 1 .. NbNodes
    BY <2>1 DEF MovableFit
  <2>. HIDE DEF q
  <2>4. RescheduleQueue(plugin, h, q, movable, procs, now) \in Tables
    BY <2>2, <2>3, RescheduleQueueTyped
  <2>. QED
    BY <2>4 DEF q
<1>3. first \in Tables
  BY CleanTyped
<1>4. step \in [(1 .. n) \X Tables -> Tables]
  <2>. HIDE DEF Moved, n
  <2>. QED
    BY <1>2
<1>5. ASSUME NEW i \in 1 .. n, NEW h \in Tables PROVE step[<<i, h>>] = Moved(i, h)
  <2>. HIDE DEF Moved, n
  <2>. QED
    OBVIOUS
<1>6. PICK f : Recursion(f, n, Tables, first, step)
  <2>. HIDE DEF step, n, first
  <2>. QED
    BY <1>1, <1>3, <1>4, RecursionExists
<1>7. ASSUME NEW i \in 1 .. n PROVE f[i] = Moved(i, f[i - 1])
  <2>. HIDE DEF step, Moved
  <2>1. i - 1 \in 0 .. n
    BY <1>1
  <2>. HIDE DEF n
  <2>2. f[i - 1] \in Tables
    BY <1>6, <2>1 DEF Recursion
  <2>. QED
    BY <1>5, <1>6, <2>2 DEF Recursion
<1>8. After(f)
  <2>. HIDE DEF step
  <2>1. ASSUME NEW i \in 0 .. n, i # 0 PROVE f[i] = Moved(i, f[i - 1])
    <3>1. i \in 1 .. n
      BY <1>1, <2>1
    <3>. HIDE DEF Moved, n
    <3>. QED
      BY <1>7, <3>1
  <2>. HIDE DEF n
  <2>. QED
    BY <1>6, <2>1 DEF Recursion
<1>9. After(after)
  <2>. HIDE DEF After
  <2>. QED
    BY <1>8
<1>10. Steps(after)
  <2>. HIDE DEF after
  <2>1. ASSUME NEW i \in 1 .. n PROVE after[i] = Moved(i, after[i - 1])
    <3>1. i \in 0 .. n /\ i # 0
      BY <1>1
    <3>. HIDE DEF n, step
    <3>. QED
      BY <1>9, <3>1
  <2>2. after[0] = first
    BY <1>1, <1>9
  <2>3. \A i \in 0 .. n : after[i] \in Tables
    <3>1. ASSUME NEW i \in 1 .. n, after[i - 1] \in Tables PROVE after[i] \in Tables
      <4>. HIDE DEF Moved, n
      <4>. QED
        BY <1>2, <2>1, <3>1
    <3>. HIDE DEF After, n, Moved, step, first
    <3>. QED
      BY <1>1, <1>3, <2>2, <3>1, FunctionInduction
  <2>4. after \in [0 .. n -> Tables]
    <3>. HIDE DEF n, step
    <3>1. after = [i \in 0 .. n |-> after[i]]
      BY <1>9
    <3>. HIDE DEF After
    <3>. QED
      BY <2>3, <3>1
  <2>. QED
    BY <2>1, <2>2, <2>4 DEF LevelSteps
<1>11. Reschedule(plugin, g, queues, waiting, movable, procs, now) = after[n]
  BY DEF Reschedule
<1>. HIDE DEF after
<1>. QED
  BY <1>10, <1>11

(* generic_reschedule keeps the table well formed.                         *)
LEMMA RescheduleTyped ==
  ASSUME NEW plugin, NEW g \in Tables, NEW queues \in Seq(Seq(Jobs)), NEW waiting,
         NEW movable, NEW procs, MovableFit(queues, movable, procs), NEW now \in Nat
  PROVE  Reschedule(plugin, g, queues, waiting, movable, procs, now) \in Tables
<1>. DEFINE first == Clean(g, waiting)
<1>1. PICK f : /\ LevelSteps(f, plugin, first, queues, movable, procs, now)
               /\ Reschedule(plugin, g, queues, waiting, movable, procs, now)
                    = f[Len(queues)]
  BY RescheduleSteps
<1>2. Len(queues) \in 0 .. Len(queues)
  OBVIOUS
<1>. QED
  BY <1>1, <1>2 DEF LevelSteps

-----------------------------------------------------------------------------
(* next_job_to_schedule.                                                   *)

(* On a node that has a job to start, the first one is found.              *)
LEMMA FirstToStartType ==
  ASSUME NEW g \in Tables, NEW startable, NEW n \in NodesToStart(g, startable)
  PROVE  FirstToStart(g, n, startable) \in Planned(g, n) \cap startable
<1>. DEFINE q == g.chart[n]
            hits == {i \in DOMAIN q : q[i] \in startable}
            IsFirst(i) == q[i] \in startable /\ \A h \in 1 .. i - 1 : q[h] \notin startable
            k == CHOOSE i \in DOMAIN q : IsFirst(i)
<1>1. q \in Seq(Jobs) /\ DOMAIN q = 1 .. Len(q) /\ Len(q) \in Nat
  BY DEF Tables, NodesToStart
<1>2. hits \subseteq Nat /\ hits # {}
  BY <1>1 DEF NodesToStart, Planned
<1>3. PICK i \in hits : \A h \in hits : i =< h
  <2>. HIDE DEF hits
  <2>. QED
    BY <1>2, LeastElement
<1>4. i \in DOMAIN q /\ IsFirst(i)
  <2>1. ASSUME NEW h \in 1 .. i - 1 PROVE q[h] \notin startable
    <3>1. h \in DOMAIN q /\ ~ (i =< h)
      BY <1>1, <1>3
    <3>. QED
      BY <1>3, <3>1
  <2>. QED
    BY <1>3, <2>1
<1>5. k \in DOMAIN q /\ IsFirst(k)
  <2>. HIDE DEF IsFirst, q
  <2>. QED
    BY <1>4
<1>6. FirstToStart(g, n, startable) = q[k]
  BY DEF FirstToStart
<1>. HIDE DEF k
<1>. QED
  BY <1>5, <1>6 DEF Planned

(* The job the resource manager is told to start next is in the table.     *)
LEMMA NextJobType ==
  ASSUME NEW g \in Tables, NEW startable, NodesToStart(g, startable) # {}
  PROVE  /\ NextJob(g, startable) \in Jobs \cap startable
         /\ \E n \in Nodes : NextJob(g, startable) \in Planned(g, n)
<1>. DEFINE S     == NodesToStart(g, startable)
            first == [n \in S |-> FirstToStart(g, n, startable)]
            date  == [n \in S |-> g.start[first[n]]]
            node  == CHOOSE n \in S : \A m \in S : ~ Before(date, m, n)
<1>1. S \in SUBSET Nodes
  BY DEF NodesToStart
<1>2. ASSUME NEW n \in S
      PROVE  first[n] \in Planned(g, n) /\ first[n] \in startable /\ first[n] \in Jobs
  <2>1. first[n] \in Planned(g, n) /\ first[n] \in startable
    BY FirstToStartType
  <2>2. Planned(g, n) \subseteq Jobs
    BY <1>1 DEF Planned, Tables
  <2>. QED
    BY <2>1, <2>2
<1>3. \A n \in S : date[n] \in Nat
  <2>. HIDE DEF first, S
  <2>. QED
    BY <1>2 DEF Tables
<1>4. node \in S
  <2>. HIDE DEF date, S
  <2>1. \E n \in S : \A m \in S : ~ Before(date, m, n)
    BY <1>1, <1>3, FirstNode DEF S
  <2>. QED
    BY <2>1
<1>5. NextJob(g, startable) = first[node]
  BY DEF NextJob
<1>. HIDE DEF node, first, S
<1>. QED
  BY <1>1, <1>2, <1>4, <1>5

-----------------------------------------------------------------------------
(* The size of a choice.                                                   *)

(* The order of the choice is total and strict.                            *)
LEMMA BeforeOrder ==
  ASSUME NEW S \in SUBSET Nodes, NEW key, \A n \in S : key[n] \in Nat
  PROVE  /\ \A n \in S : ~ Before(key, n, n)
         /\ \A m, n \in S : m # n => Before(key, m, n) \/ Before(key, n, m)
         /\ \A l, m, n \in S : Before(key, l, m) /\ Before(key, m, n) => Before(key, l, n)
<1>1. \A n \in S : n \in Nat /\ key[n] \in Nat
  BY DEF Nodes
<1>2. \A n \in S : ~ Before(key, n, n)
  BY <1>1 DEF Before
<1>3. ASSUME NEW m \in S, NEW n \in S, m # n PROVE Before(key, m, n) \/ Before(key, n, m)
  <2>1. m \in Nat /\ n \in Nat /\ key[m] \in Nat /\ key[n] \in Nat
    BY <1>1
  <2>. QED
    BY <1>3, <2>1 DEF Before
<1>4. ASSUME NEW l \in S, NEW m \in S, NEW n \in S, Before(key, l, m), Before(key, m, n)
      PROVE  Before(key, l, n)
  <2>1. /\ l \in Nat /\ m \in Nat /\ n \in Nat
        /\ key[l] \in Nat /\ key[m] \in Nat /\ key[n] \in Nat
    BY <1>1
  <2>. QED
    BY <1>4, <2>1 DEF Before
<1>. QED
  BY <1>2, <1>3, <1>4

(* The next node of a choice: with it, one more is chosen.                 *)
LEMMA LeastGrows ==
  ASSUME NEW S \in SUBSET Nodes, NEW key, \A n \in S : key[n] \in Nat,
         NEW nb \in Nat, nb < Cardinality(S), Cardinality(Least(S, key, nb)) = nb
  PROVE  Cardinality(Least(S, key, nb + 1)) = nb + 1
<1>. DEFINE ahead(n) == {m \in S : Before(key, m, n)}
            L == Least(S, key, nb)
<1>1. IsFiniteSet(S) /\ Cardinality(S) \in Nat
  BY NodesFinite, FS_Subset, FS_CardinalityType
<1>2. \A n \in S : IsFiniteSet(ahead(n)) /\ Cardinality(ahead(n)) \in Nat
  BY <1>1, FS_Subset, FS_CardinalityType
<1>3. /\ \A n \in S : ~ Before(key, n, n)
      /\ \A m, n \in S : m # n => Before(key, m, n) \/ Before(key, n, m)
      /\ \A l, m, n \in S : Before(key, l, m) /\ Before(key, m, n) => Before(key, l, n)
  BY BeforeOrder
<1>4. L = {n \in S : Cardinality(ahead(n)) < nb}
  BY DEF Least
<1>5. Least(S, key, nb + 1) = {n \in S : Cardinality(ahead(n)) < nb + 1}
  BY DEF Least
<1>6. L \subseteq S /\ IsFiniteSet(L) /\ Cardinality(L) = nb
  BY <1>1, <1>4, FS_Subset
<1>7. PICK n \in S \ L : \A m \in S \ L : ~ Before(key, m, n)
  <2>1. S \ L # {}
    <3>1. CASE S \ L = {}
      <4>1. S = L
        BY <1>6, <3>1
      <4>. QED
        BY <1>1, <1>6, <4>1
    <3>. QED
      BY <3>1
  <2>2. S \ L \in SUBSET Nodes /\ \A m \in S \ L : key[m] \in Nat
    OBVIOUS
  <2>. HIDE DEF L
  <2>. QED
    BY <2>1, <2>2, FirstNode
<1>. HIDE DEF L
(* A node that is before another has fewer nodes before it.                *)
<1>8. ASSUME NEW a \in S, NEW b \in S, Before(key, a, b)
      PROVE  Cardinality(ahead(a)) < Cardinality(ahead(b))
  <2>1. ahead(a) \subseteq ahead(b) /\ a \in ahead(b) /\ a \notin ahead(a)
    BY <1>3, <1>8
  <2>. DEFINE A == ahead(a)
              B == ahead(b)
  <2>2. IsFiniteSet(B) /\ IsFiniteSet(A) /\ A \subseteq B /\ A # B
    BY <1>2, <2>1
  <2>. HIDE DEF A, B
  <2>3. Cardinality(A) =< Cardinality(B) /\ Cardinality(A) # Cardinality(B)
    BY <2>2, FS_Subset
  <2>4. Cardinality(A) \in Nat /\ Cardinality(B) \in Nat
    BY <2>2, FS_CardinalityType
  <2>. QED
    BY <2>3, <2>4 DEF A, B
<1>9. ahead(n) = L
  <2>1. ASSUME NEW m \in L PROVE m \in ahead(n)
    <3>1. m \in S /\ m # n /\ Cardinality(ahead(m)) < nb
      BY <1>4, <1>7
    <3>2. CASE Before(key, n, m)
      <4>1. Cardinality(ahead(n)) < Cardinality(ahead(m))
        BY <1>7, <1>8, <3>1, <3>2
      <4>2. ~ (Cardinality(ahead(n)) < nb)
        BY <1>4, <1>7
      <4>3. Cardinality(ahead(n)) \in Nat /\ Cardinality(ahead(m)) \in Nat
        BY <1>2, <1>7, <3>1
      <4>. HIDE DEF ahead
      <4>. QED
        BY <3>1, <4>1, <4>2, <4>3
    <3>. QED
      BY <1>3, <1>7, <3>1, <3>2
  <2>2. ASSUME NEW m \in ahead(n) PROVE m \in L
    BY <1>7, <2>2
  <2>. QED
    BY <2>1, <2>2
<1>10. Least(S, key, nb + 1) = L \cup {n}
  <2>1. ASSUME NEW m \in S, Cardinality(ahead(m)) < nb + 1 PROVE m \in L \cup {n}
    <3>1. CASE Before(key, n, m)
      <4>1. Cardinality(ahead(n)) < Cardinality(ahead(m))
        BY <1>7, <1>8, <3>1
      <4>2. Cardinality(ahead(n)) = nb /\ Cardinality(ahead(m)) \in Nat
        BY <1>2, <1>6, <1>9
      <4>. HIDE DEF ahead
      <4>. QED
        BY <2>1, <4>1, <4>2
    <3>2. CASE m # n /\ Before(key, m, n)
      BY <1>9, <3>2
    <3>. QED
      BY <1>3, <1>7, <3>1, <3>2
  <2>2. ASSUME NEW m \in L PROVE m \in S /\ Cardinality(ahead(m)) < nb + 1
    <3>1. m \in S /\ Cardinality(ahead(m)) < nb /\ Cardinality(ahead(m)) \in Nat
      BY <1>2, <1>4
    <3>. HIDE DEF ahead
    <3>. QED
      BY <3>1
  <2>3. Cardinality(ahead(n)) < nb + 1
    BY <1>6, <1>9
  <2>. HIDE DEF ahead
  <2>. QED
    BY <1>5, <1>7, <2>1, <2>2, <2>3
<1>. QED
  BY <1>6, <1>7, <1>10, FS_AddElement

(* As many nodes are chosen as are asked for, if there are as many.        *)
LEMMA LeastSize ==
  ASSUME NEW S \in SUBSET Nodes, NEW key, \A n \in S : key[n] \in Nat,
         NEW nb \in Nat, nb =< Cardinality(S)
  PROVE  Cardinality(Least(S, key, nb)) = nb
<1>. DEFINE id == [i \in 0 .. nb |-> i]
            Good(i) == Cardinality(Least(S, key, i)) = i
            T == {i \in 0 .. nb : Good(i)}
<1>1. IsFiniteSet(S) /\ Cardinality(S) \in Nat
  BY NodesFinite, FS_Subset, FS_CardinalityType
<1>2. Good(0)
  <2>1. ASSUME NEW n \in S PROVE ~ (Cardinality({m \in S : Before(key, m, n)}) < 0)
    <3>1. Cardinality({m \in S : Before(key, m, n)}) \in Nat
      BY <1>1, FS_Subset, FS_CardinalityType
    <3>. QED
      BY <3>1
  <2>2. Least(S, key, 0) = {}
    BY <2>1 DEF Least
  <2>. QED
    BY <2>2, FS_EmptySet
<1>3. ASSUME NEW i \in 1 .. nb, Good(i - 1) PROVE Good(i)
  <2>1. i - 1 \in Nat /\ i - 1 < Cardinality(S) /\ (i - 1) + 1 = i
    BY <1>1
  <2>. DEFINE k == i - 1
  <2>. HIDE DEF k
  <2>2. Cardinality(Least(S, key, k)) = k /\ k \in Nat /\ k < Cardinality(S) /\ k + 1 = i
    BY <1>3, <2>1 DEF k
  <2>3. Cardinality(Least(S, key, k + 1)) = k + 1
    BY <2>2, LeastGrows
  <2>. QED
    BY <2>2, <2>3
<1>4. \A i \in 0 .. nb : id[i] \in T
  <2>1. id[0] \in T
    BY <1>2
  <2>2. \A i \in 1 .. nb : id[i - 1] \in T => id[i] \in T
    <3>. HIDE DEF Good
    <3>. QED
      BY <1>3
  <2>. HIDE DEF id, T
  <2>. QED
    BY <2>1, <2>2, FunctionInduction
<1>5. Good(nb)
  <2>. HIDE DEF Good
  <2>. QED
    BY <1>4
<1>. QED
  BY <1>5

(* A bid gives the job as many nodes as it asked for, not before date t.   *)
BidRight(bid, nb, t) ==
  /\ Cardinality(bid.nodes) = nb
  /\ bid.lead \in bid.nodes
  /\ t =< bid.start

(* So does fcfs_schedule (fcfs.c:44).                                      *)
LEMMA FcfsBidRight ==
  ASSUME NEW g \in Tables, NEW nb \in 1 .. NbNodes, NEW now \in Nat
  PROVE  BidRight(FcfsBid(g, nb, now), nb, now)
<1>. DEFINE last   == [n \in Nodes |-> LastSlot(g, n, now)]
            chosen == Least(Nodes, last, nb)
            bid    == FcfsBid(g, nb, now)
<1>1. nb \in Nat \ {0} /\ nb =< Cardinality(Nodes)
  BY NodesFinite, NbNodesAssumption
<1>2. \A n \in Nodes : last[n] \in Nat
  BY LastSlotType
<1>3. bid.nodes = chosen /\ bid.lead = CHOOSE n \in chosen : \A m \in chosen : ~ Before(last, m, n)
  BY DEF FcfsBid
<1>4. \A n \in bid.nodes : n \in Nodes /\ LastSlot(g, n, now) =< bid.start
  BY <1>1, FcfsStart
<1>5. bid.start \in Nat
  BY <1>1, FcfsBidFits DEF BidFits
<1>. HIDE DEF last, bid
<1>6. Cardinality(chosen) = nb
  BY <1>1, <1>2, LeastSize
<1>7. chosen \in SUBSET Nodes /\ chosen # {}
  BY <1>1, <1>2, LeastNonEmpty, NodesFinite
<1>. HIDE DEF chosen
<1>8. bid.lead \in chosen
  <2>1. \E n \in chosen : \A m \in chosen : ~ Before(last, m, n)
    BY <1>2, <1>7, FirstNode
  <2>. QED
    BY <1>3, <2>1
<1>9. now =< bid.start
  <2>1. PICK n \in Nodes : LastSlot(g, n, now) =< bid.start
    BY <1>3, <1>4, <1>8
  <2>2. LastSlot(g, n, now) \in Nat /\ now =< LastSlot(g, n, now)
    BY LastSlotType
  <2>. QED
    BY <1>5, <2>1, <2>2
<1>. QED
  BY <1>3, <1>6, <1>8, <1>9 DEF BidRight, bid

(* So does cbf_schedule (cbf.c:50).                                        *)
LEMMA CbfBidRight ==
  ASSUME NEW g \in Tables, NEW nb \in 1 .. NbNodes, NEW t \in Nat, NEW dur
  PROVE  BidRight(CbfBid(g, nb, t, dur), nb, t)
<1>. DEFINE date   == EarliestStart(g, nb, t, dur)
            free   == FreeNodes(g, date, dur)
            key    == [n \in Nodes |-> date]
            chosen == Least(free, key, nb)
            bid    == CbfBid(g, nb, t, dur)
<1>1. date \in Nat /\ t =< date /\ Cardinality(free) >= nb
  BY EarliestStartExists
<1>2. free \in SUBSET Nodes /\ (\A n \in free : key[n] \in Nat) /\ nb \in Nat \ {0}
  BY <1>1, NbNodesAssumption DEF FreeNodes
<1>3. /\ bid.nodes = chosen /\ bid.start = date
      /\ bid.lead = CHOOSE n \in chosen : \A m \in chosen : n =< m
  BY DEF CbfBid
<1>. HIDE DEF free, key, date, bid
<1>4. IsFiniteSet(free) /\ Cardinality(free) \in Nat
  BY <1>2, NodesFinite, FS_Subset, FS_CardinalityType
<1>5. Cardinality(chosen) = nb
  BY <1>1, <1>2, <1>4, LeastSize
<1>6. chosen \subseteq Nat /\ chosen # {}
  <2>1. chosen \subseteq free
    BY DEF Least
  <2>2. chosen # {}
    BY <1>2, <1>5, FS_EmptySet
  <2>. HIDE DEF chosen
  <2>3. \A n \in chosen : n \in Nat
    BY <1>2, <2>1 DEF Nodes
  <2>. QED
    BY <2>2, <2>3
<1>. HIDE DEF chosen
<1>7. bid.lead \in chosen
  <2>1. \E n \in chosen : \A m \in chosen : n =< m
    BY <1>6, LeastElement
  <2>. QED
    BY <1>3, <2>1
<1>. QED
  BY <1>1, <1>3, <1>5, <1>7 DEF BidRight, bid

(* scheduler->schedule, for either plugin.                                 *)
LEMMA ScheduleRight ==
  ASSUME NEW plugin, NEW g \in Tables, NEW j \in Jobs, NEW nb \in 1 .. NbNodes, NEW now \in Nat
  PROVE  LET bid == Schedule(plugin, g, j, nb, now)
         IN  BidFits(g, bid) /\ BidRight(bid, nb, now)
<1>1. nb \in Nat \ {0}
  BY NbNodesAssumption
<1>2. BidFits(g, Schedule(plugin, g, j, nb, now))
  BY <1>1, FcfsBidFits, CbfBidFits DEF Schedule
<1>3. BidRight(Schedule(plugin, g, j, nb, now), nb, now)
  BY FcfsBidRight, CbfBidRight DEF Schedule
<1>. QED
  BY <1>2, <1>3

-----------------------------------------------------------------------------
(* What each operation on a table does: to slots that are in order and do  *)
(* not overlap, by insertion at a position of a bid, removal, rescheduling;*)
(* to the slot of each job; and which job is the next to start.  First     *)
(* insertion.                                                              *)

(* The new job is at its place and the others follow it.                   *)
LEMMA InsertJobProperties ==
  ASSUME NEW q \in Seq(Jobs), NEW p \in 1 .. Len(q) + 1, NEW j \in Jobs
  PROVE  /\ Len(InsertJob(q, p, j)) = Len(q) + 1
         /\ \A i \in 1 .. Len(q) + 1 :
              InsertJob(q, p, j)[i] = IF i < p THEN q[i] ELSE IF i = p THEN j ELSE q[i - 1]
<1>. DEFINE s1 == SubSeq(q, 1, p - 1)
            s2 == SubSeq(q, p, Len(q))
            one == <<j>>
            s3 == s1 \o one
<1>1. Len(q) \in Nat /\ p \in Nat
  OBVIOUS
<1>2. /\ s1 \in Seq(Jobs)
      /\ Len(s1) = p - 1
      /\ \A i \in 1 .. p - 1 : s1[i] = q[i]
  <2>1. \A i \in 1 .. p - 1 : q[i] \in Jobs
    BY <1>1
  <2>2. 1 \in Int /\ p - 1 \in Int
    BY <1>1
  <2>. QED
    BY <1>1, <2>1, <2>2, SubSeqProperties
<1>3. /\ s2 \in Seq(Jobs)
      /\ Len(s2) = Len(q) - p + 1
      /\ \A i \in 1 .. Len(q) - p + 1 : s2[i] = q[p + i - 1]
  <2>1. \A i \in p .. Len(q) : q[i] \in Jobs
    BY <1>1
  <2>2. p \in Int /\ Len(q) \in Int
    BY <1>1
  <2>3. /\ s2 \in Seq(Jobs)
        /\ Len(s2) = IF p =< Len(q) THEN Len(q) - p + 1 ELSE 0
        /\ \A i \in 1 .. Len(q) - p + 1 : s2[i] = q[p + i - 1]
    BY <2>1, <2>2, SubSeqProperties
  <2>. HIDE DEF s2
  <2>. QED
    BY <1>1, <2>3
<1>4. one \in Seq(Jobs) /\ Len(one) = 1 /\ one[1] = j
  OBVIOUS
<1>5. InsertJob(q, p, j) = s3 \o s2
  BY DEF InsertJob
<1>. HIDE DEF s1, s2, one
<1>6. /\ s3 \in Seq(Jobs)
      /\ Len(s3) = p
      /\ \A i \in 1 .. p : s3[i] = IF i =< p - 1 THEN s1[i] ELSE one[i - (p - 1)]
  <2>1. /\ s3 \in Seq(Jobs)
        /\ Len(s3) = Len(s1) + Len(one)
        /\ \A i \in 1 .. Len(s1) + Len(one) :
             s3[i] = IF i =< Len(s1) THEN s1[i] ELSE one[i - Len(s1)]
    BY <1>2, <1>4, ConcatProperties
  <2>2. Len(s1) + Len(one) = p
    BY <1>1, <1>2, <1>4
  <2>. HIDE DEF s3
  <2>. QED
    BY <1>2, <2>1, <2>2
<1>. HIDE DEF s3
<1>7. /\ Len(s3 \o s2) = Len(q) + 1
      /\ \A i \in 1 .. Len(q) + 1 : (s3 \o s2)[i] = IF i =< p THEN s3[i] ELSE s2[i - p]
  <2>1. /\ Len(s3 \o s2) = Len(s3) + Len(s2)
        /\ \A i \in 1 .. Len(s3) + Len(s2) :
             (s3 \o s2)[i] = IF i =< Len(s3) THEN s3[i] ELSE s2[i - Len(s3)]
    BY <1>3, <1>6, ConcatProperties
  <2>2. Len(s3) + Len(s2) = Len(q) + 1
    BY <1>1, <1>3, <1>6
  <2>. QED
    BY <1>6, <2>1, <2>2
<1>8. ASSUME NEW i \in 1 .. Len(q) + 1
      PROVE  (s3 \o s2)[i] = IF i < p THEN q[i] ELSE IF i = p THEN j ELSE q[i - 1]
  <2>1. CASE i < p
    BY <1>1, <1>2, <1>6, <1>7, <2>1
  <2>2. CASE i = p
    <3>1. i =< p /\ ~ (i =< p - 1) /\ i - (p - 1) = 1 /\ i \in 1 .. p
      BY <1>1, <2>2
    <3>. QED
      BY <1>4, <1>6, <1>7, <2>2, <3>1
  <2>3. CASE i > p
    <3>1. ~ (i =< p) /\ i - p \in 1 .. Len(q) - p + 1 /\ p + (i - p) - 1 = i - 1
      BY <1>1, <2>3
    <3>2. s2[i - p] = q[p + (i - p) - 1]
      BY <1>3, <3>1
    <3>. QED
      BY <1>7, <2>3, <3>1, <3>2
  <2>4. i < p \/ i = p \/ i > p
    BY <1>1
  <2>5. CASE i > p
    <3>1. ~ (i < p) /\ i # p
      BY <1>1, <2>5
    <3>. QED
      BY <2>3, <2>5, <3>1
  <2>6. CASE i = p
    <3>1. ~ (i < p)
      BY <1>1, <2>6
    <3>. QED
      BY <2>2, <2>6, <3>1
  <2>. QED
    BY <2>1, <2>4, <2>5, <2>6
<1>. QED
  BY <1>5, <1>7, <1>8

(***************************************************************************)
(* A slot between two others: h has the planned dates of g for the queue,  *)
(* and j fits between its neighbours.                                      *)
(***************************************************************************)
LEMMA InsertOrdered ==
  ASSUME NEW g \in Tables, NEW h \in Tables, NEW q \in Seq(Jobs), Ordered(g, q),
         NEW p \in 1 .. Len(q) + 1, NEW j \in Jobs,
         h.wall = g.wall,
         \A i \in 1 .. Len(q) : h.start[q[i]] = g.start[q[i]],
         \A k \in 1 .. p - 1 : End(g, q[k]) =< h.start[j],
         p # Len(q) + 1 => End(h, j) =< g.start[q[p]]
  PROVE  Ordered(h, InsertJob(q, p, j))
<1>. DEFINE r == InsertJob(q, p, j)
<1>1. /\ Len(r) = Len(q) + 1
      /\ \A i \in 1 .. Len(q) + 1 : r[i] = IF i < p THEN q[i] ELSE IF i = p THEN j ELSE q[i - 1]
  BY InsertJobProperties
<1>. HIDE DEF r
<1>2. Len(q) \in Nat /\ p \in Nat /\ \A i \in 1 .. Len(q) : q[i] \in Jobs
  OBVIOUS
<1>3. \A i \in 1 .. Len(q) : /\ End(h, q[i]) = End(g, q[i])
                             /\ h.start[q[i]] \in Nat
                             /\ h.start[q[i]] =< End(h, q[i])
                             /\ End(h, q[i]) \in Nat
  <2>1. ASSUME NEW i \in 1 .. Len(q)
        PROVE  /\ h.start[q[i]] \in Nat /\ h.wall[q[i]] \in Nat
               /\ h.start[q[i]] = g.start[q[i]] /\ h.wall[q[i]] = g.wall[q[i]]
    BY <1>2 DEF Tables
  <2>. QED
    BY <2>1 DEF End
<1>4. h.start[j] \in Nat /\ End(h, j) \in Nat
  BY DEF End, Tables
(* After p the slots begin later still.                                    *)
<1>5. ASSUME NEW k \in p .. Len(q) PROVE End(h, j) =< h.start[q[k]]
  <2>1. p \in 1 .. Len(q) /\ k \in 1 .. Len(q) /\ p # Len(q) + 1
    BY <1>2
  <2>2. CASE k = p
    BY <2>1, <2>2
  <2>3. CASE k # p
    <3>1. End(g, q[p]) =< g.start[q[k]]
      BY <1>2, <2>1, <2>3 DEF Ordered
    <3>2. h.start[q[p]] = g.start[q[p]] /\ h.start[q[k]] = g.start[q[k]]
      BY <2>1
    <3>. QED
      BY <1>3, <1>4, <2>1, <3>1, <3>2
  <2>. QED
    BY <2>2, <2>3
<1>6. ASSUME NEW i \in 1 .. Len(r), NEW k \in 1 .. Len(r), i < k
      PROVE  End(h, r[i]) =< h.start[r[k]]
  <2>1. i \in 1 .. Len(q) + 1 /\ k \in 1 .. Len(q) + 1
    BY <1>1
  <2>2. CASE i = p
    <3>1. r[i] = j /\ r[k] = q[k - 1] /\ k - 1 \in p .. Len(q)
      BY <1>1, <1>2, <1>6, <2>1, <2>2
    <3>. QED
      BY <1>5, <3>1
  <2>3. CASE k = p
    <3>1. r[k] = j /\ r[i] = q[i] /\ i \in 1 .. p - 1 /\ i \in 1 .. Len(q)
      BY <1>1, <1>2, <1>6, <2>1, <2>3
    <3>. QED
      BY <1>3, <3>1
  <2>4. CASE i # p /\ k # p
    <3>. DEFINE a == IF i < p THEN i ELSE i - 1
                b == IF k < p THEN k ELSE k - 1
    <3>1. a \in 1 .. Len(q) /\ b \in 1 .. Len(q) /\ a < b
      BY <1>2, <1>6, <2>1, <2>4
    <3>2. r[i] = q[a] /\ r[k] = q[b]
      BY <1>1, <1>2, <2>1, <2>4
    <3>. HIDE DEF a, b
    <3>3. End(g, q[a]) =< g.start[q[b]]
      BY <3>1 DEF Ordered
    <3>. QED
      BY <1>3, <3>1, <3>2, <3>3
  <2>. QED
    BY <2>2, <2>3, <2>4
<1>. QED
  BY <1>6 DEF Ordered, r

(* Neither are there other jobs in the queue.                              *)
LEMMA InsertNotIn ==
  ASSUME NEW q \in Seq(Jobs), NEW p \in 1 .. Len(q) + 1, NEW j \in Jobs, NEW x, x # j,
         NotIn(q, x)
  PROVE  NotIn(InsertJob(q, p, j), x)
<1>. DEFINE r == InsertJob(q, p, j)
<1>1. /\ Len(r) = Len(q) + 1
      /\ \A i \in 1 .. Len(q) + 1 : r[i] = IF i < p THEN q[i] ELSE IF i = p THEN j ELSE q[i - 1]
  BY InsertJobProperties
<1>. HIDE DEF r
<1>2. Len(q) \in Nat
  OBVIOUS
<1>3. ASSUME NEW i \in 1 .. Len(q) + 1 PROVE r[i] # x
  <2>1. CASE i < p
    BY <1>1, <1>2, <2>1 DEF NotIn
  <2>2. CASE i = p
    BY <1>1, <1>2, <2>2
  <2>3. CASE i > p
    <3>1. i - 1 \in 1 .. Len(q)
      BY <1>2, <2>3
    <3>. QED
      BY <1>1, <2>3, <3>1 DEF NotIn
  <2>. QED
    BY <1>2, <2>1, <2>2, <2>3
<1>. QED
  BY <1>1, <1>3 DEF NotIn, r

-----------------------------------------------------------------------------
(* Bids.                                                                   *)

(* The slot a bid names is free on each of its nodes.                      *)
BidClear(g, j, bid) ==
  \A n \in bid.nodes :
    /\ \A k \in 1 .. bid.pos[n] - 1 : End(g, g.chart[n][k]) =< bid.start
    /\ bid.pos[n] # Len(g.chart[n]) + 1 =>
         bid.start + g.wall[j] =< g.start[g.chart[n][bid.pos[n]]]

(* In an ordered queue every slot is over at the end of the last.          *)
LEMMA LastSlotLast ==
  ASSUME NEW g \in Tables, NEW n \in Nodes, NEW now \in Nat, Ordered(g, g.chart[n]),
         NEW k \in 1 .. Len(g.chart[n])
  PROVE  End(g, g.chart[n][k]) =< LastSlot(g, n, now)
<1>. DEFINE q == g.chart[n]
            e == Len(q)
<1>1. q \in Seq(Jobs) /\ e \in Nat /\ k \in 1 .. e
  BY DEF Tables
<1>2. q # <<>> /\ e \in 1 .. e /\ q[e] \in Jobs /\ q[k] \in Jobs
  BY <1>1
<1>3. g.start[q[e]] \in Nat /\ g.wall[q[e]] \in Nat /\ End(g, q[k]) \in Nat
  BY <1>2 DEF Tables, End
<1>4. End(g, q[e]) =< LastSlot(g, n, now)
  BY <1>2, <1>3 DEF LastSlot, End
<1>5. CASE k = e
  BY <1>4, <1>5
<1>6. CASE k # e
  <2>1. End(g, q[k]) =< g.start[q[e]]
    BY <1>1, <1>2, <1>6 DEF Ordered
  <2>2. LastSlot(g, n, now) \in Nat
    BY LastSlotType
  <2>. QED
    BY <1>3, <1>4, <2>1, <2>2 DEF End
<1>. QED
  BY <1>5, <1>6

(* fcfs starts the job when the last of its nodes is free.                 *)
LEMMA FcfsBidClear ==
  ASSUME NEW g \in Tables, AllOrdered(g), NEW j \in Jobs, NEW nb \in Nat \ {0}, NEW now \in Nat
  PROVE  BidClear(g, j, FcfsBid(g, nb, now))
<1>. DEFINE bid == FcfsBid(g, nb, now)
<1>1. \A n \in bid.nodes : /\ n \in Nodes
                           /\ bid.pos[n] = Len(g.chart[n]) + 1
                           /\ LastSlot(g, n, now) =< bid.start
  BY FcfsStart
<1>2. bid.start \in Nat
  BY FcfsBidFits DEF BidFits
<1>. HIDE DEF bid
<1>3. ASSUME NEW n \in bid.nodes, NEW k \in 1 .. bid.pos[n] - 1
      PROVE  End(g, g.chart[n][k]) =< bid.start
  <2>1. n \in Nodes /\ g.chart[n] \in Seq(Jobs)
    BY <1>1 DEF Tables
  <2>2. k \in 1 .. Len(g.chart[n]) /\ g.chart[n][k] \in Jobs
    BY <1>1, <2>1
  <2>3. End(g, g.chart[n][k]) =< LastSlot(g, n, now)
    BY <2>1, <2>2, LastSlotLast DEF AllOrdered
  <2>4. End(g, g.chart[n][k]) \in Nat
    BY <2>2 DEF End, Tables
  <2>5. LastSlot(g, n, now) \in Nat
    BY <2>1, LastSlotType
  <2>. QED
    BY <1>1, <1>2, <2>3, <2>4, <2>5
<1>. QED
  BY <1>1, <1>3 DEF BidClear, bid

(* cbf starts it at a date when each of its nodes is free long enough.     *)
LEMMA CbfBidClear ==
  ASSUME NEW g \in Tables, NEW j \in Jobs, NEW nb \in 1 .. NbNodes, NEW t \in Nat
  PROVE  BidClear(g, j, CbfBid(g, nb, t, g.wall[j]))
<1>. DEFINE dur == g.wall[j]
            bid == CbfBid(g, nb, t, dur)
<1>1. bid.start \in Nat /\ dur \in Nat
  BY CbfBidFits DEF BidFits, Tables
<1>2. \A n \in bid.nodes : /\ n \in Nodes
                           /\ bid.pos[n] \in 1 .. Len(g.chart[n]) + 1
                           /\ FitsAt(g, n, bid.pos[n], bid.start, dur)
  BY CbfPosition
<1>. HIDE DEF bid, dur
<1>3. ASSUME NEW n \in bid.nodes, bid.pos[n] # Len(g.chart[n]) + 1
      PROVE  bid.start + dur =< g.start[g.chart[n][bid.pos[n]]]
  <2>1. n \in Nodes /\ g.chart[n] \in Seq(Jobs)
    BY <1>2 DEF Tables
  <2>2. g.chart[n][bid.pos[n]] \in Jobs
    BY <1>2, <1>3, <2>1
  <2>3. g.start[g.chart[n][bid.pos[n]]] - bid.start > dur
    BY <1>2, <1>3 DEF FitsAt
  <2>4. g.start[g.chart[n][bid.pos[n]]] \in Nat
    BY <2>2 DEF Tables
  <2>. QED
    BY <1>1, <2>3, <2>4
<1>. QED
  BY <1>2, <1>3 DEF BidClear, FitsAt, bid, dur

(***************************************************************************)
(* accept keeps the slots apart: the job is not in the table, or its date  *)
(* does not change.                                                        *)
(***************************************************************************)
LEMMA AcceptOrdered ==
  ASSUME NEW g \in Tables, AllOrdered(g), NEW j \in Jobs, NEW bid,
         BidFits(g, bid), BidClear(g, j, bid),
         Absent(g, j) \/ bid.start = g.start[j]
  PROVE  AllOrdered(Accept(g, j, bid))
<1>. DEFINE h == Accept(g, j, bid)
<1>1. h \in Tables
  BY AcceptTyped
<1>2. /\ h.wall = g.wall
      /\ h.start = [g.start EXCEPT ![j] = bid.start]
      /\ h.chart = [n \in Nodes |-> IF n \in bid.nodes
                                      THEN InsertJob(g.chart[n], bid.pos[n], j)
                                      ELSE g.chart[n]]
  BY DEF Accept, Tables
<1>. HIDE DEF h
<1>3. h.start[j] = bid.start /\ bid.start \in Nat
  BY <1>2 DEF Tables, BidFits
<1>4. ASSUME NEW n \in Nodes PROVE Ordered(h, h.chart[n])
  <2>. DEFINE q == g.chart[n]
  <2>1. q \in Seq(Jobs) /\ Ordered(g, q)
    BY DEF Tables, AllOrdered
  <2>2. \A i \in 1 .. Len(q) : q[i] \in Jobs /\ (q[i] = j => bid.start = g.start[j])
    BY <2>1 DEF Absent, NotIn
  <2>3. \A i \in 1 .. Len(q) : h.start[q[i]] = g.start[q[i]]
    BY <1>2, <2>2 DEF Tables
  <2>4. CASE n \notin bid.nodes
    <3>1. h.chart[n] = q
      BY <1>2, <2>4
    <3>. HIDE DEF q
    <3>2. \A i \in 1 .. Len(q) : End(h, q[i]) = End(g, q[i])
      BY <1>2, <2>3 DEF End
    <3>. QED
      BY <2>1, <2>3, <3>1, <3>2 DEF Ordered
  <2>5. CASE n \in bid.nodes
    <3>. DEFINE p == bid.pos[n]
    <3>1. h.chart[n] = InsertJob(q, p, j)
      BY <1>2, <2>5
    <3>2. p \in 1 .. Len(q) + 1
      BY <2>5 DEF BidFits
    <3>3. \A k \in 1 .. p - 1 : End(g, q[k]) =< h.start[j]
      BY <1>3, <2>5 DEF BidClear
    <3>4. p # Len(q) + 1 => End(h, j) =< g.start[q[p]]
      BY <1>2, <1>3, <2>5 DEF BidClear, End
    <3>5. h.wall = g.wall
      BY <1>2
    <3>. HIDE DEF p, q
    <3>6. Ordered(h, InsertJob(q, p, j))
      BY <1>1, <2>1, <2>3, <3>2, <3>3, <3>4, <3>5, InsertOrdered
    <3>. QED
      BY <3>1, <3>6
  <2>. QED
    BY <2>4, <2>5
<1>. QED
  BY <1>4 DEF AllOrdered, h

(* Accepting a bid gives no slot to the other jobs.                        *)
LEMMA AcceptAbsent ==
  ASSUME NEW g \in Tables, NEW j \in Jobs, NEW bid, BidFits(g, bid), NEW x, x # j, Absent(g, x)
  PROVE  Absent(Accept(g, j, bid), x)
<1>1. Accept(g, j, bid).chart = [n \in Nodes |-> IF n \in bid.nodes
                                      THEN InsertJob(g.chart[n], bid.pos[n], j)
                                      ELSE g.chart[n]]
  BY DEF Accept, Tables
<1>2. ASSUME NEW n \in bid.nodes PROVE NotIn(InsertJob(g.chart[n], bid.pos[n], j), x)
  <2>1. n \in Nodes /\ g.chart[n] \in Seq(Jobs) /\ bid.pos[n] \in 1 .. Len(g.chart[n]) + 1
    BY DEF BidFits, Tables
  <2>. QED
    BY <2>1, InsertNotIn DEF Absent
<1>. QED
  BY <1>1, <1>2 DEF Absent

(* scheduler->schedule and scheduler->accept, for either plugin.           *)
LEMMA ScheduleOrdered ==
  ASSUME NEW plugin, NEW g \in Tables, AllOrdered(g), NEW j \in Jobs, Absent(g, j),
         NEW nb \in 1 .. NbNodes, NEW now \in Nat
  PROVE  LET h == Accept(g, j, Schedule(plugin, g, j, nb, now))
         IN  /\ AllOrdered(h)
             /\ \A x : x # j /\ Absent(g, x) => Absent(h, x)
<1>. DEFINE bid == Schedule(plugin, g, j, nb, now)
<1>1. nb \in Nat \ {0}
  BY NbNodesAssumption
<1>2. BidFits(g, bid)
  BY <1>1, FcfsBidFits, CbfBidFits DEF Schedule
<1>3. BidClear(g, j, bid)
  BY <1>1, FcfsBidClear, CbfBidClear DEF Schedule
<1>. HIDE DEF bid
<1>4. AllOrdered(Accept(g, j, bid))
  BY <1>2, <1>3, AcceptOrdered
<1>5. \A x : x # j /\ Absent(g, x) => Absent(Accept(g, j, bid), x)
  BY <1>2, AcceptAbsent
<1>. QED
  BY <1>4, <1>5 DEF bid

-----------------------------------------------------------------------------
(* Removals.                                                               *)

(* What is kept of a queue stays in order, and comes from the queue.       *)
LEMMA KeepOrdered ==
  ASSUME NEW g \in Tables, NEW q \in Seq(Jobs), Ordered(g, q), NEW S
  PROVE  /\ Ordered(g, Keep(q, S))
         /\ \A i \in 1 .. Len(Keep(q, S)) :
              Keep(q, S)[i] \in S /\ \E h \in 1 .. Len(q) : Keep(q, S)[i] = q[h]
<1>1. PICK f : KeepSteps(f, q, S) /\ Keep(q, S) = f[Len(q)]
  BY KeepIsSteps
<1>. DEFINE n == Len(q)
            From(i) == \A k \in 1 .. Len(f[i]) :
                         f[i][k] \in S /\ \E h \in 1 .. i : f[i][k] = q[h]
            Good(i) == From(i) /\ Ordered(g, f[i])
            id == [i \in 0 .. n |-> i]
            T == {i \in 0 .. n : Good(i)}
<1>2. n \in Nat /\ f[0] = <<>> /\ f \in [0 .. n -> Seq(Jobs)]
  BY <1>1 DEF KeepSteps
<1>3. Good(0)
  BY <1>2 DEF Ordered
<1>4. ASSUME NEW i \in 1 .. n, Good(i - 1) PROVE Good(i)
  <2>1. i - 1 \in 0 .. n /\ i \in 0 .. n /\ q[i] \in Jobs
    BY <1>2
  <2>2. f[i - 1] \in Seq(Jobs) /\ f[i] \in Seq(Jobs)
    BY <1>2, <2>1
  <2>3. CASE q[i] \notin S
    <3>1. f[i] = f[i - 1]
      BY <1>1, <2>3 DEF KeepSteps
    <3>. HIDE DEF n
    <3>2. \A h \in 1 .. i - 1 : h \in 1 .. i
      BY <1>2
    <3>. QED
      BY <1>4, <3>1, <3>2
  <2>4. CASE q[i] \in S
    <3>1. f[i] = Append(f[i - 1], q[i])
      BY <1>1, <2>4 DEF KeepSteps
    <3>. DEFINE r == f[i - 1]
                t == f[i]
    <3>2. /\ Len(t) = Len(r) + 1 /\ Len(r) \in Nat
          /\ t[Len(r) + 1] = q[i]
          /\ \A k \in 1 .. Len(r) : t[k] = r[k]
      BY <2>1, <2>2, <3>1
    <3>3. \A k \in 1 .. Len(r) : r[k] \in S /\ \E h \in 1 .. i - 1 : r[k] = q[h]
      BY <1>4
    <3>4. Ordered(g, r)
      BY <1>4
    <3>. HIDE DEF r, t
    <3>5. From(i)
      <4>1. ASSUME NEW k \in 1 .. Len(t)
            PROVE  t[k] \in S /\ \E h \in 1 .. i : t[k] = q[h]
        <5>1. CASE k = Len(r) + 1
          <6>1. i \in 1 .. i
            BY <1>2
          <6>. QED
            BY <2>4, <3>2, <5>1, <6>1
        <5>2. CASE k # Len(r) + 1
          <6>1. k \in 1 .. Len(r)
            BY <3>2, <5>2
          <6>2. \A h \in 1 .. i - 1 : h \in 1 .. i
            BY <1>2
          <6>. QED
            BY <3>2, <3>3, <6>1, <6>2
        <5>. QED
          BY <5>1, <5>2
      <4>. QED
        BY <4>1 DEF t
    <3>6. ASSUME NEW a \in 1 .. Len(t), NEW b \in 1 .. Len(t), a < b
          PROVE  End(g, t[a]) =< g.start[t[b]]
      <4>1. a \in 1 .. Len(r) /\ t[a] = r[a]
        BY <3>2, <3>6
      <4>2. CASE b = Len(r) + 1
        <5>1. PICK h \in 1 .. i - 1 : r[a] = q[h]
          BY <3>3, <4>1
        <5>2. h \in 1 .. Len(q) /\ i \in 1 .. Len(q) /\ h < i
          BY <1>2, <5>1
        <5>. QED
          BY <3>2, <4>1, <4>2, <5>1, <5>2 DEF Ordered
      <4>3. CASE b # Len(r) + 1
        <5>1. b \in 1 .. Len(r) /\ t[b] = r[b]
          BY <3>2, <4>3
        <5>. QED
          BY <3>4, <3>6, <4>1, <5>1 DEF Ordered
      <4>. QED
        BY <4>2, <4>3
    <3>7. Ordered(g, t)
      BY <3>6 DEF Ordered
    <3>. QED
      BY <3>5, <3>7 DEF t
  <2>. QED
    BY <2>3, <2>4
<1>5. \A i \in 0 .. n : id[i] \in T
  <2>1. id[0] \in T
    BY <1>2, <1>3
  <2>2. \A i \in 1 .. n : id[i - 1] \in T => id[i] \in T
    <3>. HIDE DEF Good
    <3>. QED
      BY <1>2, <1>4
  <2>. HIDE DEF id, T, n
  <2>. QED
    BY <1>2, <2>1, <2>2, FunctionInduction
<1>6. Good(n)
  <2>. HIDE DEF Good
  <2>. QED
    BY <1>2, <1>5
<1>. QED
  BY <1>1, <1>6

(* cluster_clean: the others stay in order, the waiting jobs are gone.     *)
LEMMA CleanOrdered ==
  ASSUME NEW g \in Tables, AllOrdered(g), NEW waiting
  PROVE  LET h == Clean(g, waiting)
         IN  /\ AllOrdered(h)
             /\ \A x : x \in waiting \/ Absent(g, x) => Absent(h, x)
<1>. DEFINE h == Clean(g, waiting)
<1>1. /\ h.start = g.start /\ h.wall = g.wall
      /\ h.chart = [n \in Nodes |-> Keep(g.chart[n], Jobs \ waiting)]
  BY DEF Clean, Tables
<1>. HIDE DEF h
<1>2. ASSUME NEW n \in Nodes
      PROVE  /\ Ordered(h, h.chart[n])
             /\ \A x : x \in waiting \/ NotIn(g.chart[n], x) => NotIn(h.chart[n], x)
  <2>. DEFINE q == g.chart[n]
  <2>1. q \in Seq(Jobs) /\ Ordered(g, q)
    BY DEF Tables, AllOrdered
  <2>2. h.chart[n] = Keep(q, Jobs \ waiting)
    BY <1>1
  <2>. DEFINE S == Jobs \ waiting
  <2>. HIDE DEF q, S
  <2>3. /\ Ordered(g, Keep(q, S))
        /\ \A i \in 1 .. Len(Keep(q, S)) :
             Keep(q, S)[i] \in S /\ \E k \in 1 .. Len(q) : Keep(q, S)[i] = q[k]
    BY <2>1, KeepOrdered
  <2>4. Ordered(h, h.chart[n])
    BY <1>1, <2>2, <2>3 DEF Ordered, End, S
  <2>5. \A x : x \in waiting \/ NotIn(q, x) => NotIn(h.chart[n], x)
    BY <2>2, <2>3 DEF NotIn, S
  <2>. QED
    BY <2>4, <2>5 DEF q
<1>. QED
  BY <1>2 DEF AllOrdered, Absent, h

(* cluster_delete_done_job takes the head of some queues.                  *)
LEMMA DeleteDoneOrdered ==
  ASSUME NEW g \in Tables, AllOrdered(g), NEW j
  PROVE  LET h == DeleteDone(g, j)
         IN  /\ AllOrdered(h)
             /\ \A x : Absent(g, x) => Absent(h, x)
<1>. DEFINE h == DeleteDone(g, j)
<1>1. /\ h.start = g.start /\ h.wall = g.wall
      /\ h.chart = [n \in Nodes |-> IF g.chart[n] # <<>> /\ g.chart[n][1] = j
                                      THEN Tail(g.chart[n]) ELSE g.chart[n]]
  BY DEF DeleteDone, Tables
<1>. HIDE DEF h
<1>2. ASSUME NEW n \in Nodes
      PROVE  /\ Ordered(h, h.chart[n])
             /\ \A x : NotIn(g.chart[n], x) => NotIn(h.chart[n], x)
  <2>. DEFINE q == g.chart[n]
  <2>1. q \in Seq(Jobs) /\ Ordered(g, q)
    BY DEF Tables, AllOrdered
  <2>2. h.chart[n] = q \/ (q # <<>> /\ h.chart[n] = Tail(q))
    BY <1>1
  <2>. HIDE DEF q
  <2>3. CASE h.chart[n] = q
    BY <1>1, <2>1, <2>3 DEF Ordered, End, q
  <2>4. CASE q # <<>> /\ h.chart[n] = Tail(q)
    <3>1. /\ Len(Tail(q)) = Len(q) - 1 /\ Len(q) \in Nat
          /\ \A i \in 1 .. Len(Tail(q)) : Tail(q)[i] = q[i + 1] /\ i + 1 \in 1 .. Len(q)
      BY <2>1, <2>4
    <3>2. ASSUME NEW i \in 1 .. Len(Tail(q)), NEW k \in 1 .. Len(Tail(q)), i < k
          PROVE  End(h, Tail(q)[i]) =< h.start[Tail(q)[k]]
      <4>1. i + 1 \in 1 .. Len(q) /\ k + 1 \in 1 .. Len(q) /\ i + 1 < k + 1
        BY <3>1, <3>2
      <4>2. End(g, q[i + 1]) =< g.start[q[k + 1]]
        BY <2>1, <4>1 DEF Ordered
      <4>. QED
        BY <1>1, <3>1, <4>2 DEF End
    <3>3. \A x : NotIn(q, x) => NotIn(Tail(q), x)
      BY <3>1 DEF NotIn
    <3>. QED
      BY <2>4, <3>2, <3>3 DEF Ordered, q
  <2>. QED
    BY <2>2, <2>3, <2>4
<1>. QED
  BY <1>2 DEF AllOrdered, Absent, h

-----------------------------------------------------------------------------
(* generic_reschedule.                                                     *)

(* One queue: its movable jobs are not in the table, and each is there once*)
LEMMA RescheduleQueueOrdered ==
  ASSUME NEW plugin, NEW g \in Tables, AllOrdered(g), NEW q \in Seq(Jobs), NEW movable,
         NEW procs, NEW now \in Nat,
         \A i \in 1 .. Len(q) : q[i] \in movable =>
           procs[q[i]] \in 1 .. NbNodes /\ Absent(g, q[i]),
         \A i, k \in 1 .. Len(q) : q[i] = q[k] => i = k
  PROVE  LET h == RescheduleQueue(plugin, g, q, movable, procs, now)
         IN  /\ AllOrdered(h)
             /\ \A x : Absent(g, x) /\ NotIn(q, x) => Absent(h, x)
<1>1. PICK f : /\ QueueSteps(f, plugin, g, q, movable, procs, now)
               /\ RescheduleQueue(plugin, g, q, movable, procs, now) = f[Len(q)]
  BY RescheduleQueueSteps
<1>. DEFINE n == Len(q)
            Before1(i, x) == \A k \in 1 .. i : q[k] # x
            Good(i) == /\ AllOrdered(f[i])
                       /\ \A x : Absent(g, x) /\ Before1(i, x) => Absent(f[i], x)
            id == [i \in 0 .. n |-> i]
            T == {i \in 0 .. n : Good(i)}
<1>2. n \in Nat /\ f[0] = g /\ f \in [0 .. n -> Tables]
  BY <1>1 DEF QueueSteps
<1>3. Good(0)
  BY <1>2
<1>4. ASSUME NEW i \in 1 .. n, Good(i - 1) PROVE Good(i)
  <2>1. i - 1 \in 0 .. n /\ q[i] \in Jobs /\ f[i - 1] \in Tables
    BY <1>2
  <2>. DEFINE h == f[i - 1]
              j == q[i]
  <2>2. AllOrdered(h) /\ \A x : Absent(g, x) /\ Before1(i - 1, x) => Absent(h, x)
    BY <1>4
  <2>3. \A x : Before1(i, x) => Before1(i - 1, x) /\ x # j
    BY <1>2
  <2>4. CASE j \notin movable
    <3>1. f[i] = h
      BY <1>1, <2>4 DEF QueueSteps
    <3>. HIDE DEF h, j, Before1
    <3>. QED
      BY <2>2, <2>3, <3>1
  <2>5. CASE j \in movable
    <3>1. f[i] = Accept(h, j, Schedule(plugin, h, j, procs[j], now))
      BY <1>1, <2>5 DEF QueueSteps
    <3>2. Before1(i - 1, j)
      BY <1>2
    <3>3. procs[j] \in 1 .. NbNodes /\ Absent(h, j)
      BY <2>2, <2>5, <3>2
    <3>. DEFINE nb == procs[j]
                h2 == Accept(h, j, Schedule(plugin, h, j, nb, now))
    <3>4. h \in Tables /\ j \in Jobs /\ AllOrdered(h) /\ Absent(h, j) /\ nb \in 1 .. NbNodes
      BY <2>1, <2>2, <3>3
    <3>5. f[i] = h2
      BY <3>1
    <3>. HIDE DEF h, j, Before1, nb
    <3>6. AllOrdered(h2) /\ \A x : x # j /\ Absent(h, x) => Absent(h2, x)
      BY <3>4, ScheduleOrdered
    <3>. HIDE DEF h2
    <3>7. /\ AllOrdered(f[i])
          /\ \A x : x # j /\ Absent(h, x) => Absent(f[i], x)
      BY <3>5, <3>6
    <3>. QED
      BY <2>2, <2>3, <3>7
  <2>. QED
    BY <2>4, <2>5
<1>5. \A i \in 0 .. n : id[i] \in T
  <2>1. id[0] \in T
    BY <1>2, <1>3
  <2>2. \A i \in 1 .. n : id[i - 1] \in T => id[i] \in T
    <3>. HIDE DEF Good
    <3>. QED
      BY <1>2, <1>4
  <2>. HIDE DEF id, T, n
  <2>. QED
    BY <1>2, <2>1, <2>2, FunctionInduction
<1>6. Good(n)
  <2>. HIDE DEF Good
  <2>. QED
    BY <1>2, <1>5
<1>. QED
  BY <1>1, <1>6 DEF NotIn

(***************************************************************************)
(* All of them: cleaned of the waiting jobs, the table takes back those    *)
(* that can be moved, each once.                                           *)
(***************************************************************************)
LEMMA RescheduleOrdered ==
  ASSUME NEW plugin, NEW g \in Tables, AllOrdered(g), NEW qs \in Seq(Seq(Jobs)), Once(qs),
         NEW waiting, NEW movable, movable \subseteq waiting,
         NEW procs, MovableFit(qs, movable, procs), NEW now \in Nat
  PROVE  LET h == Reschedule(plugin, g, qs, waiting, movable, procs, now)
         IN  /\ AllOrdered(h)
             /\ \A x : Absent(g, x) /\ Untraced(qs, x) => Absent(h, x)
<1>. DEFINE n == Len(qs)
            first == Clean(g, waiting)
<1>1. PICK f : /\ LevelSteps(f, plugin, first, qs, movable, procs, now)
               /\ Reschedule(plugin, g, qs, waiting, movable, procs, now) = f[n]
  BY RescheduleSteps
<1>. DEFINE Before1(i, x) == \A m \in 1 .. i : NotIn(qs[n + 1 - m], x)
            Good(i) == /\ AllOrdered(f[i])
                       /\ \A x : Absent(first, x) /\ Before1(i, x) => Absent(f[i], x)
            id == [i \in 0 .. n |-> i]
            T == {i \in 0 .. n : Good(i)}
<1>2. n \in Nat /\ f[0] = first /\ f \in [0 .. n -> Tables]
  BY <1>1 DEF LevelSteps
<1>3. AllOrdered(first) /\ \A x : x \in waiting \/ Absent(g, x) => Absent(first, x)
  BY CleanOrdered
<1>. HIDE DEF first
<1>4. Good(0)
  BY <1>2, <1>3
<1>5. ASSUME NEW i \in 1 .. n, Good(i - 1) PROVE Good(i)
  <2>. DEFINE p == n + 1 - i
              q == qs[p]
              h == f[i - 1]
  <2>1. p \in 1 .. n /\ h \in Tables
    <3>1. p \in 1 .. n /\ i - 1 \in 0 .. n
      BY <1>2
    <3>. QED
      BY <1>2, <3>1
  <2>2. q \in Seq(Jobs)
    BY <2>1, ElementOfSeq
  <2>3. AllOrdered(h) /\ \A x : Absent(first, x) /\ Before1(i - 1, x) => Absent(h, x)
    BY <1>5
  <2>4. f[i] = RescheduleQueue(plugin, h, q, movable, procs, now)
    BY <1>1 DEF LevelSteps
  <2>5. \A a, b \in 1 .. Len(q) : q[a] = q[b] => a = b
    <3>1. p \in 1 .. Len(qs)
      BY <2>1
    <3>. HIDE DEF p, n
    <3>. QED
      BY <3>1 DEF Once
  <2>6. ASSUME NEW a \in 1 .. Len(q), q[a] \in movable
        PROVE  procs[q[a]] \in 1 .. NbNodes /\ Absent(h, q[a])
    <3>1. procs[q[a]] \in 1 .. NbNodes
      BY <2>1, <2>6 DEF MovableFit
    <3>2. Absent(first, q[a])
      BY <1>3, <2>6
    <3>3. ASSUME NEW m \in 1 .. i - 1 PROVE NotIn(qs[n + 1 - m], q[a])
      <4>. DEFINE r == n + 1 - m
      <4>1. r \in 1 .. n /\ r # p
        BY <1>2
      <4>. HIDE DEF r, p
      <4>2. \A k \in 1 .. Len(qs[r]) : qs[p][a] # qs[r][k]
        BY <2>1, <2>6, <4>1 DEF Once
      <4>. QED
        BY <4>2 DEF NotIn, r
    <3>. QED
      BY <2>3, <3>1, <3>2, <3>3
  <2>7. \A x : Before1(i, x) => Before1(i - 1, x) /\ NotIn(q, x)
    BY <1>2
  <2>8. /\ AllOrdered(f[i])
        /\ \A x : Absent(h, x) /\ NotIn(q, x) => Absent(f[i], x)
    <3>1. /\ h \in Tables /\ AllOrdered(h)
          /\ \A a \in 1 .. Len(q) : q[a] \in movable =>
               procs[q[a]] \in 1 .. NbNodes /\ Absent(h, q[a])
      BY <2>1, <2>3, <2>6
    <3>. DEFINE h2 == RescheduleQueue(plugin, h, q, movable, procs, now)
    <3>. HIDE DEF h, q, Before1
    <3>2. AllOrdered(h2) /\ \A x : Absent(h, x) /\ NotIn(q, x) => Absent(h2, x)
      BY <2>2, <2>5, <3>1, RescheduleQueueOrdered
    <3>. HIDE DEF h2
    <3>. QED
      BY <2>4, <3>2 DEF h2
  <2>. HIDE DEF h, q, Before1
  <2>. QED
    BY <2>3, <2>7, <2>8
<1>6. \A i \in 0 .. n : id[i] \in T
  <2>1. id[0] \in T
    BY <1>2, <1>4
  <2>2. \A i \in 1 .. n : id[i - 1] \in T => id[i] \in T
    <3>. HIDE DEF Good
    <3>. QED
      BY <1>2, <1>5
  <2>. HIDE DEF id, T, n
  <2>. QED
    BY <1>2, <2>1, <2>2, FunctionInduction
<1>7. Good(n)
  <2>. HIDE DEF Good
  <2>. QED
    BY <1>2, <1>6
<1>8. \A x : Untraced(qs, x) => Before1(n, x)
  <2>1. \A m \in 1 .. n : n + 1 - m \in 1 .. n
    BY <1>2
  <2>. QED
    BY <2>1 DEF Untraced
<1>. QED
  BY <1>1, <1>3, <1>7, <1>8

-----------------------------------------------------------------------------
(* What an operation does to the slot of one job.                          *)

(* The slot of x: its date, its mapping, and where it is planned.          *)
Slot(g, x) == <<g.start[x], g.nodes[x], g.lead[x], On(g, x)>>

(* x has been given a slot on nb nodes, not before t.                      *)
Given(g, x, nb, t) ==
  /\ On(g, x) = g.nodes[x] /\ Cardinality(g.nodes[x]) = nb
  /\ g.lead[x] \in g.nodes[x]
  /\ g.start[x] >= t

(* x is planned on n when it is in the queue of n.                         *)
LEMMA PlannedNotIn ==
  ASSUME NEW g \in Tables, NEW n \in Nodes, NEW x
  PROVE  x \in Planned(g, n) <=> ~ NotIn(g.chart[n], x)
<1>1. DOMAIN g.chart[n] = 1 .. Len(g.chart[n])
  BY DEF Tables
<1>. QED
  BY <1>1 DEF Planned, NotIn

(* A job has no slot when it is on no node.                                *)
LEMMA AbsentOn ==
  ASSUME NEW g \in Tables, NEW x
  PROVE  Absent(g, x) <=> On(g, x) = {}
BY PlannedNotIn DEF Absent, On

(* A queue that receives j holds j, and otherwise what it held.            *)
LEMMA InsertHolds ==
  ASSUME NEW q \in Seq(Jobs), NEW p \in 1 .. Len(q) + 1, NEW j \in Jobs, NEW x
  PROVE  NotIn(InsertJob(q, p, j), x) <=> x # j /\ NotIn(q, x)
<1>. DEFINE r == InsertJob(q, p, j)
<1>1. /\ Len(r) = Len(q) + 1
      /\ \A i \in 1 .. Len(q) + 1 : r[i] = IF i < p THEN q[i] ELSE IF i = p THEN j ELSE q[i - 1]
  BY InsertJobProperties
<1>. HIDE DEF r
<1>2. Len(q) \in Nat /\ p \in Nat
  OBVIOUS
<1>3. p \in 1 .. Len(r) /\ r[p] = j
  BY <1>1, <1>2
<1>4. ASSUME NEW i \in 1 .. Len(q) PROVE \E k \in 1 .. Len(r) : r[k] = q[i]
  <2>1. CASE i < p
    <3>1. i \in 1 .. Len(r) /\ i \in 1 .. Len(q) + 1
      BY <1>1, <1>2
    <3>. QED
      BY <1>1, <2>1, <3>1
  <2>2. CASE ~ (i < p)
    <3>1. /\ i + 1 \in 1 .. Len(r) /\ i + 1 \in 1 .. Len(q) + 1
          /\ ~ (i + 1 < p) /\ i + 1 # p /\ (i + 1) - 1 = i
      BY <1>1, <1>2, <2>2
    <3>. QED
      BY <1>1, <3>1
  <2>. QED
    BY <2>1, <2>2
<1>5. NotIn(r, x) => x # j /\ NotIn(q, x)
  BY <1>3, <1>4 DEF NotIn
<1>6. x # j /\ NotIn(q, x) => NotIn(r, x)
  BY InsertNotIn DEF r
<1>. QED
  BY <1>5, <1>6 DEF r

(* accept gives j the slot of the bid and leaves the others theirs.        *)
LEMMA AcceptSlots ==
  ASSUME NEW g \in Tables, NEW j \in Jobs, NEW bid, BidFits(g, bid)
  PROVE  LET h == Accept(g, j, bid)
         IN  /\ h.wall = g.wall
             /\ \A x \in Jobs : x # j => Slot(h, x) = Slot(g, x)
             /\ On(h, j) = bid.nodes \cup On(g, j)
             /\ h.start[j] = bid.start /\ h.nodes[j] = bid.nodes /\ h.lead[j] = bid.lead
<1>. DEFINE h == Accept(g, j, bid)
<1>1. h \in Tables
  BY AcceptTyped
<1>2. /\ h.wall = g.wall
      /\ h.start = [g.start EXCEPT ![j] = bid.start]
      /\ h.nodes = [g.nodes EXCEPT ![j] = bid.nodes]
      /\ h.lead = [g.lead EXCEPT ![j] = bid.lead]
      /\ h.chart = [n \in Nodes |-> IF n \in bid.nodes
                                      THEN InsertJob(g.chart[n], bid.pos[n], j)
                                      ELSE g.chart[n]]
  BY DEF Accept, Tables
<1>. HIDE DEF h
<1>3. ASSUME NEW n \in Nodes, NEW x
      PROVE  x \in Planned(h, n) <=> x \in Planned(g, n) \/ (x = j /\ n \in bid.nodes)
  <2>1. CASE n \in bid.nodes
    <3>1. g.chart[n] \in Seq(Jobs) /\ bid.pos[n] \in 1 .. Len(g.chart[n]) + 1
      BY <2>1 DEF Tables, BidFits
    <3>2. h.chart[n] = InsertJob(g.chart[n], bid.pos[n], j)
      BY <1>2, <2>1
    <3>3. NotIn(h.chart[n], x) <=> x # j /\ NotIn(g.chart[n], x)
      BY <3>1, <3>2, InsertHolds
    <3>. QED
      BY <1>1, <2>1, <3>3, PlannedNotIn
  <2>2. CASE n \notin bid.nodes
    <3>1. h.chart[n] = g.chart[n]
      BY <1>2, <2>2
    <3>. QED
      BY <2>2, <3>1 DEF Planned
  <2>. QED
    BY <2>1, <2>2
<1>4. \A x : x # j => On(h, x) = On(g, x)
  BY <1>3 DEF On
<1>5. On(h, j) = bid.nodes \cup On(g, j)
  BY <1>3 DEF On, BidFits
<1>6. \A x \in Jobs : x # j => /\ h.start[x] = g.start[x]
                             /\ h.nodes[x] = g.nodes[x] /\ h.lead[x] = g.lead[x]
  BY <1>2 DEF Tables
<1>7. h.start[j] = bid.start /\ h.nodes[j] = bid.nodes /\ h.lead[j] = bid.lead
  BY <1>2 DEF Tables
<1>. QED
  BY <1>2, <1>4, <1>5, <1>6, <1>7 DEF Slot, h

(* A job without slots that is scheduled is given one.                     *)
LEMMA ScheduleSlots ==
  ASSUME NEW plugin, NEW g \in Tables, NEW j \in Jobs, Absent(g, j),
         NEW nb \in 1 .. NbNodes, NEW now \in Nat
  PROVE  LET h == Accept(g, j, Schedule(plugin, g, j, nb, now))
         IN  /\ h.wall = g.wall
             /\ \A x \in Jobs : x # j => Slot(h, x) = Slot(g, x)
             /\ Given(h, j, nb, now)
<1>. DEFINE bid == Schedule(plugin, g, j, nb, now)
            h == Accept(g, j, bid)
<1>1. BidFits(g, bid) /\ BidRight(bid, nb, now)
  BY ScheduleRight
<1>2. On(g, j) = {}
  BY AbsentOn
<1>. HIDE DEF bid
<1>3. /\ h.wall = g.wall
      /\ \A x \in Jobs : x # j => Slot(h, x) = Slot(g, x)
      /\ On(h, j) = bid.nodes \cup On(g, j)
      /\ h.start[j] = bid.start /\ h.nodes[j] = bid.nodes /\ h.lead[j] = bid.lead
  BY <1>1, AcceptSlots
<1>. HIDE DEF h
<1>4. Given(h, j, nb, now)
  <2>1. bid.start >= now
    <3>1. bid.start \in Nat
      BY <1>1 DEF BidFits
    <3>. QED
      BY <1>1, <3>1 DEF BidRight
  <2>. QED
    BY <1>1, <1>2, <1>3, <2>1 DEF Given, BidRight
<1>. QED
  BY <1>3, <1>4 DEF h, bid

(* cluster_clean keeps every job of S that was there.                      *)
LEMMA KeepHolds ==
  ASSUME NEW q \in Seq(Jobs), NEW S, NEW x, x \in S, ~ NotIn(q, x)
  PROVE  ~ NotIn(Keep(q, S), x)
<1>1. PICK f : KeepSteps(f, q, S) /\ Keep(q, S) = f[Len(q)]
  BY KeepIsSteps
<1>. DEFINE n == Len(q)
            Good(i) == (\E k \in 1 .. i : q[k] = x) => ~ NotIn(f[i], x)
            id == [i \in 0 .. n |-> i]
            T == {i \in 0 .. n : Good(i)}
<1>2. n \in Nat /\ f[0] = <<>> /\ f \in [0 .. n -> Seq(Jobs)]
  BY <1>1 DEF KeepSteps
<1>3. Good(0)
  OBVIOUS
<1>4. ASSUME NEW i \in 1 .. n, Good(i - 1) PROVE Good(i)
  <2>1. i - 1 \in 0 .. n /\ i \in 0 .. n /\ q[i] \in Jobs
    BY <1>2
  <2>2. f[i - 1] \in Seq(Jobs) /\ f[i] = IF q[i] \in S THEN Append(f[i - 1], q[i]) ELSE f[i - 1]
    BY <1>1, <1>2, <2>1 DEF KeepSteps
  <2>. DEFINE r == f[i - 1]
              t == f[i]
  <2>3. r \in Seq(Jobs) /\ t = IF q[i] \in S THEN Append(r, q[i]) ELSE r
    BY <2>2
  <2>4. (\E k \in 1 .. i - 1 : q[k] = x) => ~ NotIn(r, x)
    BY <1>4
  <2>5. (\E k \in 1 .. i : q[k] = x) => q[i] = x \/ \E k \in 1 .. i - 1 : q[k] = x
    BY <1>2
  <2>. HIDE DEF r, t
  <2>6. CASE q[i] \notin S
    BY <2>3, <2>4, <2>5, <2>6 DEF t
  <2>7. CASE q[i] \in S
    <3>1. /\ Len(t) = Len(r) + 1 /\ Len(r) \in Nat
          /\ t[Len(r) + 1] = q[i]
          /\ \A k \in 1 .. Len(r) : t[k] = r[k]
      BY <2>1, <2>3, <2>7
    <3>2. Len(r) + 1 \in 1 .. Len(t) /\ \A k \in 1 .. Len(r) : k \in 1 .. Len(t)
      BY <3>1
    <3>3. q[i] = x \/ ~ NotIn(r, x) => ~ NotIn(t, x)
      BY <3>1, <3>2 DEF NotIn
    <3>. QED
      BY <2>4, <2>5, <3>3 DEF t
  <2>. QED
    BY <2>6, <2>7
<1>5. \A i \in 0 .. n : id[i] \in T
  <2>1. id[0] \in T
    BY <1>2, <1>3
  <2>2. \A i \in 1 .. n : id[i - 1] \in T => id[i] \in T
    <3>. HIDE DEF Good
    <3>. QED
      BY <1>2, <1>4
  <2>. HIDE DEF id, T, n
  <2>. QED
    BY <1>2, <2>1, <2>2, FunctionInduction
<1>6. Good(n)
  <2>. HIDE DEF Good
  <2>. QED
    BY <1>2, <1>5
<1>. QED
  BY <1>1, <1>6 DEF NotIn

(* Only the waiting jobs lose their slots to cluster_clean.                *)
LEMMA CleanSlots ==
  ASSUME NEW g \in Tables, AllOrdered(g), NEW waiting
  PROVE  LET h == Clean(g, waiting)
         IN  /\ h.wall = g.wall
             /\ \A x \in Jobs : x \notin waiting => Slot(h, x) = Slot(g, x)
             /\ \A x \in waiting : Absent(h, x)
             /\ \A x \in Jobs : h.start[x] = g.start[x]
<1>. DEFINE h == Clean(g, waiting)
<1>1. /\ h.start = g.start /\ h.wall = g.wall /\ h.nodes = g.nodes /\ h.lead = g.lead
      /\ h.chart = [n \in Nodes |-> Keep(g.chart[n], Jobs \ waiting)]
  BY DEF Clean, Tables
<1>2. h \in Tables
  BY CleanTyped
<1>3. \A x : x \in waiting \/ Absent(g, x) => Absent(h, x)
  BY CleanOrdered
<1>. HIDE DEF h
<1>4. ASSUME NEW x \in Jobs, x \notin waiting, NEW n \in Nodes
      PROVE  x \in Planned(h, n) <=> x \in Planned(g, n)
  <2>1. g.chart[n] \in Seq(Jobs) /\ Ordered(g, g.chart[n])
    BY DEF Tables, AllOrdered
  <2>. DEFINE q == g.chart[n]
              S == Jobs \ waiting
  <2>2. h.chart[n] = Keep(q, S) /\ x \in S
    BY <1>1, <1>4
  <2>3. q \in Seq(Jobs) /\ Ordered(g, q)
    BY <2>1
  <2>. HIDE DEF q, S
  <2>4. NotIn(Keep(q, S), x) <=> NotIn(q, x)
    <3>1. ~ NotIn(q, x) => ~ NotIn(Keep(q, S), x)
      BY <2>2, <2>3, KeepHolds
    <3>2. NotIn(q, x) => NotIn(Keep(q, S), x)
      <4>1. \A i \in 1 .. Len(Keep(q, S)) : \E k \in 1 .. Len(q) : Keep(q, S)[i] = q[k]
        BY <2>3, KeepOrdered
      <4>. QED
        BY <4>1 DEF NotIn
    <3>. QED
      BY <3>1, <3>2
  <2>. QED
    BY <1>2, <2>2, <2>4, PlannedNotIn DEF q
<1>5. \A x \in Jobs : x \notin waiting => Slot(h, x) = Slot(g, x)
  BY <1>1, <1>4 DEF Slot, On
<1>. QED
  BY <1>1, <1>3, <1>5 DEF h

-----------------------------------------------------------------------------
(* What a rescheduling says of one job.                                    *)

(* From g to h the jobs of S have been given slots, the others keep theirs. *)
Moved(h, g, S, procs, now) ==
  /\ h.wall = g.wall
  /\ \A x \in Jobs : x \in S => Given(h, x, procs[x], now)
  /\ \A x \in Jobs : x \notin S => Slot(h, x) = Slot(g, x)

(***************************************************************************)
(* From g to h the waiting jobs have been planned again: those of S have   *)
(* new slots, the other waiting jobs have none, the rest keep theirs.      *)
(***************************************************************************)
Replanned(h, g, waiting, S, procs, now) ==
  /\ h.wall = g.wall
  /\ \A x \in Jobs : x \notin waiting => Slot(h, x) = Slot(g, x)
  /\ \A x \in Jobs : x \in S => Given(h, x, procs[x], now)
  /\ \A x \in Jobs : x \in waiting \ S => Absent(h, x) /\ h.start[x] = g.start[x]

(* One queue: its movable jobs get a new slot, the others keep theirs.     *)
LEMMA RescheduleQueueSlots ==
  ASSUME NEW plugin, NEW g \in Tables, AllOrdered(g), NEW q \in Seq(Jobs), NEW movable,
         NEW procs, NEW now \in Nat,
         \A i \in 1 .. Len(q) : q[i] \in movable =>
           procs[q[i]] \in 1 .. NbNodes /\ Absent(g, q[i]),
         \A i, k \in 1 .. Len(q) : q[i] = q[k] => i = k
  PROVE  LET h == RescheduleQueue(plugin, g, q, movable, procs, now)
         IN  Moved(h, g, {x \in movable : ~ NotIn(q, x)}, procs, now)
<1>1. PICK f : /\ QueueSteps(f, plugin, g, q, movable, procs, now)
               /\ RescheduleQueue(plugin, g, q, movable, procs, now) = f[Len(q)]
  BY RescheduleQueueSteps
<1>. DEFINE n == Len(q)
            Done(i, x) == x \in movable /\ \E k \in 1 .. i : q[k] = x
            Good(i) == /\ f[i].wall = g.wall
                       /\ \A x \in Jobs : Done(i, x) => Given(f[i], x, procs[x], now)
                       /\ \A x \in Jobs : ~ Done(i, x) => Slot(f[i], x) = Slot(g, x)
            id == [i \in 0 .. n |-> i]
            T == {i \in 0 .. n : Good(i)}
<1>2. n \in Nat /\ f[0] = g /\ f \in [0 .. n -> Tables]
  BY <1>1 DEF QueueSteps
<1>3. Good(0)
  BY <1>2
<1>4. ASSUME NEW i \in 1 .. n, Good(i - 1) PROVE Good(i)
  <2>1. i - 1 \in 0 .. n /\ i \in 0 .. n /\ q[i] \in Jobs /\ f[i - 1] \in Tables
    BY <1>2
  <2>. DEFINE h == f[i - 1]
              t == f[i]
              j == q[i]
  <2>2. /\ h.wall = g.wall
        /\ \A x \in Jobs : Done(i - 1, x) => Given(h, x, procs[x], now)
        /\ \A x \in Jobs : ~ Done(i - 1, x) => Slot(h, x) = Slot(g, x)
    BY <1>4
  <2>3. \A x : Done(i, x) <=> (x = j /\ j \in movable) \/ Done(i - 1, x)
    BY <1>2
  <2>4. ~ Done(i - 1, j)
    BY <1>2
  <2>5. CASE j \notin movable
    <3>1. t = h
      BY <1>1, <2>5 DEF QueueSteps
    <3>. HIDE DEF h, j, t, Done
    <3>. QED
      BY <2>2, <2>3, <2>5, <3>1 DEF t
  <2>6. CASE j \in movable
    <3>. DEFINE nb == procs[j]
                h2 == Accept(h, j, Schedule(plugin, h, j, nb, now))
    <3>1. t = h2
      BY <1>1, <2>6 DEF QueueSteps
    <3>2. nb \in 1 .. NbNodes /\ Absent(g, j)
      BY <2>6
    <3>3. h \in Tables /\ j \in Jobs /\ Slot(h, j) = Slot(g, j)
      BY <2>1, <2>2, <2>4
    <3>. HIDE DEF h, j, t, nb, Done
    <3>4. On(h, j) = On(g, j)
      BY <3>3 DEF Slot
    <3>5. Absent(h, j)
      BY <3>2, <3>3, <3>4, AbsentOn
    <3>6. /\ h2.wall = h.wall
          /\ \A x \in Jobs : x # j => Slot(h2, x) = Slot(h, x)
          /\ Given(h2, j, nb, now)
      BY <3>2, <3>3, <3>5, ScheduleSlots
    <3>. HIDE DEF h2
    <3>7. \A x \in Jobs : x # j /\ Given(h, x, procs[x], now) => Given(h2, x, procs[x], now)
      BY <3>6 DEF Given, Slot
    <3>8. t.wall = g.wall
      BY <2>2, <3>1, <3>6
    <3>9. ASSUME NEW x \in Jobs, Done(i, x) PROVE Given(t, x, procs[x], now)
      <4>1. CASE x = j
        BY <3>1, <3>6, <4>1 DEF nb
      <4>2. CASE x # j
        BY <2>2, <2>3, <3>1, <3>7, <3>9, <4>2
      <4>. QED
        BY <4>1, <4>2
    <3>10. ASSUME NEW x \in Jobs, ~ Done(i, x) PROVE Slot(t, x) = Slot(g, x)
      <4>1. x # j /\ ~ Done(i - 1, x)
        BY <2>3, <2>6, <3>10
      <4>. QED
        BY <2>2, <3>1, <3>6, <4>1
    <3>. QED
      BY <3>8, <3>9, <3>10 DEF t
  <2>. QED
    BY <2>5, <2>6
<1>5. \A i \in 0 .. n : id[i] \in T
  <2>1. id[0] \in T
    BY <1>2, <1>3
  <2>2. \A i \in 1 .. n : id[i - 1] \in T => id[i] \in T
    <3>. HIDE DEF Good
    <3>. QED
      BY <1>2, <1>4
  <2>. HIDE DEF id, T, n
  <2>. QED
    BY <1>2, <2>1, <2>2, FunctionInduction
<1>6. Good(n)
  <2>. HIDE DEF Good
  <2>. QED
    BY <1>2, <1>5
<1>7. \A x : Done(n, x) <=> x \in {y \in movable : ~ NotIn(q, y)}
  BY DEF NotIn
<1>. DEFINE h == f[n]
            S == {x \in movable : ~ NotIn(q, x)}
<1>8. /\ h.wall = g.wall
      /\ \A x \in Jobs : Done(n, x) => Given(h, x, procs[x], now)
      /\ \A x \in Jobs : ~ Done(n, x) => Slot(h, x) = Slot(g, x)
  BY <1>6
<1>9. RescheduleQueue(plugin, g, q, movable, procs, now) = h /\ \A x : Done(n, x) <=> x \in S
  BY <1>1, <1>7
<1>. HIDE DEF h, Done, S
<1>10. Moved(h, g, S, procs, now)
  BY <1>8, <1>9 DEF Moved
<1>. QED
  BY <1>9, <1>10 DEF S

(***************************************************************************)
(* All of them.  A job that is not waiting keeps its slot; one that waits  *)
(* gets a new one, not in the past, if it is traced and can be moved, and  *)
(* otherwise has none any more.                                            *)
(***************************************************************************)
LEMMA RescheduleSlots ==
  ASSUME NEW plugin, NEW g \in Tables, AllOrdered(g), NEW qs \in Seq(Seq(Jobs)), Once(qs),
         NEW waiting, NEW movable, movable \subseteq waiting,
         NEW procs, MovableFit(qs, movable, procs), NEW now \in Nat
  PROVE  LET h == Reschedule(plugin, g, qs, waiting, movable, procs, now)
         IN  Replanned(h, g, waiting, {x \in movable : ~ Untraced(qs, x)}, procs, now)
<1>. DEFINE n == Len(qs)
            first == Clean(g, waiting)
<1>1. PICK f : /\ LevelSteps(f, plugin, first, qs, movable, procs, now)
               /\ Reschedule(plugin, g, qs, waiting, movable, procs, now) = f[n]
  BY RescheduleSteps
<1>. DEFINE Done(i, x) == x \in movable /\ \E m \in 1 .. i : ~ NotIn(qs[n + 1 - m], x)
            Good(i) == /\ AllOrdered(f[i])
                       /\ f[i].wall = g.wall
                       /\ \A x \in Jobs : Done(i, x) => Given(f[i], x, procs[x], now)
                       /\ \A x \in Jobs : ~ Done(i, x) => Slot(f[i], x) = Slot(first, x)
            id == [i \in 0 .. n |-> i]
            T == {i \in 0 .. n : Good(i)}
<1>2. n \in Nat /\ f[0] = first /\ f \in [0 .. n -> Tables]
  BY <1>1 DEF LevelSteps
<1>3. /\ AllOrdered(first) /\ first.wall = g.wall
      /\ \A x \in Jobs : x \notin waiting => Slot(first, x) = Slot(g, x)
      /\ \A x \in waiting : Absent(first, x)
      /\ \A x \in Jobs : first.start[x] = g.start[x]
      /\ first \in Tables
  BY CleanOrdered, CleanSlots, CleanTyped
<1>. HIDE DEF first
<1>4. Good(0)
  BY <1>2, <1>3
<1>5. ASSUME NEW i \in 1 .. n, Good(i - 1) PROVE Good(i)
  <2>. DEFINE p == n + 1 - i
              q == qs[p]
              h == f[i - 1]
              t == f[i]
  <2>1. p \in 1 .. n /\ h \in Tables
    <3>1. p \in 1 .. n /\ i - 1 \in 0 .. n
      BY <1>2
    <3>. QED
      BY <1>2, <3>1
  <2>2. q \in Seq(Jobs)
    BY <2>1, ElementOfSeq
  <2>3. /\ AllOrdered(h) /\ h.wall = g.wall
        /\ \A x \in Jobs : Done(i - 1, x) => Given(h, x, procs[x], now)
        /\ \A x \in Jobs : ~ Done(i - 1, x) => Slot(h, x) = Slot(first, x)
    BY <1>5
  <2>4. t = RescheduleQueue(plugin, h, q, movable, procs, now)
    BY <1>1 DEF LevelSteps
  <2>5. \A a, b \in 1 .. Len(q) : q[a] = q[b] => a = b
    <3>. HIDE DEF p, h, t, Done
    <3>. QED
      BY <2>1 DEF Once
  <2>6. \A x : Done(i, x) <=> (x \in movable /\ ~ NotIn(q, x)) \/ Done(i - 1, x)
    BY <1>2
  <2>7. ASSUME NEW x, ~ NotIn(q, x) PROVE ~ Done(i - 1, x)
    <3>1. PICK a \in 1 .. Len(q) : q[a] = x
      BY <2>7 DEF NotIn
    <3>2. ASSUME NEW m \in 1 .. i - 1 PROVE NotIn(qs[n + 1 - m], x)
      <4>. DEFINE r == n + 1 - m
      <4>1. r \in 1 .. n /\ r # p
        BY <1>2
      <4>. HIDE DEF r, p
      <4>2. \A k \in 1 .. Len(qs[r]) : qs[p][a] # qs[r][k]
        BY <2>1, <3>1, <4>1 DEF Once
      <4>. QED
        BY <3>1, <4>2 DEF NotIn, r
    <3>. QED
      BY <3>2
  <2>8. ASSUME NEW a \in 1 .. Len(q), q[a] \in movable
        PROVE  procs[q[a]] \in 1 .. NbNodes /\ Absent(h, q[a])
    <3>1. procs[q[a]] \in 1 .. NbNodes
      BY <2>1, <2>8 DEF MovableFit
    <3>2. Absent(first, q[a])
      BY <1>3, <2>8
    <3>3. q[a] \in Jobs
      BY <2>2
    <3>4. ~ Done(i - 1, q[a])
      BY <2>7 DEF NotIn
    <3>5. Slot(h, q[a]) = Slot(first, q[a])
      BY <2>3, <3>3, <3>4
    <3>. HIDE DEF h, q
    <3>6. On(h, q[a]) = On(first, q[a])
      BY <3>5 DEF Slot
    <3>. QED
      BY <1>3, <2>1, <3>1, <3>2, <3>6, AbsentOn
  <2>9. /\ AllOrdered(t) /\ t.wall = h.wall
        /\ \A x \in Jobs : x \in movable /\ ~ NotIn(q, x) => Given(t, x, procs[x], now)
        /\ \A x \in Jobs : ~ (x \in movable /\ ~ NotIn(q, x)) => Slot(t, x) = Slot(h, x)
    <3>1. /\ h \in Tables /\ AllOrdered(h)
          /\ \A a \in 1 .. Len(q) : q[a] \in movable =>
               procs[q[a]] \in 1 .. NbNodes /\ Absent(h, q[a])
      BY <2>1, <2>3, <2>8
    <3>. DEFINE h2 == RescheduleQueue(plugin, h, q, movable, procs, now)
    <3>. HIDE DEF h, q, Done, t
    <3>2. AllOrdered(h2)
      BY <2>2, <2>5, <3>1, RescheduleQueueOrdered
    <3>. DEFINE S == {x \in movable : ~ NotIn(q, x)}
    <3>3. Moved(h2, h, S, procs, now)
      BY <2>2, <2>5, <3>1, RescheduleQueueSlots
    <3>4. t = h2
      BY <2>4
    <3>. HIDE DEF h2, S
    <3>5. /\ t.wall = h.wall
          /\ \A x \in Jobs : x \in S => Given(t, x, procs[x], now)
          /\ \A x \in Jobs : x \notin S => Slot(t, x) = Slot(h, x)
      BY <3>3, <3>4 DEF Moved
    <3>. QED
      BY <3>2, <3>4, <3>5 DEF S
  <2>. HIDE DEF h, q, t, Done
  <2>10. ASSUME NEW x \in Jobs, Done(i, x) PROVE Given(t, x, procs[x], now)
    <3>1. CASE x \in movable /\ ~ NotIn(q, x)
      BY <2>9, <3>1
    <3>2. CASE ~ (x \in movable /\ ~ NotIn(q, x))
      <4>1. Done(i - 1, x) /\ Slot(t, x) = Slot(h, x)
        BY <2>6, <2>9, <2>10, <3>2
      <4>. QED
        BY <2>3, <4>1 DEF Given, Slot
    <3>. QED
      BY <3>1, <3>2
  <2>11. ASSUME NEW x \in Jobs, ~ Done(i, x) PROVE Slot(t, x) = Slot(first, x)
    BY <2>3, <2>6, <2>9, <2>11
  <2>. QED
    BY <2>3, <2>9, <2>10, <2>11 DEF t
<1>6. \A i \in 0 .. n : id[i] \in T
  <2>1. id[0] \in T
    BY <1>2, <1>4
  <2>2. \A i \in 1 .. n : id[i - 1] \in T => id[i] \in T
    <3>. HIDE DEF Good
    <3>. QED
      BY <1>2, <1>5
  <2>. HIDE DEF id, T, n
  <2>. QED
    BY <1>2, <2>1, <2>2, FunctionInduction
<1>7. Good(n)
  <2>. HIDE DEF Good
  <2>. QED
    BY <1>2, <1>6
<1>8. \A x : Done(n, x) <=> x \in movable /\ ~ Untraced(qs, x)
  <2>1. \A m \in 1 .. n : n + 1 - m \in 1 .. n /\ n + 1 - (n + 1 - m) = m
    BY <1>2
  <2>2. \A x : (\E m \in 1 .. n : ~ NotIn(qs[n + 1 - m], x)) <=> ~ Untraced(qs, x)
    <3>1. ASSUME NEW x, NEW p \in 1 .. n, ~ NotIn(qs[p], x)
          PROVE  \E m \in 1 .. n : ~ NotIn(qs[n + 1 - m], x)
      <4>1. n + 1 - p \in 1 .. n /\ ~ NotIn(qs[n + 1 - (n + 1 - p)], x)
        BY <2>1, <3>1
      <4>. QED
        BY <4>1
    <3>. QED
      BY <2>1, <3>1 DEF Untraced
  <2>. QED
    BY <2>2
<1>. DEFINE h == f[n]
<1>. HIDE DEF Done
<1>9. /\ h.wall = g.wall
      /\ \A x \in Jobs : Done(n, x) => Given(h, x, procs[x], now)
      /\ \A x \in Jobs : ~ Done(n, x) => Slot(h, x) = Slot(first, x)
      /\ h \in Tables
  BY <1>2, <1>7
<1>10. ASSUME NEW x \in Jobs, x \in waiting, ~ Done(n, x)
       PROVE  Absent(h, x) /\ h.start[x] = g.start[x]
  <2>1. Slot(h, x) = Slot(first, x)
    BY <1>9, <1>10
  <2>2. On(h, x) = On(first, x) /\ h.start[x] = first.start[x]
    BY <2>1 DEF Slot
  <2>. HIDE DEF h
  <2>. QED
    BY <1>3, <1>9, <1>10, <2>2, AbsentOn
<1>11. ASSUME NEW x \in Jobs, x \notin waiting PROVE Slot(h, x) = Slot(g, x)
  <2>1. ~ Done(n, x)
    BY <1>8, <1>11
  <2>. QED
    BY <1>3, <1>9, <1>11, <2>1
<1>. DEFINE S == {x \in movable : ~ Untraced(qs, x)}
<1>12. Reschedule(plugin, g, qs, waiting, movable, procs, now) = h
  BY <1>1
<1>13. \A x : Done(n, x) <=> x \in S
  BY <1>8
<1>. HIDE DEF h, S, Done
<1>14. \A x \in Jobs : x \in S => Given(h, x, procs[x], now)
  BY <1>9, <1>13
<1>15. \A x \in Jobs : x \in waiting \ S => Absent(h, x) /\ h.start[x] = g.start[x]
  BY <1>10, <1>13
<1>16. Replanned(h, g, waiting, S, procs, now)
  BY <1>9, <1>11, <1>14, <1>15 DEF Replanned
<1>. QED
  BY <1>12, <1>16 DEF S

(* cluster_delete_done_job takes no slot from the other jobs.              *)
LEMMA DeleteDoneSlots ==
  ASSUME NEW g \in Tables, NEW j
  PROVE  LET h == DeleteDone(g, j)
         IN  /\ h.wall = g.wall
             /\ \A x \in Jobs : x # j => Slot(h, x) = Slot(g, x)
<1>. DEFINE h == DeleteDone(g, j)
<1>1. /\ h.start = g.start /\ h.wall = g.wall /\ h.nodes = g.nodes /\ h.lead = g.lead
      /\ h.chart = [n \in Nodes |-> IF g.chart[n] # <<>> /\ g.chart[n][1] = j
                                      THEN Tail(g.chart[n]) ELSE g.chart[n]]
  BY DEF DeleteDone, Tables
<1>2. h \in Tables
  BY DeleteDoneTyped
<1>. HIDE DEF h
<1>3. ASSUME NEW n \in Nodes, NEW x, x # j
      PROVE  NotIn(h.chart[n], x) <=> NotIn(g.chart[n], x)
  <2>. DEFINE q == g.chart[n]
  <2>1. q \in Seq(Jobs)
    BY DEF Tables
  <2>2. h.chart[n] = q \/ (q # <<>> /\ q[1] = j /\ h.chart[n] = Tail(q))
    BY <1>1
  <2>. HIDE DEF q
  <2>3. CASE h.chart[n] = q
    BY <2>3 DEF q
  <2>4. CASE q # <<>> /\ q[1] = j /\ h.chart[n] = Tail(q)
    <3>1. /\ Len(Tail(q)) = Len(q) - 1 /\ Len(q) \in Nat
          /\ \A i \in 1 .. Len(Tail(q)) : Tail(q)[i] = q[i + 1] /\ i + 1 \in 1 .. Len(q)
      BY <2>1, <2>4
    <3>2. ASSUME NEW i \in 1 .. Len(q), q[i] = x PROVE ~ NotIn(Tail(q), x)
      <4>1. i - 1 \in 1 .. Len(Tail(q)) /\ (i - 1) + 1 = i
        BY <1>3, <2>4, <3>1, <3>2
      <4>2. Tail(q)[i - 1] = x
        BY <3>1, <3>2, <4>1
      <4>. QED
        BY <4>1, <4>2 DEF NotIn
    <3>. QED
      BY <2>4, <3>1, <3>2 DEF NotIn, q
  <2>. QED
    BY <2>2, <2>3, <2>4
<1>4. \A x : x # j => On(h, x) = On(g, x)
  BY <1>2, <1>3, PlannedNotIn DEF On
<1>. QED
  BY <1>1, <1>4 DEF Slot, h

-----------------------------------------------------------------------------
(* The first job to start.                                                 *)

(* On its node no other job to start is planned before it.                 *)
LEMMA FirstToStartFirst ==
  ASSUME NEW g \in Tables, AllOrdered(g), NEW startable,
         NEW n \in NodesToStart(g, startable), NEW x \in Planned(g, n) \cap startable
  PROVE  g.start[FirstToStart(g, n, startable)] =< g.start[x]
<1>. DEFINE q == g.chart[n]
            hits == {i \in DOMAIN q : q[i] \in startable}
            IsFirst(i) == q[i] \in startable /\ \A h \in 1 .. i - 1 : q[h] \notin startable
            k == CHOOSE i \in DOMAIN q : IsFirst(i)
<1>1. n \in Nodes /\ q \in Seq(Jobs) /\ DOMAIN q = 1 .. Len(q) /\ Len(q) \in Nat
  BY DEF Tables, NodesToStart
<1>2. hits \subseteq Nat /\ hits # {}
  BY <1>1 DEF NodesToStart, Planned
<1>3. PICK i \in hits : \A h \in hits : i =< h
  <2>. HIDE DEF hits
  <2>. QED
    BY <1>2, LeastElement
<1>4. i \in DOMAIN q /\ IsFirst(i)
  <2>1. ASSUME NEW h \in 1 .. i - 1 PROVE q[h] \notin startable
    <3>1. h \in DOMAIN q /\ ~ (i =< h)
      BY <1>1, <1>3
    <3>. QED
      BY <1>3, <3>1
  <2>. QED
    BY <1>3, <2>1
<1>5. k \in DOMAIN q /\ IsFirst(k)
  <2>. HIDE DEF IsFirst, q
  <2>. QED
    BY <1>4
<1>6. FirstToStart(g, n, startable) = q[k]
  BY DEF FirstToStart
<1>7. Ordered(g, q)
  BY <1>1 DEF AllOrdered
<1>. HIDE DEF k
<1>8. PICK m \in 1 .. Len(q) : q[m] = x
  BY <1>1 DEF Planned
<1>9. m = k \/ k < m
  BY <1>1, <1>5, <1>8
<1>. HIDE DEF q
<1>10. q[k] \in Jobs /\ x \in Jobs
  BY <1>1, <1>5, <1>8, ElementOfSeq
<1>11. g.start[q[k]] \in Nat /\ g.wall[q[k]] \in Nat /\ g.start[x] \in Nat
  BY <1>10 DEF Tables
<1>12. CASE m = k
  BY <1>6, <1>8, <1>11, <1>12
<1>13. CASE k < m
  <2>1. End(g, q[k]) =< g.start[x]
    BY <1>1, <1>5, <1>7, <1>8, <1>13 DEF Ordered
  <2>. QED
    BY <1>6, <1>11, <2>1 DEF End
<1>. QED
  BY <1>9, <1>12, <1>13

(***************************************************************************)
(* next_job_to_schedule: the job the resource manager is told to start next*)
(* is in the table and no other job to start is planned before it.         *)
(***************************************************************************)
LEMMA NextJobFirst ==
  ASSUME NEW g \in Tables, AllOrdered(g), NEW startable, NodesToStart(g, startable) # {}
  PROVE  LET j == NextJob(g, startable)
         IN  \A x \in startable : ~ Absent(g, x) => g.start[j] =< g.start[x]
<1>. DEFINE S     == NodesToStart(g, startable)
            first == [n \in S |-> FirstToStart(g, n, startable)]
            date  == [n \in S |-> g.start[first[n]]]
            node  == CHOOSE n \in S : \A m \in S : ~ Before(date, m, n)
            j     == NextJob(g, startable)
<1>1. S \in SUBSET Nodes
  BY DEF NodesToStart
<1>2. \A n \in S : first[n] \in Jobs
  <2>1. ASSUME NEW n \in S PROVE first[n] \in Jobs
    <3>1. first[n] \in Planned(g, n)
      BY FirstToStartType
    <3>2. Planned(g, n) \subseteq Jobs
      BY <1>1 DEF Planned, Tables
    <3>. QED
      BY <3>1, <3>2
  <2>. QED
    BY <2>1
<1>3. \A n \in S : date[n] \in Nat /\ date[n] = g.start[first[n]]
  <2>. HIDE DEF first, S
  <2>. QED
    BY <1>2 DEF Tables
<1>4. node \in S /\ \A m \in S : ~ Before(date, m, node)
  <2>. HIDE DEF date, S
  <2>1. \E n \in S : \A m \in S : ~ Before(date, m, n)
    BY <1>1, <1>3, FirstNode DEF S
  <2>. QED
    BY <2>1
<1>5. j = first[node]
  BY DEF NextJob
<1>6. ASSUME NEW n \in S, NEW x \in Planned(g, n) \cap startable
      PROVE  date[n] =< g.start[x]
  BY FirstToStartFirst
<1>. HIDE DEF node, first, date, j
<1>7. \A m \in S : date[node] =< date[m]
  BY <1>3, <1>4 DEF Before
<1>8. ASSUME NEW x \in startable, ~ Absent(g, x) PROVE g.start[j] =< g.start[x]
  <2>1. PICK n \in Nodes : x \in Planned(g, n)
    BY <1>8, PlannedNotIn DEF Absent
  <2>2. n \in S
    BY <1>8, <2>1 DEF NodesToStart
  <2>3. x \in Jobs
    BY <2>1 DEF Planned, Tables
  <2>4. g.start[x] \in Nat
    BY <2>3 DEF Tables
  <2>5. date[n] =< g.start[x] /\ date[node] =< date[n] /\ date[n] \in Nat /\ date[node] \in Nat
    BY <1>3, <1>4, <1>6, <1>7, <1>8, <2>1, <2>2
  <2>6. g.start[j] = date[node]
    BY <1>3, <1>4, <1>5
  <2>. QED
    BY <2>4, <2>5, <2>6
<1>. QED
  BY <1>8 DEF j

(* There is a node to look at exactly when some job to start is planned.   *)
LEMMA NothingToStart ==
  ASSUME NEW g \in Tables, NEW startable, NodesToStart(g, startable) = {}
  PROVE  \A x \in startable : Absent(g, x)
BY PlannedNotIn DEF NodesToStart, Absent

-----------------------------------------------------------------------------
(***************************************************************************)
(* Jobs taken in turn.                                                     *)
(*                                                                         *)
(* fcfs plans behind what is planned: while its jobs share one queue, each *)
(* starts when as many nodes as it needs have done what came before it.    *)
(* Turn says so of a table; an end makes all waiting jobs be planned again,*)
(* and since each finds no fewer nodes ready than in the table before, at  *)
(* any date, the new table is nowhere worse (NoWorse).                     *)
(***************************************************************************)

(* The nodes that are ready at t for a new job.                            *)
FreeBy(g, t, now) == {n \in Nodes : LastSlot(g, n, now) =< t}

(* fcfs_schedule takes the nodes that are ready first, and no later start  *)
(* than the date as many are ready as the job needs.                       *)
LEMMA FcfsFirst ==
  ASSUME NEW g \in Tables, NEW nb \in 1 .. NbNodes, NEW now \in Nat
  PROVE  LET bid == FcfsBid(g, nb, now)
         IN  /\ \A n \in Nodes : LastSlot(g, bid.lead, now) =< LastSlot(g, n, now)
             /\ \A n \in Nodes \ bid.nodes : bid.start =< LastSlot(g, n, now)
             /\ \A t \in Nat : Cardinality(FreeBy(g, t, now)) >= nb => bid.start =< t
<1>. DEFINE last   == [n \in Nodes |-> LastSlot(g, n, now)]
            chosen == Least(Nodes, last, nb)
            bid    == FcfsBid(g, nb, now)
            ahead(n) == {m \in Nodes : Before(last, m, n)}
<1>1. nb \in Nat \ {0} /\ nb \in Nat
  BY NbNodesAssumption
<1>2. \A n \in Nodes : last[n] \in Nat /\ last[n] = LastSlot(g, n, now)
  BY LastSlotType
<1>3. /\ bid.nodes = chosen
      /\ bid.lead = CHOOSE n \in chosen : \A m \in chosen : ~ Before(last, m, n)
      /\ bid.start = CHOOSE s \in {last[n] : n \in chosen} : \A n \in chosen : last[n] =< s
  BY DEF FcfsBid
<1>4. chosen = {n \in Nodes : Cardinality(ahead(n)) < nb}
  BY DEF Least
<1>5. BidFits(g, bid)
  BY <1>1, FcfsBidFits
<1>6. \A n \in bid.nodes : LastSlot(g, n, now) =< bid.start
  BY <1>1, FcfsStart
<1>7. chosen \in SUBSET Nodes /\ chosen # {}
  <2>. HIDE DEF last
  <2>. QED
    BY <1>1, <1>2, LeastNonEmpty, NodesFinite
<1>. HIDE DEF last, chosen, bid, ahead
<1>8. \A S \in SUBSET Nodes : IsFiniteSet(S) /\ Cardinality(S) \in Nat
  BY NodesFinite, FS_Subset, FS_CardinalityType
<1>9. \A S, T \in SUBSET Nodes : S \subseteq T => Cardinality(S) =< Cardinality(T)
  BY <1>8, FS_Subset
<1>10. \A n : ahead(n) \in SUBSET Nodes
  BY DEF ahead
<1>11. bid.lead \in chosen /\ \A m \in chosen : ~ Before(last, m, bid.lead)
  <2>1. \E n \in chosen : \A m \in chosen : ~ Before(last, m, n)
    BY <1>2, <1>7, FirstNode
  <2>. QED
    BY <1>3, <2>1
<1>12. \A n \in Nodes : last[bid.lead] =< last[n]
  <2>1. PICK f \in Nodes : \A m \in Nodes : ~ Before(last, m, f)
    BY <1>2, NodesFinite, FirstNode
  <2>2. ahead(f) = {}
    BY <2>1 DEF ahead
  <2>3. f \in chosen
    BY <1>1, <1>4, <2>2, FS_EmptySet
  <2>4. ~ Before(last, f, bid.lead)
    BY <1>11, <2>3
  <2>5. \A n \in Nodes : last[f] =< last[n]
    BY <1>2, <2>1 DEF Before
  <2>6. bid.lead \in Nodes
    BY <1>7, <1>11
  <2>. QED
    BY <1>2, <2>4, <2>5, <2>6 DEF Before
<1>13. PICK m \in chosen : bid.start = last[m]
  <2>1. bid.start \in {last[n] : n \in chosen}
    <3>1. \E s \in {last[n] : n \in chosen} : \A n \in chosen : last[n] =< s
      <4>. DEFINE dates == {last[n] : n \in chosen}
                  f == [n \in chosen |-> last[n]]
      <4>1. IsFiniteSet(chosen)
        BY <1>7, <1>8
      <4>2. IsFiniteSet({f[n] : n \in chosen})
        BY <4>1, FiniteImage
      <4>3. dates = {f[n] : n \in chosen} /\ dates \subseteq Nat /\ dates # {}
        BY <1>2, <1>7
      <4>. HIDE DEF dates, f
      <4>4. PICK s \in dates : \A d \in dates : d =< s
        BY <4>2, <4>3, GreatestElement
      <4>. QED
        BY <4>4 DEF dates
    <3>. QED
      BY <1>3, <3>1
  <2>. QED
    BY <2>1
<1>14. m \in Nodes /\ Cardinality(ahead(m)) < nb
  BY <1>4
<1>15. ASSUME NEW n \in Nodes \ chosen PROVE bid.start =< last[n]
  <2>1. SUFFICES ASSUME last[n] < last[m] PROVE FALSE
    BY <1>2, <1>13, <1>14
  <2>2. ahead(n) \subseteq ahead(m)
    BY <1>2, <1>14, <2>1 DEF ahead, Before
  <2>3. Cardinality(ahead(n)) < nb
    BY <1>1, <1>8, <1>9, <1>10, <1>14, <2>2
  <2>. QED
    BY <1>4, <2>3
<1>16. ASSUME NEW t \in Nat, Cardinality(FreeBy(g, t, now)) >= nb PROVE bid.start =< t
  <2>1. SUFFICES ASSUME t < last[m] PROVE FALSE
    BY <1>2, <1>13, <1>14
  <2>2. FreeBy(g, t, now) \subseteq ahead(m)
    BY <1>2, <1>14, <2>1 DEF ahead, Before, FreeBy
  <2>3. FreeBy(g, t, now) \in SUBSET Nodes
    BY DEF FreeBy
  <2>. QED
    BY <1>1, <1>8, <1>9, <1>10, <1>14, <1>16, <2>2, <2>3
<1>17. bid.lead \in Nodes
  BY <1>7, <1>11
<1>. QED
  BY <1>2, <1>3, <1>12, <1>15, <1>16, <1>17 DEF bid

(* The new job is the last on its nodes, the others stay as they are.      *)
LEMMA FcfsPlaces ==
  ASSUME NEW g \in Tables, NEW x \in Jobs, Absent(g, x), NEW nb \in 1 .. NbNodes, NEW now \in Nat
  PROVE  LET bid == FcfsBid(g, nb, now)
             h == Accept(g, x, bid)
         IN  /\ \A n \in bid.nodes : LastSlot(h, n, now) = bid.start + g.wall[x]
             /\ \A n \in Nodes \ bid.nodes : LastSlot(h, n, now) = LastSlot(g, n, now)
<1>. DEFINE bid == FcfsBid(g, nb, now)
            h == Accept(g, x, bid)
<1>1. nb \in Nat \ {0}
  BY NbNodesAssumption
<1>2. BidFits(g, bid) /\ BidRight(bid, nb, now)
  BY <1>1, FcfsBidFits, FcfsBidRight
<1>3. \A n \in bid.nodes : n \in Nodes /\ bid.pos[n] = Len(g.chart[n]) + 1
  BY <1>1, FcfsStart
<1>4. /\ h.wall = g.wall /\ h.start = [g.start EXCEPT ![x] = bid.start]
      /\ h.chart = [n \in Nodes |-> IF n \in bid.nodes
                                      THEN InsertJob(g.chart[n], bid.pos[n], x)
                                      ELSE g.chart[n]]
  BY DEF Accept, Tables
<1>. HIDE DEF h, bid
<1>5. bid.start \in Nat /\ now =< bid.start /\ g.wall[x] \in Nat
  BY <1>2 DEF BidFits, BidRight, Tables
<1>6. ASSUME NEW n \in bid.nodes PROVE LastSlot(h, n, now) = bid.start + g.wall[x]
  <2>. DEFINE q == g.chart[n]
              r == h.chart[n]
  <2>1. q \in Seq(Jobs) /\ r = InsertJob(q, Len(q) + 1, x)
    BY <1>3, <1>4 DEF Tables
  <2>2. h.start[x] = bid.start /\ h.wall[x] = g.wall[x]
    BY <1>4 DEF Tables
  <2>. HIDE DEF q, r
  <2>3. Len(q) \in Nat
    BY <2>1
  <2>4. Len(q) + 1 \in 1 .. Len(q) + 1
    BY <2>3
  <2>5. r \in Seq(Jobs) /\ Len(r) = Len(q) + 1 /\ r[Len(r)] = x
    <3>1. r \in Seq(Jobs)
      BY <2>1, <2>4, InsertJobType
    <3>2. Len(r) = Len(q) + 1
      BY <2>1, <2>4, InsertJobProperties
    <3>3. r[Len(q) + 1] = x
      BY <2>1, <2>4, InsertJobProperties
    <3>. QED
      BY <3>1, <3>2, <3>3
  <2>6. r # <<>>
    BY <2>3, <2>5
  <2>. QED
    BY <1>5, <2>2, <2>5, <2>6 DEF LastSlot, End, r
<1>7. ASSUME NEW n \in Nodes \ bid.nodes PROVE LastSlot(h, n, now) = LastSlot(g, n, now)
  <2>. DEFINE q == g.chart[n]
  <2>1. h.chart[n] = q /\ q \in Seq(Jobs) /\ NotIn(q, x)
    BY <1>4 DEF Tables, Absent
  <2>. HIDE DEF q
  <2>2. q # <<>> => q[Len(q)] # x /\ q[Len(q)] \in Jobs
    BY <2>1 DEF NotIn
  <2>3. q # <<>> => h.start[q[Len(q)]] = g.start[q[Len(q)]]
    BY <1>4, <2>2 DEF Tables
  <2>4. q # <<>> => End(h, q[Len(q)]) = End(g, q[Len(q)])
    BY <1>4, <2>3 DEF End
  <2>. QED
    BY <2>1, <2>4 DEF LastSlot, q
<1>. QED
  BY <1>6, <1>7 DEF h, bid

(* A node is ready when what is planned on it is over.                     *)
LEMMA ReadyClears ==
  ASSUME NEW g \in Tables, NEW n \in Nodes, Ordered(g, g.chart[n]), NEW now \in Nat,
         NEW t \in Nat, now =< t, NEW A, Planned(g, n) \subseteq A
  PROVE  LastSlot(g, n, now) =< t <=> Clears(g, n, A, t)
<1>. DEFINE q == g.chart[n]
<1>1. q \in Seq(Jobs) /\ Planned(g, n) = {q[k] : k \in 1 .. Len(q)}
  BY DEF Tables, Planned
<1>2. \A k \in 1 .. Len(q) : End(g, q[k]) \in Nat
  BY <1>1 DEF Tables, End
<1>3. \A k \in 1 .. Len(q) : End(g, q[k]) =< LastSlot(g, n, now)
  BY LastSlotLast
<1>4. LastSlot(g, n, now) \in Nat
  BY LastSlotType
<1>5. LastSlot(g, n, now) = IF (IF q = <<>> THEN 0 ELSE End(g, q[Len(q)])) < now
                              THEN now ELSE IF q = <<>> THEN 0 ELSE End(g, q[Len(q)])
  BY DEF LastSlot
<1>. HIDE DEF q
<1>6. q # <<>> => Len(q) \in 1 .. Len(q)
  BY <1>1
<1>7. ASSUME LastSlot(g, n, now) =< t PROVE Clears(g, n, A, t)
  <2>1. \A k \in 1 .. Len(q) : End(g, q[k]) =< t
    BY <1>2, <1>3, <1>4, <1>7
  <2>. QED
    BY <1>1, <2>1 DEF Clears
<1>8. ASSUME Clears(g, n, A, t) PROVE LastSlot(g, n, now) =< t
  <2>1. \A k \in 1 .. Len(q) : End(g, q[k]) =< t
    BY <1>1, <1>8 DEF Clears
  <2>2. q # <<>> => End(g, q[Len(q)]) =< t
    BY <1>6, <2>1
  <2>. QED
    BY <1>5, <2>2
<1>. QED
  BY <1>7, <1>8

(* Jobs are planned, and nothing else.                                     *)
LEMMA PlannedJobs ==
  ASSUME NEW g \in Tables, NEW n \in Nodes
  PROVE  Planned(g, n) \subseteq Jobs
<1>1. g.chart[n] \in Seq(Jobs)
  BY DEF Tables
<1>2. \A i \in DOMAIN g.chart[n] : g.chart[n][i] \in Jobs
  BY <1>1
<1>. QED
  BY <1>2 DEF Planned

(* What accept does to the jobs planned.                                   *)
LEMMA FcfsPlanned ==
  ASSUME NEW g \in Tables, NEW x \in Jobs, Absent(g, x), NEW nb \in 1 .. NbNodes, NEW now \in Nat
  PROVE  LET bid == FcfsBid(g, nb, now)
             h == Accept(g, x, bid)
         IN  /\ h.start[x] = bid.start /\ On(h, x) = bid.nodes /\ h.wall = g.wall
             /\ \A n \in bid.nodes : Planned(h, n) = Planned(g, n) \cup {x}
             /\ \A n \in Nodes \ bid.nodes : Planned(h, n) = Planned(g, n)
             /\ \A y \in Jobs : y # x => /\ On(h, y) = On(g, y)
                                         /\ h.start[y] = g.start[y]
                                         /\ End(h, y) = End(g, y)
<1>. DEFINE bid == FcfsBid(g, nb, now)
            h == Accept(g, x, bid)
<1>1. BidFits(g, bid)
  BY NbNodesAssumption, FcfsBidFits
<1>2. h \in Tables
  BY <1>1, AcceptTyped
<1>. HIDE DEF bid
<1>3. /\ h.wall = g.wall
      /\ \A y \in Jobs : y # x => Slot(h, y) = Slot(g, y)
      /\ On(h, x) = bid.nodes \cup On(g, x)
      /\ h.start[x] = bid.start
  BY <1>1, AcceptSlots
<1>4. On(g, x) = {}
  BY AbsentOn
<1>. HIDE DEF h
<1>5. \A y \in Jobs : y # x => On(h, y) = On(g, y) /\ h.start[y] = g.start[y]
  BY <1>3 DEF Slot
<1>6. \A n \in Nodes : Planned(h, n) \subseteq Jobs /\ Planned(g, n) \subseteq Jobs
  BY <1>2, PlannedJobs
<1>7. bid.nodes \subseteq Nodes
  BY <1>1 DEF BidFits
<1>8. ASSUME NEW n \in Nodes, NEW y \in Jobs
      PROVE  y \in Planned(h, n) <=> y \in Planned(g, n) \/ (y = x /\ n \in bid.nodes)
  <2>1. y \in Planned(h, n) <=> n \in On(h, y)
    BY DEF On
  <2>2. y \in Planned(g, n) <=> n \in On(g, y)
    BY DEF On
  <2>. QED
    BY <1>3, <1>4, <1>5, <2>1, <2>2
<1>9. \A n \in bid.nodes : Planned(h, n) = Planned(g, n) \cup {x}
  BY <1>6, <1>7, <1>8
<1>10. \A n \in Nodes \ bid.nodes : Planned(h, n) = Planned(g, n)
  BY <1>6, <1>8
<1>11. \A y \in Jobs : y # x => End(h, y) = End(g, y)
  BY <1>3, <1>5 DEF End
<1>. QED
  BY <1>3, <1>4, <1>5, <1>9, <1>10, <1>11 DEF h, bid

(* The next waiting job of the queue takes its turn.                       *)
LEMMA TurnNext ==
  ASSUME NEW g \in Tables, AllOrdered(g), NEW W \in SUBSET Jobs, NEW q, NEW m \in Nat,
         NEW procs, NEW now \in Nat, Turn(g, q, m, W, procs, now),
         q[m + 1] \in W, procs[q[m + 1]] \in 1 .. NbNodes, Absent(g, q[m + 1]),
         \A k \in 1 .. m : q[k] # q[m + 1]
  PROVE  Turn(Accept(g, q[m + 1], FcfsBid(g, procs[q[m + 1]], now)), q, m + 1, W, procs, now)
<1>. DEFINE x == q[m + 1]
            nb == procs[x]
            bid == FcfsBid(g, nb, now)
            h == Accept(g, x, bid)
            A == Ahead(q, m + 1, W)
<1>0. x \in Jobs /\ x \in W /\ nb \in 1 .. NbNodes /\ Absent(g, x) /\ \A k \in 1 .. m : q[k] # x
  OBVIOUS
<1>1. /\ Cardinality(bid.nodes) = nb /\ bid.nodes \subseteq Nodes
      /\ bid.start \in Nat /\ now =< bid.start
  BY <1>0, FcfsBidFits, FcfsBidRight, NbNodesAssumption DEF BidFits, BidRight
<1>2. \A n \in bid.nodes : LastSlot(g, n, now) =< bid.start
  BY <1>0, FcfsStart, NbNodesAssumption
<1>3. \A n \in Nodes \ bid.nodes : bid.start =< LastSlot(g, n, now)
  BY <1>0, FcfsFirst
<1>4. /\ h.start[x] = bid.start /\ On(h, x) = bid.nodes
      /\ \A n \in bid.nodes : Planned(h, n) = Planned(g, n) \cup {x}
      /\ \A n \in Nodes \ bid.nodes : Planned(h, n) = Planned(g, n)
      /\ \A y \in Jobs : y # x => /\ On(h, y) = On(g, y) /\ h.start[y] = g.start[y]
                                  /\ End(h, y) = End(g, y)
  BY <1>0, FcfsPlanned
<1>5. \A n \in Nodes : Planned(g, n) \subseteq Jobs
  BY PlannedJobs
<1>6. \A n \in Nodes : Planned(g, n) \subseteq A
  BY <1>5 DEF Turn, Ahead
<1>7. \A n \in Nodes : x \notin Planned(g, n)
  BY <1>0, PlannedNotIn DEF Absent
<1>. HIDE DEF h, bid, nb
<1>8. ASSUME NEW n \in Nodes, NEW B, NEW t, x \notin B
      PROVE  Clears(h, n, B, t) <=> Clears(g, n, B, t)
  <2>1. Planned(h, n) \cap B = Planned(g, n) \cap B
    BY <1>4, <1>8
  <2>2. \A y \in Planned(g, n) \cap B : End(h, y) = End(g, y)
    BY <1>4, <1>5, <1>8
  <2>. QED
    BY <2>1, <2>2 DEF Clears
<1>9. x \notin A
  BY <1>0 DEF Ahead
<1>10. AfterOf(h, x, A, nb, now)
  <2>1. ASSUME NEW n \in On(h, x) PROVE Clears(h, n, A, h.start[x])
    <3>1. n \in Nodes /\ n \in bid.nodes
      BY <1>1, <1>4
    <3>2. Clears(g, n, A, bid.start)
      BY <1>1, <1>2, <1>6, <3>1, ReadyClears DEF AllOrdered
    <3>. QED
      BY <1>4, <1>8, <1>9, <3>1, <3>2
  <2>2. ASSUME NEW n \in Nodes \ On(h, x), NEW t \in now .. h.start[x] - 1
        PROVE  ~ Clears(h, n, A, t)
    <3>1. t \in Nat /\ now =< t /\ t < bid.start
      BY <1>1, <1>4
    <3>2. ~ (LastSlot(g, n, now) =< t)
      <4>1. bid.start =< LastSlot(g, n, now) /\ LastSlot(g, n, now) \in Nat
        BY <1>3, <1>4, LastSlotType
      <4>. QED
        BY <1>1, <3>1, <4>1
    <3>3. ~ Clears(g, n, A, t)
      BY <1>6, <3>1, <3>2, ReadyClears DEF AllOrdered
    <3>. QED
      BY <1>8, <1>9, <3>3
  <2>. QED
    BY <1>1, <1>4, <2>1, <2>2 DEF AfterOf
<1>11. ASSUME NEW i \in 1 .. m, q[i] \in W
       PROVE  AfterOf(h, q[i], Ahead(q, i, W), procs[q[i]], now)
  <2>. DEFINE y == q[i]
              B == Ahead(q, i, W)
  <2>1. y \in Jobs /\ y # x /\ x \notin B
    BY <1>0, <1>11 DEF Ahead
  <2>2. AfterOf(g, y, B, procs[y], now)
    BY <1>11 DEF Turn
  <2>. HIDE DEF y, B
  <2>3. On(h, y) = On(g, y) /\ h.start[y] = g.start[y] /\ On(g, y) \subseteq Nodes
    BY <1>4, <2>1 DEF On
  <2>. HIDE DEF x
  <2>4. AfterOf(h, y, B, procs[y], now)
    BY <1>8, <2>1, <2>2, <2>3 DEF AfterOf
  <2>. QED
    BY <2>4 DEF y, B
<1>12. ASSUME NEW n \in Nodes, NEW y \in Planned(h, n) \cap W
       PROVE  \E k \in 1 .. m + 1 : q[k] = y
  <2>1. y \in Planned(g, n) \/ y = x
    BY <1>4
  <2>2. y \in Planned(g, n) => \E k \in 1 .. m : q[k] = y
    BY DEF Turn
  <2>. QED
    BY <2>1, <2>2
<1>13. Turn(h, q, m + 1, W, procs, now)
  <2>1. ASSUME NEW i \in 1 .. m + 1, q[i] \in W
        PROVE  AfterOf(h, q[i], Ahead(q, i, W), procs[q[i]], now)
    <3>1. CASE i = m + 1
      BY <1>10, <3>1 DEF nb
    <3>2. CASE i # m + 1
      <4>1. i \in 1 .. m
        BY <3>2
      <4>. QED
        BY <1>11, <2>1, <4>1
    <3>. QED
      BY <3>1, <3>2
  <2>. HIDE DEF x, A
  <2>. QED
    BY <1>12, <2>1 DEF Turn
<1>. QED
  BY <1>13 DEF h, bid, nb

(* The nodes that are through with A at t.                                 *)
Cleared(g, A, t) == {n \in Nodes : Clears(g, n, A, t)}

(* At any date no fewer nodes of h are ready than are through with A in g. *)
Covers(g, h, A, now) ==
  \A t \in Nat : now =< t => Cardinality(Cleared(g, A, t)) =< Cardinality(FreeBy(h, t, now))

(***************************************************************************)
(* One job in both tables: in g it starts at s, after the jobs of A, and in*)
(* h, where no fewer nodes are ready at s, it is planned again, no later.  *)
(***************************************************************************)
LEMMA CoversNext ==
  ASSUME NEW g \in Tables, NEW h \in Tables, h.wall = g.wall, NEW x \in Jobs, NEW A, x \notin A,
         NEW nb \in 1 .. NbNodes, NEW now \in Nat,
         AfterOf(g, x, A, nb, now), Absent(h, x), Covers(g, h, A, now)
  PROVE  Covers(g, Accept(h, x, FcfsBid(h, nb, now)), A \cup {x}, now)
<1>. DEFINE bid == FcfsBid(h, nb, now)
            r == Accept(h, x, bid)
            s == g.start[x]
            w == g.wall[x]
            X == On(g, x)
            c == bid.nodes
            e == bid.start
<1>1. /\ s \in Nat /\ now =< s /\ w \in Nat /\ nb \in Nat
      /\ X \subseteq Nodes /\ Cardinality(X) = nb
  BY NbNodesAssumption DEF Tables, AfterOf, On
<1>2. c \subseteq Nodes /\ Cardinality(c) = nb /\ e \in Nat /\ now =< e
  BY FcfsBidFits, FcfsBidRight, NbNodesAssumption DEF BidFits, BidRight
<1>3. \A n \in c : LastSlot(r, n, now) = e + w
  BY FcfsPlaces
<1>4. \A n \in Nodes \ c : LastSlot(r, n, now) = LastSlot(h, n, now)
  BY FcfsPlaces
<1>5. \A n \in c : LastSlot(h, n, now) =< e
  BY FcfsStart, NbNodesAssumption
<1>6. \A t \in Nat : Cardinality(FreeBy(h, t, now)) >= nb => e =< t
  BY FcfsFirst
<1>7. \A n \in Nodes : LastSlot(h, n, now) \in Nat
  BY LastSlotType
<1>8. /\ \A n \in X : Clears(g, n, A, s)
      /\ \A n \in Nodes \ X : \A t \in now .. s - 1 : ~ Clears(g, n, A, t)
  BY DEF AfterOf
<1>9. ASSUME NEW n \in Nodes, NEW t
      PROVE  Clears(g, n, A \cup {x}, t) <=> Clears(g, n, A, t) /\ (n \in X => s + w =< t)
  BY DEF Clears, On, End
<1>10. \A n \in Nodes : \A y \in Planned(g, n) : End(g, y) \in Nat
  <2>1. \A y \in Jobs : End(g, y) \in Nat
    BY DEF Tables, End
  <2>. QED
    BY <2>1, PlannedJobs
<1>. HIDE DEF r, bid, c, e, s, w, X
<1>11. \A S \in SUBSET Nodes : IsFiniteSet(S) /\ Cardinality(S) \in Nat
  BY NodesFinite, FS_Subset, FS_CardinalityType
<1>12. \A S, T \in SUBSET Nodes : S \subseteq T => Cardinality(S) =< Cardinality(T)
  BY <1>11, FS_Subset
<1>13. \A a, t : Cleared(g, a, t) \in SUBSET Nodes /\ FreeBy(h, t, now) \in SUBSET Nodes
                  /\ FreeBy(r, t, now) \in SUBSET Nodes
  BY DEF Cleared, FreeBy
<1>14. ASSUME NEW t \in Nat, s =< t PROVE X \subseteq Cleared(g, A, t)
  <2>1. \A n \in X : \A y \in Planned(g, n) \cap A : End(g, y) =< t
    BY <1>1, <1>8, <1>10, <1>14 DEF Clears
  <2>. QED
    BY <1>1, <2>1 DEF Cleared, Clears
<1>15. e =< s
  <2>1. nb =< Cardinality(Cleared(g, A, s))
    BY <1>1, <1>11, <1>12, <1>13, <1>14
  <2>2. Cardinality(Cleared(g, A, s)) =< Cardinality(FreeBy(h, s, now))
    BY <1>1 DEF Covers
  <2>. QED
    BY <1>1, <1>6, <1>11, <1>13, <2>1, <2>2
<1>16. ASSUME NEW t \in Nat, now =< t
       PROVE  Cardinality(Cleared(g, A \cup {x}, t)) =< Cardinality(FreeBy(r, t, now))
  <2>. DEFINE B == Cleared(g, A, t)
              D == Cleared(g, A \cup {x}, t)
              L == FreeBy(h, t, now)
              M == FreeBy(r, t, now)
  <2>1. Cardinality(B) =< Cardinality(L)
    BY <1>16 DEF Covers
  <2>2. D = {n \in B : n \in X => s + w =< t}
    BY <1>9 DEF Cleared
  <2>3. L \ c \subseteq M /\ (e + w =< t => L \subseteq M)
    BY <1>3, <1>4 DEF FreeBy
  <2>4. /\ B \in SUBSET Nodes /\ D \in SUBSET Nodes /\ L \in SUBSET Nodes /\ M \in SUBSET Nodes
        /\ X \in SUBSET Nodes /\ c \in SUBSET Nodes
    BY <1>1, <1>2, <1>13
  <2>5. ASSUME t < s PROVE B \subseteq X
    BY <1>1, <1>8, <1>16, <2>5 DEF Cleared
  <2>6. s =< t => X \subseteq B /\ c \subseteq L
    <3>1. s =< t => c \subseteq L
      BY <1>1, <1>2, <1>5, <1>7, <1>15 DEF FreeBy
    <3>. QED
      BY <1>14, <3>1
  <2>. HIDE DEF B, D, L, M
  <2>7. CASE s + w =< t
    <3>1. D \subseteq B /\ L \subseteq M
      BY <1>1, <1>2, <1>15, <2>2, <2>3, <2>7
    <3>2. Cardinality(D) =< Cardinality(B) /\ Cardinality(L) =< Cardinality(M)
      BY <1>12, <2>4, <3>1
    <3>3. /\ Cardinality(D) \in Nat /\ Cardinality(B) \in Nat
          /\ Cardinality(L) \in Nat /\ Cardinality(M) \in Nat
      BY <1>11, <2>4
    <3>. QED
      BY <2>1, <3>2, <3>3 DEF D, M
  <2>8. CASE s =< t /\ ~ (s + w =< t)
    <3>1. D = B \ X /\ B \cap X = X /\ L \cap c = c
      BY <2>2, <2>6, <2>8
    <3>2. Cardinality(B \ X) = Cardinality(B) - Cardinality(B \cap X)
      BY <1>11, <2>4, FS_Difference
    <3>3. Cardinality(L \ c) = Cardinality(L) - Cardinality(L \cap c)
      BY <1>11, <2>4, FS_Difference
    <3>4. L \ c \in SUBSET Nodes
      BY <2>4
    <3>5. Cardinality(L \ c) =< Cardinality(M)
      BY <1>12, <2>3, <2>4, <3>4
    <3>6. Cardinality(D) = Cardinality(B) - nb /\ Cardinality(L \ c) = Cardinality(L) - nb
      BY <1>1, <1>2, <3>1, <3>2, <3>3
    <3>7. Cardinality(B) \in Nat /\ Cardinality(L) \in Nat /\ Cardinality(M) \in Nat
      BY <1>11, <2>4
    <3>. QED
      BY <1>1, <2>1, <3>5, <3>6, <3>7 DEF D, M
  <2>9. CASE t < s
    <3>1. D = {}
      BY <1>1, <2>2, <2>5, <2>9
    <3>2. Cardinality(D) = 0 /\ Cardinality(M) \in Nat
      BY <1>11, <2>4, <3>1, FS_EmptySet
    <3>. QED
      BY <3>2 DEF D, M
  <2>. QED
    BY <1>1, <2>7, <2>8, <2>9
<1>. QED
  BY <1>16 DEF Covers, r, bid

(* A job that does not wait takes no turn.                                 *)
LEMMA TurnSkip ==
  ASSUME NEW g, NEW W, NEW q, NEW m \in Nat, NEW procs, NEW now,
         Turn(g, q, m, W, procs, now), q[m + 1] \notin W
  PROVE  Turn(g, q, m + 1, W, procs, now)
<1>1. ASSUME NEW i \in 1 .. m + 1, q[i] \in W PROVE i \in 1 .. m
  BY <1>1
<1>2. 1 .. m \subseteq 1 .. m + 1
  OBVIOUS
<1>. QED
  BY <1>1, <1>2 DEF Turn

(* The queue can be planned: its waiting jobs fit, and each is there once. *)
QueueFits(q, W, procs) ==
  /\ \A i \in 1 .. Len(q) : q[i] \in W => procs[q[i]] \in 1 .. NbNodes
  /\ \A i, k \in 1 .. Len(q) : q[i] = q[k] => i = k

(* The jobs of W that are not among the i first of q have no slot in h.    *)
Behind(h, q, i, W) == \A x \in W : (\A k \in 1 .. i : q[k] # x) => Absent(h, x)

(* What a step of the loop finds and leaves, as far as jobs without slots  *)
(* go.                                                                     *)
LEMMA LaterNext ==
  ASSUME NEW h \in Tables, NEW q, NEW m \in Nat, NEW W \in SUBSET Jobs, Behind(h, q, m, W),
         NEW nb \in 1 .. NbNodes, NEW now \in Nat, q[m + 1] \in Jobs
  PROVE  /\ Behind(h, q, m + 1, W)
         /\ Behind(Accept(h, q[m + 1], FcfsBid(h, nb, now)), q, m + 1, W)
<1>. DEFINE j == q[m + 1]
            r == Accept(h, j, FcfsBid(h, nb, now))
<1>1. BidFits(h, FcfsBid(h, nb, now))
  BY FcfsBidFits, NbNodesAssumption
<1>2. \A x : x # j /\ Absent(h, x) => Absent(r, x)
  BY <1>1, AcceptAbsent
<1>3. ASSUME NEW x \in W, \A k \in 1 .. m + 1 : q[k] # x
      PROVE  x # j /\ \A k \in 1 .. m : q[k] # x
  BY <1>3
<1>. HIDE DEF r, j
<1>4. Behind(h, q, m + 1, W)
  BY <1>3 DEF Behind
<1>5. Behind(r, q, m + 1, W)
  BY <1>2, <1>3 DEF Behind
<1>. QED
  BY <1>4, <1>5 DEF r, j

(***************************************************************************)
(* generic_reschedule with fcfs: from a table without waiting jobs, one    *)
(* queue of them is planned in turn.                                       *)
(***************************************************************************)
LEMMA QueueTurn ==
  ASSUME NEW b \in Tables, AllOrdered(b), NEW q \in Seq(Jobs), NEW W \in SUBSET Jobs,
         NEW procs, NEW now \in Nat, QueueFits(q, W, procs), \A x \in W : Absent(b, x)
  PROVE  Turn(RescheduleQueue("fcfs", b, q, W, procs, now), q, Len(q), W, procs, now)
<1>0. \A i \in 1 .. Len(q) : q[i] \in W => procs[q[i]] \in 1 .. NbNodes
  BY DEF QueueFits
<1>1. PICK f : /\ QueueSteps(f, "fcfs", b, q, W, procs, now)
               /\ RescheduleQueue("fcfs", b, q, W, procs, now) = f[Len(q)]
  BY <1>0, RescheduleQueueSteps
<1>. DEFINE n == Len(q)
            Good(i) == /\ AllOrdered(f[i])
                       /\ Behind(f[i], q, i, W)
                       /\ Turn(f[i], q, i, W, procs, now)
            id == [i \in 0 .. n |-> i]
            T == {i \in 0 .. n : Good(i)}
<1>2. n \in Nat /\ f[0] = b /\ f \in [0 .. n -> Tables]
  BY <1>1 DEF QueueSteps
<1>3. Good(0)
  <2>1. Turn(b, q, 0, W, procs, now)
    <3>1. \A m \in Nodes : \A x \in W : x \notin Planned(b, m)
      BY PlannedNotIn DEF Absent
    <3>. QED
      BY <3>1 DEF Turn
  <2>. QED
    BY <1>2, <2>1 DEF Behind
<1>4. ASSUME NEW i \in 1 .. n, Good(i - 1) PROVE Good(i)
  <2>. DEFINE m == i - 1
              h == f[i - 1]
  <2>1. m \in Nat /\ m + 1 = i /\ m \in 0 .. n
    BY <1>2
  <2>2. /\ h \in Tables /\ AllOrdered(h) /\ Behind(h, q, m, W)
        /\ Turn(h, q, m, W, procs, now)
    BY <1>2, <1>4, <2>1
  <2>3. q[m + 1] \in Jobs
    BY <2>1
  <2>4. \A k \in 1 .. m : q[k] # q[m + 1]
    <3>1. \A k \in 1 .. m : k \in 1 .. n /\ k # m + 1 /\ m + 1 \in 1 .. n
      BY <1>2, <2>1
    <3>. QED
      BY <3>1 DEF QueueFits
  <2>5. CASE q[m + 1] \notin W
    <3>1. f[i] = h
      BY <1>1, <2>1, <2>5 DEF QueueSteps
    <3>2. \A x \in W : (\A k \in 1 .. m + 1 : q[k] # x) => \A k \in 1 .. m : q[k] # x
      BY <2>1
    <3>. HIDE DEF m, h
    <3>3. Behind(h, q, m + 1, W)
      BY <2>2, <3>2 DEF Behind
    <3>4. Turn(h, q, m + 1, W, procs, now)
      BY <2>1, <2>2, <2>5, TurnSkip
    <3>. QED
      BY <2>1, <2>2, <3>1, <3>3, <3>4
  <2>6. CASE q[m + 1] \in W
    <3>1. f[i] = Accept(h, q[m + 1], FcfsBid(h, procs[q[m + 1]], now))
      BY <1>1, <2>1, <2>6 DEF QueueSteps, Schedule
    <3>2. procs[q[m + 1]] \in 1 .. NbNodes
      BY <2>1, <2>6 DEF QueueFits
    <3>. HIDE DEF m, h, n
    <3>3. Absent(h, q[m + 1])
      BY <2>2, <2>4, <2>6 DEF Behind
    <3>. DEFINE x == q[m + 1]
                nb == procs[x]
                r == Accept(h, x, FcfsBid(h, nb, now))
    <3>4. AllOrdered(Accept(h, x, Schedule("fcfs", h, x, nb, now)))
      <4>1. nb \in 1 .. NbNodes /\ Absent(h, x) /\ x \in Jobs
        BY <2>3, <3>2, <3>3
      <4>. HIDE DEF nb, x
      <4>. QED
        BY <2>2, <4>1, ScheduleOrdered
    <3>5. AllOrdered(r)
      BY <3>4 DEF Schedule
    <3>6. Turn(r, q, m + 1, W, procs, now)
      BY <2>1, <2>2, <2>4, <2>6, <3>2, <3>3, TurnNext
    <3>7. Behind(r, q, m + 1, W)
      <4>1. /\ nb \in 1 .. NbNodes /\ m \in Nat /\ h \in Tables
            /\ Behind(h, q, m, W) /\ q[m + 1] \in Jobs
        BY <2>1, <2>2, <2>3, <3>2
      <4>. HIDE DEF nb
      <4>. QED
        BY <4>1, LaterNext
    <3>8. f[i] = r
      BY <3>1
    <3>. HIDE DEF r
    <3>. QED
      BY <2>1, <3>5, <3>6, <3>7, <3>8
  <2>. QED
    BY <2>5, <2>6
<1>5. \A i \in 0 .. n : id[i] \in T
  <2>1. id[0] \in T
    BY <1>2, <1>3
  <2>2. \A i \in 1 .. n : id[i - 1] \in T => id[i] \in T
    <3>. HIDE DEF Good
    <3>. QED
      BY <1>2, <1>4
  <2>. HIDE DEF id, T, n
  <2>. QED
    BY <1>2, <2>1, <2>2, FunctionInduction
<1>6. Good(n)
  <2>. HIDE DEF Good
  <2>. QED
    BY <1>2, <1>5
<1>. QED
  BY <1>1, <1>6

(***************************************************************************)
(* The jobs that waited in g, planned again in the order of their queue on *)
(* a table b where the others are over no later.                           *)
(***************************************************************************)
LEMMA QueueCovers ==
  ASSUME NEW g \in Tables, NEW b \in Tables, b.wall = g.wall, NEW q \in Seq(Jobs),
         NEW W \in SUBSET Jobs, NEW procs, NEW now \in Nat, QueueFits(q, W, procs),
         \A x \in W : Absent(b, x), Turn(g, q, Len(q), W, procs, now),
         Covers(g, b, Jobs \ W, now)
  PROVE  Covers(g, RescheduleQueue("fcfs", b, q, W, procs, now), Jobs, now)
<1>0. \A i \in 1 .. Len(q) : q[i] \in W => procs[q[i]] \in 1 .. NbNodes
  BY DEF QueueFits
<1>1. PICK f : /\ QueueSteps(f, "fcfs", b, q, W, procs, now)
               /\ RescheduleQueue("fcfs", b, q, W, procs, now) = f[Len(q)]
  BY <1>0, RescheduleQueueSteps
<1>. DEFINE n == Len(q)
            Good(i) == /\ f[i].wall = g.wall
                       /\ Behind(f[i], q, i, W)
                       /\ Covers(g, f[i], Ahead(q, i + 1, W), now)
            id == [i \in 0 .. n |-> i]
            T == {i \in 0 .. n : Good(i)}
<1>2. n \in Nat /\ f[0] = b /\ f \in [0 .. n -> Tables]
  BY <1>1 DEF QueueSteps
<1>3. Good(0)
  <2>1. Ahead(q, 0 + 1, W) = Jobs \ W
    BY DEF Ahead
  <2>. QED
    BY <1>2, <2>1 DEF Behind
<1>4. ASSUME NEW i \in 1 .. n, Good(i - 1) PROVE Good(i)
  <2>. DEFINE m == i - 1
              h == f[i - 1]
  <2>1. m \in Nat /\ m + 1 = i /\ m \in 0 .. n
    BY <1>2
  <2>2. h \in Tables /\ h.wall = g.wall /\ Behind(h, q, m, W) /\ Covers(g, h, Ahead(q, i, W), now)
    BY <1>2, <1>4, <2>1
  <2>3. q[m + 1] \in Jobs
    BY <2>1
  <2>4. \A k \in 1 .. m : q[k] # q[m + 1]
    <3>1. \A k \in 1 .. m : k \in 1 .. n /\ k # m + 1 /\ m + 1 \in 1 .. n
      BY <1>2, <2>1
    <3>. QED
      BY <3>1 DEF QueueFits
  <2>5. Ahead(q, i + 1, W) = Ahead(q, i, W) \cup {q[m + 1]}
    <3>1. 1 .. (i + 1) - 1 = (1 .. i - 1) \cup {i}
      BY <1>2
    <3>. QED
      BY <2>1, <3>1 DEF Ahead
  <2>6. CASE q[m + 1] \notin W
    <3>1. f[i] = h
      BY <1>1, <2>1, <2>6 DEF QueueSteps
    <3>2. \A x \in W : (\A k \in 1 .. m + 1 : q[k] # x) => \A k \in 1 .. m : q[k] # x
      BY <2>1
    <3>3. Ahead(q, i, W) \cup {q[m + 1]} = Ahead(q, i, W)
      BY <2>3, <2>6 DEF Ahead
    <3>. HIDE DEF m, h
    <3>4. Behind(h, q, m + 1, W)
      BY <2>2, <3>2 DEF Behind
    <3>. QED
      BY <2>1, <2>2, <2>5, <3>1, <3>3, <3>4
  <2>7. CASE q[m + 1] \in W
    <3>. DEFINE x == q[m + 1]
                nb == procs[x]
                A == Ahead(q, i, W)
                r == Accept(h, x, FcfsBid(h, nb, now))
    <3>1. f[i] = r
      BY <1>1, <2>1, <2>7 DEF QueueSteps, Schedule
    <3>2. nb \in 1 .. NbNodes
      BY <2>1, <2>7 DEF QueueFits
    <3>3. x \notin A
      BY <2>1, <2>4, <2>7 DEF Ahead
    <3>4. AfterOf(g, x, A, nb, now)
      BY <2>1, <2>7 DEF Turn
    <3>. HIDE DEF m, h, n
    <3>5. Absent(h, x)
      BY <2>2, <2>4, <2>7 DEF Behind
    <3>6. Behind(r, q, m + 1, W)
      <4>. HIDE DEF nb
      <4>. QED
        BY <2>1, <2>2, <2>3, <3>2, LaterNext
    <3>7. x \in Jobs
      BY <2>3
    <3>. HIDE DEF x, nb, A
    <3>8. Covers(g, r, A \cup {x}, now)
      BY <2>2, <3>2, <3>3, <3>4, <3>5, <3>7, CoversNext DEF A
    <3>9. r.wall = h.wall
      BY <2>2, <3>2, <3>5, <3>7, FcfsPlanned
    <3>. HIDE DEF r
    <3>. QED
      BY <2>1, <2>2, <2>5, <3>1, <3>6, <3>8, <3>9 DEF x, A
  <2>. QED
    BY <2>6, <2>7
<1>5. \A i \in 0 .. n : id[i] \in T
  <2>1. id[0] \in T
    BY <1>2, <1>3
  <2>2. \A i \in 1 .. n : id[i - 1] \in T => id[i] \in T
    <3>. HIDE DEF Good
    <3>. QED
      BY <1>2, <1>4
  <2>. HIDE DEF id, T, n
  <2>. QED
    BY <1>2, <2>1, <2>2, FunctionInduction
<1>6. Good(n)
  <2>. HIDE DEF Good
  <2>. QED
    BY <1>2, <1>5
<1>7. \A m \in Nodes : Planned(g, m) \cap Jobs = Planned(g, m) \cap Ahead(q, n + 1, W)
  <2>1. \A m \in Nodes : Planned(g, m) \subseteq Jobs
    BY PlannedJobs
  <2>2. \A m \in Nodes : \A x \in Planned(g, m) \cap W : \E k \in 1 .. n : q[k] = x
    BY DEF Turn
  <2>3. 1 .. (n + 1) - 1 = 1 .. n
    BY <1>2
  <2>. HIDE DEF n
  <2>. QED
    BY <2>1, <2>2, <2>3 DEF Ahead
<1>8. \A t : Cleared(g, Jobs, t) = Cleared(g, Ahead(q, n + 1, W), t)
  <2>. HIDE DEF n
  <2>. QED
    BY <1>7 DEF Cleared, Clears
<1>9. Covers(g, f[n], Jobs, now)
  <2>. HIDE DEF n
  <2>. QED
    BY <1>6, <1>8 DEF Covers
<1>. QED
  BY <1>1, <1>9

(* What is kept of a queue that holds each job once comes from the queue,  *)
(* and holds each job once.                                                *)
LEMMA KeepDistinct ==
  ASSUME NEW q \in Seq(Jobs), NEW S, \A i, k \in 1 .. Len(q) : q[i] = q[k] => i = k
  PROVE  /\ Keep(q, S) \in Seq(Jobs)
         /\ \A i \in 1 .. Len(Keep(q, S)) :
              Keep(q, S)[i] \in S /\ \E h \in 1 .. Len(q) : Keep(q, S)[i] = q[h]
         /\ \A i, k \in 1 .. Len(Keep(q, S)) : Keep(q, S)[i] = Keep(q, S)[k] => i = k
<1>1. PICK f : KeepSteps(f, q, S) /\ Keep(q, S) = f[Len(q)]
  BY KeepIsSteps
<1>. DEFINE n == Len(q)
            From(i) == \A k \in 1 .. Len(f[i]) : f[i][k] \in S /\ \E h \in 1 .. i : f[i][k] = q[h]
            Each(i) == \A k, l \in 1 .. Len(f[i]) : f[i][k] = f[i][l] => k = l
            Good(i) == From(i) /\ Each(i)
            id == [i \in 0 .. n |-> i]
            T == {i \in 0 .. n : Good(i)}
<1>2. n \in Nat /\ f[0] = <<>> /\ f \in [0 .. n -> Seq(Jobs)]
  BY <1>1 DEF KeepSteps
<1>3. Good(0)
  BY <1>2
<1>4. ASSUME NEW i \in 1 .. n, Good(i - 1) PROVE Good(i)
  <2>. DEFINE r == f[i - 1]
              x == q[i]
              s == Append(r, x)
  <2>1. /\ i - 1 \in 0 .. n /\ x \in Jobs /\ r \in Seq(Jobs)
        /\ \A h \in 1 .. i - 1 : h \in 1 .. i /\ h \in 1 .. n /\ h # i
    BY <1>2
  <2>2. /\ \A k \in 1 .. Len(r) : r[k] \in S /\ \E h \in 1 .. i - 1 : r[k] = q[h]
        /\ \A k, l \in 1 .. Len(r) : r[k] = r[l] => k = l
    BY <1>4
  <2>3. \A k \in 1 .. Len(r) : r[k] # x
    BY <2>1, <2>2
  <2>4. i \in 1 .. i
    BY <1>2
  <2>5. f[i] = IF x \in S THEN s ELSE r
    BY <1>1 DEF KeepSteps
  <2>. HIDE DEF r, x, n, Good, From, Each
  <2>6. Len(r) \in Nat /\ Len(s) = Len(r) + 1 /\ s[Len(r) + 1] = x
        /\ \A k \in 1 .. Len(r) : s[k] = r[k]
    BY <2>1
  <2>7. \A k \in 1 .. Len(s) : k = Len(r) + 1 \/ k \in 1 .. Len(r)
    BY <2>6
  <2>. HIDE DEF s
  <2>8. CASE x \notin S
    <3>1. f[i] = r
      BY <2>5, <2>8
    <3>2. \A k \in 1 .. Len(r) : r[k] \in S /\ \E h \in 1 .. i : r[k] = q[h]
      BY <2>1, <2>2
    <3>. QED
      BY <2>2, <3>1, <3>2 DEF Good, From, Each
  <2>9. CASE x \in S
    <3>1. f[i] = s
      BY <2>5, <2>9
    <3>2. \A k \in 1 .. Len(s) : s[k] \in S /\ \E h \in 1 .. i : s[k] = q[h]
      <4>1. x = q[i]
        BY DEF x
      <4>. QED
        BY <2>1, <2>2, <2>4, <2>6, <2>7, <2>9, <4>1
    <3>3. \A k, l \in 1 .. Len(s) : s[k] = s[l] => k = l
      BY <2>2, <2>3, <2>6, <2>7
    <3>. QED
      BY <3>1, <3>2, <3>3 DEF Good, From, Each
  <2>. QED
    BY <2>8, <2>9
<1>5. \A i \in 0 .. n : id[i] \in T
  <2>1. id[0] \in T
    BY <1>2, <1>3
  <2>2. \A i \in 1 .. n : id[i - 1] \in T => id[i] \in T
    <3>. HIDE DEF Good
    <3>. QED
      BY <1>2, <1>4
  <2>. HIDE DEF id, T, n
  <2>. QED
    BY <1>2, <2>1, <2>2, FunctionInduction
<1>6. Good(n)
  <2>. HIDE DEF Good
  <2>. QED
    BY <1>2, <1>5
<1>7. f[n] \in Seq(Jobs)
  BY <1>2
<1>. QED
  BY <1>1, <1>6, <1>7

(* The loop goes through the same tables as long as the queue is the same. *)
LEMMA SameFrom ==
  ASSUME NEW plugin, NEW g, NEW q \in Seq(Jobs), NEW r \in Seq(Jobs), NEW movable, NEW procs,
         NEW now, NEW e, NEW f,
         QueueSteps(e, plugin, g, r, movable, procs, now),
         QueueSteps(f, plugin, g, q, movable, procs, now),
         Len(r) =< Len(q), \A i \in 1 .. Len(r) : q[i] = r[i]
  PROVE  f[Len(r)] = e[Len(r)]
<1>. DEFINE n == Len(r)
            id == [i \in 0 .. n |-> i]
            T == {i \in 0 .. n : f[i] = e[i]}
<1>1. n \in Nat /\ 1 .. n \subseteq 1 .. Len(q)
  OBVIOUS
<1>2. f[0] = e[0]
  BY DEF QueueSteps
<1>3. ASSUME NEW i \in 1 .. n, f[i - 1] = e[i - 1] PROVE f[i] = e[i]
  BY <1>1, <1>3 DEF QueueSteps
<1>4. \A i \in 0 .. n : id[i] \in T
  <2>1. id[0] \in T
    BY <1>1, <1>2
  <2>2. \A i \in 1 .. n : id[i - 1] \in T => id[i] \in T
    BY <1>1, <1>3
  <2>. HIDE DEF id, T, n
  <2>. QED
    BY <1>1, <2>1, <2>2, FunctionInduction
<1>. QED
  BY <1>1, <1>4

(* The queue holds nothing.                                                *)
Nothing(q) == Len(q) = 0

(* Nothing is planned of an empty queue.                                   *)
LEMMA QueueEmpty ==
  ASSUME NEW plugin, NEW g \in Tables, NEW q \in Seq(Jobs), Nothing(q), NEW movable, NEW procs,
         NEW now \in Nat
  PROVE  RescheduleQueue(plugin, g, q, movable, procs, now) = g
<1>1. ASSUME NEW r \in Seq(Jobs),
             \A i \in 1 .. Len(r) : r[i] \in movable => procs[r[i]] \in 1 .. NbNodes
      PROVE  \E f : /\ QueueSteps(f, plugin, g, r, movable, procs, now)
                    /\ RescheduleQueue(plugin, g, r, movable, procs, now) = f[Len(r)]
  BY <1>1, RescheduleQueueSteps
<1>2. \A i \in 1 .. Len(q) : q[i] \in movable => procs[q[i]] \in 1 .. NbNodes
  BY DEF Nothing
<1>3. PICK f : /\ QueueSteps(f, plugin, g, q, movable, procs, now)
               /\ RescheduleQueue(plugin, g, q, movable, procs, now) = f[Len(q)]
  BY <1>1, <1>2
<1>. QED
  BY <1>3 DEF QueueSteps, Nothing

(* The last job of a queue is planned after the others.                    *)
LEMMA QueueAppend ==
  ASSUME NEW plugin, NEW g \in Tables, NEW r \in Seq(Jobs), NEW x \in Jobs, NEW movable,
         NEW procs, NEW now \in Nat,
         \A i \in 1 .. Len(r) : r[i] \in movable => procs[r[i]] \in 1 .. NbNodes,
         x \in movable, procs[x] \in 1 .. NbNodes
  PROVE  LET h == RescheduleQueue(plugin, g, r, movable, procs, now)
         IN  RescheduleQueue(plugin, g, Append(r, x), movable, procs, now)
               = Accept(h, x, Schedule(plugin, h, x, procs[x], now))
<1>. DEFINE q == Append(r, x)
            n == Len(r)
<1>1. /\ q \in Seq(Jobs) /\ n \in Nat /\ Len(q) = n + 1 /\ q[n + 1] = x
      /\ \A i \in 1 .. n : q[i] = r[i]
  OBVIOUS
<1>. HIDE DEF q
<1>2. ASSUME NEW i \in 1 .. Len(q), q[i] \in movable PROVE procs[q[i]] \in 1 .. NbNodes
  <2>1. i = n + 1 \/ i \in 1 .. n
    BY <1>1
  <2>. HIDE DEF n
  <2>. QED
    BY <1>1, <1>2, <2>1 DEF n
<1>3. PICK f : /\ QueueSteps(f, plugin, g, q, movable, procs, now)
               /\ RescheduleQueue(plugin, g, q, movable, procs, now) = f[Len(q)]
  BY <1>1, <1>2, RescheduleQueueSteps
<1>4. PICK e : /\ QueueSteps(e, plugin, g, r, movable, procs, now)
               /\ RescheduleQueue(plugin, g, r, movable, procs, now) = e[Len(r)]
  BY RescheduleQueueSteps
<1>5. f[n] = e[n]
  BY <1>1, <1>3, <1>4, SameFrom
<1>6. n + 1 \in 1 .. Len(q) /\ (n + 1) - 1 = n
  BY <1>1
<1>. HIDE DEF n
<1>7. f[n + 1] = Accept(f[n], x, Schedule(plugin, f[n], x, procs[x], now))
  BY <1>1, <1>3, <1>6 DEF QueueSteps
<1>. QED
  BY <1>1, <1>3, <1>4, <1>5, <1>7 DEF n, q

(* Jobs that are not movable may as well not be in the queue.              *)
LEMMA QueueKept ==
  ASSUME NEW plugin, NEW g \in Tables, NEW q \in Seq(Jobs), NEW movable, NEW procs,
         \A i \in 1 .. Len(q) : q[i] \in movable => procs[q[i]] \in 1 .. NbNodes,
         NEW now \in Nat, NEW S, movable \subseteq S
  PROVE  RescheduleQueue(plugin, g, Keep(q, S), movable, procs, now)
           = RescheduleQueue(plugin, g, q, movable, procs, now)
<1>1. PICK k : KeepSteps(k, q, S) /\ Keep(q, S) = k[Len(q)]
  BY KeepIsSteps
<1>2. PICK f : /\ QueueSteps(f, plugin, g, q, movable, procs, now)
               /\ RescheduleQueue(plugin, g, q, movable, procs, now) = f[Len(q)]
  BY RescheduleQueueSteps
<1>. DEFINE n == Len(q)
            Fit(r) == \A i \in 1 .. Len(r) : r[i] \in movable => procs[r[i]] \in 1 .. NbNodes
            Plan(r) == RescheduleQueue(plugin, g, r, movable, procs, now)
            Good(i) == Fit(k[i]) /\ Plan(k[i]) = f[i]
            id == [i \in 0 .. n |-> i]
            T == {i \in 0 .. n : Good(i)}
<1>3. /\ n \in Nat /\ k[0] = <<>> /\ k \in [0 .. n -> Seq(Jobs)]
      /\ f[0] = g /\ f \in [0 .. n -> Tables]
  BY <1>1, <1>2 DEF KeepSteps, QueueSteps
<1>4. Good(0)
  <2>1. k[0] \in Seq(Jobs) /\ Nothing(k[0])
    BY <1>3 DEF Nothing
  <2>2. Plan(k[0]) = g
    BY <1>3, <2>1, QueueEmpty
  <2>. HIDE DEF Plan
  <2>. QED
    BY <1>3, <2>2
<1>5. ASSUME NEW i \in 1 .. n, Good(i - 1) PROVE Good(i)
  <2>. DEFINE r == k[i - 1]
              x == q[i]
              h == f[i - 1]
  <2>0. i - 1 \in 0 .. n /\ x \in Jobs
    BY <1>3
  <2>1. r \in Seq(Jobs) /\ x \in Jobs
    <3>. HIDE DEF n
    <3>. QED
      BY <1>3, <2>0
  <2>2. Fit(r) /\ Plan(r) = h
    BY <1>5
  <2>3. x \in movable => x \in S /\ procs[x] \in 1 .. NbNodes
    OBVIOUS
  <2>4. k[i] = IF x \in S THEN Append(r, x) ELSE r
    BY <1>1 DEF KeepSteps
  <2>5. f[i] = IF x \in movable THEN Accept(h, x, Schedule(plugin, h, x, procs[x], now)) ELSE h
    BY <1>2 DEF QueueSteps
  <2>. HIDE DEF r, x, h, n
  <2>6. CASE x \notin S
    BY <2>2, <2>3, <2>4, <2>5, <2>6
  <2>7. CASE x \in S
    <3>. DEFINE s == Append(r, x)
    <3>1. /\ s \in Seq(Jobs) /\ Len(r) \in Nat /\ Len(s) = Len(r) + 1 /\ s[Len(r) + 1] = x
          /\ \A l \in 1 .. Len(r) : s[l] = r[l]
      BY <2>1
    <3>2. \A l \in 1 .. Len(s) : l = Len(r) + 1 \/ l \in 1 .. Len(r)
      BY <3>1
    <3>3. Fit(s)
      <4>. HIDE DEF s
      <4>. QED
        BY <2>2, <2>3, <3>1, <3>2
    <3>4. Plan(s) = f[i]
      <4>1. CASE x \in movable
        <5>1. Plan(s) = Accept(h, x, Schedule(plugin, h, x, procs[x], now))
          BY <2>1, <2>2, <2>3, <4>1, QueueAppend
        <5>. QED
          BY <2>5, <4>1, <5>1
      <4>2. CASE x \notin movable
        <5>1. PICK d : /\ QueueSteps(d, plugin, g, s, movable, procs, now)
                       /\ Plan(s) = d[Len(s)]
          <6>. HIDE DEF s
          <6>. QED
            BY <3>1, <3>3, RescheduleQueueSteps
        <5>2. PICK e : /\ QueueSteps(e, plugin, g, r, movable, procs, now)
                       /\ Plan(r) = e[Len(r)]
          BY <2>1, <2>2, RescheduleQueueSteps
        <5>3. d[Len(r)] = e[Len(r)]
          <6>. HIDE DEF s
          <6>. QED
            BY <2>1, <3>1, <5>1, <5>2, SameFrom
        <5>4. Len(r) + 1 \in 1 .. Len(s) /\ (Len(r) + 1) - 1 = Len(r)
          BY <3>1
        <5>. HIDE DEF s, Plan
        <5>5. d[Len(r) + 1] = d[Len(r)]
          BY <3>1, <4>2, <5>1, <5>4 DEF QueueSteps
        <5>. QED
          BY <2>2, <2>5, <3>1, <4>2, <5>1, <5>2, <5>3, <5>5
      <4>. QED
        BY <4>1, <4>2
    <3>. QED
      BY <2>4, <2>7, <3>3, <3>4
  <2>. QED
    BY <2>6, <2>7
<1>6. \A i \in 0 .. n : id[i] \in T
  <2>1. id[0] \in T
    BY <1>3, <1>4
  <2>2. \A i \in 1 .. n : id[i - 1] \in T => id[i] \in T
    <3>. HIDE DEF Good
    <3>. QED
      BY <1>3, <1>5
  <2>. HIDE DEF id, T, n
  <2>. QED
    BY <1>3, <2>1, <2>2, FunctionInduction
<1>7. Good(n)
  <2>. HIDE DEF Good
  <2>. QED
    BY <1>3, <1>6
<1>. QED
  BY <1>1, <1>2, <1>7

(* The others add nothing.                                                 *)
LEMMA OneQueue ==
  ASSUME NEW plugin, NEW g \in Tables, NEW qs \in Seq(Seq(Jobs)), NEW p \in 1 .. Len(qs),
         Alone(qs, p),
         NEW waiting, NEW movable, NEW procs, MovableFit(qs, movable, procs), NEW now \in Nat
  PROVE  Reschedule(plugin, g, qs, waiting, movable, procs, now)
           = RescheduleQueue(plugin, Clean(g, waiting), qs[p], movable, procs, now)
<1>0. \A h \in Tables, r \in Seq(Jobs) :
        Nothing(r) => RescheduleQueue(plugin, h, r, movable, procs, now) = h
  BY QueueEmpty
<1>1. PICK f : /\ LevelSteps(f, plugin, Clean(g, waiting), qs, movable, procs, now)
               /\ Reschedule(plugin, g, qs, waiting, movable, procs, now) = f[Len(qs)]
  BY RescheduleSteps
<1>. DEFINE b == Clean(g, waiting)
            n == Len(qs)
            one == RescheduleQueue(plugin, b, qs[p], movable, procs, now)
            Good(i) == f[i] = IF i < n + 1 - p THEN b ELSE one
            id == [i \in 0 .. n |-> i]
            T == {i \in 0 .. n : Good(i)}
<1>2. n \in Nat /\ p \in 1 .. n /\ f[0] = b /\ f \in [0 .. n -> Tables]
  BY <1>1 DEF LevelSteps
<1>. HIDE DEF b
<1>3. Good(0)
  BY <1>2
<1>4. ASSUME NEW i \in 1 .. n, Good(i - 1) PROVE Good(i)
  <2>1. f[i] = RescheduleQueue(plugin, f[i - 1], qs[n + 1 - i], movable, procs, now)
    BY <1>1 DEF LevelSteps
  <2>0. i - 1 \in 0 .. n /\ n + 1 - i \in 1 .. n
    BY <1>2
  <2>2. f[i - 1] \in Tables /\ n + 1 - i \in 1 .. n
    <3>. HIDE DEF n
    <3>. QED
      BY <1>2, <2>0
  <2>. HIDE DEF one
  <2>3. CASE i = n + 1 - p
    <3>1. n + 1 - i = p /\ i - 1 < n + 1 - p /\ ~ (i < n + 1 - p)
      BY <1>2, <2>3
    <3>. QED
      BY <1>4, <2>1, <3>1 DEF one
  <2>4. CASE i # n + 1 - p
    <3>1. n + 1 - i # p /\ (i - 1 < n + 1 - p <=> i < n + 1 - p)
      <4>1. n \in Nat /\ p \in 1 .. n /\ i \in 1 .. n /\ i # n + 1 - p
        BY <1>2, <2>4
      <4>. HIDE DEF n
      <4>. QED
        BY <4>1
    <3>. DEFINE s == n + 1 - i
                r == qs[s]
    <3>2. s \in 1 .. Len(qs) /\ s # p
      BY <2>2, <3>1
    <3>. HIDE DEF s
    <3>3. r \in Seq(Jobs) /\ Nothing(r)
      <4>1. r \in Seq(Jobs)
        BY <3>2, ElementOfSeq
      <4>2. r = <<>>
        BY <3>2 DEF Alone
      <4>. QED
        BY <4>1, <4>2 DEF Nothing
    <3>4. f[i] = RescheduleQueue(plugin, f[i - 1], r, movable, procs, now)
      BY <2>1 DEF s
    <3>. HIDE DEF r
    <3>5. f[i] = f[i - 1]
      <4>. DEFINE e == f[i - 1]
      <4>1. e \in Tables
        BY <2>2
      <4>. HIDE DEF e
      <4>2. RescheduleQueue(plugin, e, r, movable, procs, now) = e
        BY <1>0, <3>3, <4>1
      <4>. QED
        BY <3>4, <4>2 DEF e
    <3>. HIDE DEF n
    <3>. QED
      BY <1>4, <3>1, <3>5
  <2>. QED
    BY <2>3, <2>4
<1>5. \A i \in 0 .. n : id[i] \in T
  <2>1. id[0] \in T
    BY <1>2, <1>3
  <2>2. \A i \in 1 .. n : id[i - 1] \in T => id[i] \in T
    <3>. HIDE DEF Good
    <3>. QED
      BY <1>2, <1>4
  <2>. HIDE DEF id, T, n
  <2>. QED
    BY <1>2, <2>1, <2>2, FunctionInduction
<1>6. Good(n)
  <2>. HIDE DEF Good
  <2>. QED
    BY <1>2, <1>5
<1>7. ~ (n < n + 1 - p)
  BY <1>2
<1>. QED
  BY <1>1, <1>6, <1>7 DEF b

(* The table without the job that is done and without those that wait: the *)
(* nodes are through with it no later than with what did not wait.         *)
LEMMA CleanCovers ==
  ASSUME NEW g \in Tables, AllOrdered(g), NEW W \in SUBSET Jobs, NEW j, NEW now \in Nat
  PROVE  LET b == Clean(DeleteDone(g, j), W)
         IN  /\ b \in Tables /\ AllOrdered(b) /\ b.wall = g.wall
             /\ \A x \in W : Absent(b, x)
             /\ Covers(g, b, Jobs \ W, now)
<1>. DEFINE d == DeleteDone(g, j)
            b == Clean(d, W)
            A == Jobs \ W
<1>1. /\ d \in Tables /\ AllOrdered(d) /\ d.wall = g.wall /\ d.start = g.start
      /\ d.chart = [n \in Nodes |-> IF g.chart[n] # <<>> /\ g.chart[n][1] = j
                                      THEN Tail(g.chart[n]) ELSE g.chart[n]]
  <2>1. d \in Tables /\ AllOrdered(d) /\ d.wall = g.wall
    BY DeleteDoneTyped, DeleteDoneOrdered, DeleteDoneSlots
  <2>. QED
    BY <2>1 DEF DeleteDone, Tables
<1>2. ASSUME NEW n \in Nodes, NEW x \in Planned(d, n) PROVE x \in Planned(g, n)
  <2>. DEFINE q == g.chart[n]
  <2>1. q \in Seq(Jobs) /\ d.chart[n] = IF q # <<>> /\ q[1] = j THEN Tail(q) ELSE q
    BY <1>1 DEF Tables
  <2>2. \E i \in DOMAIN d.chart[n] : d.chart[n][i] = x
    BY DEF Planned
  <2>. HIDE DEF q, d
  <2>3. \E i \in DOMAIN q : q[i] = x
    <3>1. CASE q # <<>> /\ q[1] = j
      <4>1. PICK i \in DOMAIN Tail(q) : Tail(q)[i] = x
        BY <2>1, <2>2, <3>1
      <4>2. Tail(q)[i] = q[i + 1] /\ i + 1 \in DOMAIN q
        BY <2>1, <3>1
      <4>. QED
        BY <4>1, <4>2
    <3>. QED
      BY <2>1, <2>2, <3>1
  <2>. QED
    BY <2>3 DEF Planned, q
<1>. HIDE DEF d
<1>3. /\ b \in Tables /\ AllOrdered(b) /\ b.wall = g.wall /\ b.start = g.start
      /\ \A x \in W : Absent(b, x)
      /\ \A x \in Jobs : x \notin W => Slot(b, x) = Slot(d, x)
  <2>1. b.start = d.start
    BY DEF Clean
  <2>. QED
    BY <1>1, <2>1, CleanTyped, CleanOrdered, CleanSlots
<1>. HIDE DEF b
<1>4. ASSUME NEW n \in Nodes, NEW x \in Planned(b, n)
      PROVE  x \in A /\ x \in Planned(g, n) /\ End(b, x) = End(g, x)
  <2>1. x \in Jobs
    BY <1>3, PlannedJobs
  <2>2. x \notin W
    BY <1>3, PlannedNotIn DEF Absent
  <2>3. On(b, x) = On(d, x)
    BY <1>3, <2>1, <2>2 DEF Slot
  <2>4. x \in Planned(d, n)
    BY <2>3 DEF On
  <2>. QED
    BY <1>2, <1>3, <2>1, <2>2, <2>4 DEF End
<1>5. ASSUME NEW t \in Nat, now =< t
      PROVE  Cardinality(Cleared(g, A, t)) =< Cardinality(FreeBy(b, t, now))
  <2>1. ASSUME NEW n \in Cleared(g, A, t) PROVE n \in FreeBy(b, t, now)
    <3>1. n \in Nodes /\ Clears(g, n, A, t)
      BY DEF Cleared
    <3>2. Clears(b, n, A, t)
      BY <1>4, <3>1 DEF Clears
    <3>3. Ordered(b, b.chart[n]) /\ Planned(b, n) \subseteq A
      BY <1>3, <1>4, <3>1 DEF AllOrdered
    <3>4. LastSlot(b, n, now) =< t
      BY <1>3, <1>5, <3>1, <3>2, <3>3, ReadyClears
    <3>. QED
      BY <3>1, <3>4 DEF FreeBy
  <2>2. FreeBy(b, t, now) \in SUBSET Nodes
    BY DEF FreeBy
  <2>. QED
    BY <2>1, <2>2, NodesFinite, FS_Subset
<1>6. Covers(g, b, A, now)
  BY <1>5 DEF Covers
<1>. QED
  BY <1>3, <1>6 DEF b, d

(* A node is ready no later in h than in g.                                *)
NoWorse(g, h, now) ==
  \A n \in Nodes : \E m \in Nodes : LastSlot(h, m, now) =< LastSlot(g, n, now)

(* A table that covers what another has leaves no node busy for longer.    *)
LEMMA CoversNoWorse ==
  ASSUME NEW g \in Tables, AllOrdered(g), NEW h \in Tables, NEW now \in Nat,
         Covers(g, h, Jobs, now)
  PROVE  NoWorse(g, h, now)
<1>1. SUFFICES ASSUME NEW n \in Nodes
               PROVE  \E m \in Nodes : LastSlot(h, m, now) =< LastSlot(g, n, now)
  BY DEF NoWorse
<1>. DEFINE t == LastSlot(g, n, now)
            S == Cleared(g, Jobs, t)
<1>2. t \in Nat /\ now =< t
  BY LastSlotType
<1>3. Clears(g, n, Jobs, t)
  <2>1. Planned(g, n) \subseteq Jobs /\ Ordered(g, g.chart[n])
    BY PlannedJobs DEF AllOrdered
  <2>. QED
    BY <1>2, <2>1, ReadyClears
<1>. HIDE DEF t
<1>4. S # {} /\ S \in SUBSET Nodes
  BY <1>3 DEF Cleared
<1>5. IsFiniteSet(S)
  BY <1>4, NodesFinite, FS_Subset
<1>6. Cardinality(S) \in Nat /\ Cardinality(S) # 0
  BY <1>4, <1>5, FS_CardinalityType, FS_EmptySet
<1>7. Cardinality(S) =< Cardinality(FreeBy(h, t, now))
  BY <1>2 DEF Covers
<1>8. FreeBy(h, t, now) # {}
  BY <1>6, <1>7, FS_EmptySet
<1>. QED
  BY <1>8 DEF FreeBy, t

(* Before any job is there.                                                *)
LEMMA TurnsEmpty ==
  ASSUME NEW g, \A n \in Nodes : g.chart[n] = <<>>, NEW qs, Len(qs) \in Nat \ {0},
         \A p \in 1 .. Len(qs) : qs[p] = <<>>, NEW W, NEW procs, NEW now
  PROVE  InTurns(g, qs, W, procs, now)
<1>1. 1 \in 1 .. Len(qs) /\ qs[1] = <<>>
  OBVIOUS
<1>2. Len(qs[1]) = 0
  BY <1>1
<1>3. \A n \in Nodes : Planned(g, n) = {}
  BY DEF Planned
<1>4. Turn(g, qs[1], Len(qs[1]), W, procs, now)
  BY <1>2, <1>3 DEF Turn
<1>. QED
  BY <1>1, <1>4 DEF InTurns

(* All queues but p are empty: the turns are those of p.                   *)
LEMMA TurnsOf ==
  ASSUME NEW g, NEW qs \in Seq(Seq(Jobs)), NEW W, NEW procs, NEW now,
         InTurns(g, qs, W, procs, now),
         NEW p \in 1 .. Len(qs), \A r \in 1 .. Len(qs) : r # p => qs[r] = <<>>
  PROVE  Turn(g, qs[p], Len(qs[p]), W, procs, now)
<1>1. PICK r \in 1 .. Len(qs) : /\ \A s \in 1 .. Len(qs) : s # r => qs[s] = <<>>
                                /\ Turn(g, qs[r], Len(qs[r]), W, procs, now)
  BY DEF InTurns
<1>2. CASE r = p
  BY <1>1, <1>2
<1>3. CASE r # p
  <2>1. qs[r] = <<>> /\ qs[p] = <<>>
    BY <1>1, <1>3
  <2>. QED
    BY <1>1, <2>1
<1>. QED
  BY <1>2, <1>3

(* Turn looks at the first jobs of the queue only.                         *)
LEMMA TurnSame ==
  ASSUME NEW g, NEW q, NEW r, NEW m \in Nat, \A i \in 1 .. m : r[i] = q[i],
         NEW W, NEW procs, NEW now, Turn(g, q, m, W, procs, now)
  PROVE  Turn(g, r, m, W, procs, now)
<1>1. \A i \in 1 .. m : Ahead(r, i, W) = Ahead(q, i, W)
  <2>1. ASSUME NEW i \in 1 .. m PROVE \A k \in 1 .. i - 1 : r[k] = q[k]
    OBVIOUS
  <2>. QED
    BY <2>1 DEF Ahead
<1>2. ASSUME NEW i \in 1 .. m, r[i] \in W
      PROVE  AfterOf(g, r[i], Ahead(r, i, W), procs[r[i]], now)
  BY <1>1, <1>2 DEF Turn
<1>3. \A n \in Nodes : \A x \in Planned(g, n) \cap W : \E k \in 1 .. m : r[k] = x
  BY DEF Turn
<1>. QED
  BY <1>2, <1>3 DEF Turn

(* schedule_task: the new job comes last in the queue.                     *)
LEMMA TurnsTask ==
  ASSUME NEW g \in Tables, AllOrdered(g), NEW qs \in Seq(Seq(Jobs)), NEW W \in SUBSET Jobs,
         NEW procs, NEW now \in Nat, InTurns(g, qs, W, procs, now),
         NEW p \in 1 .. Len(qs), \A r \in 1 .. Len(qs) : r # p => qs[r] = <<>>,
         NEW x \in W, procs[x] \in 1 .. NbNodes, Absent(g, x), NotIn(qs[p], x),
         NEW ks, Len(ks) = Len(qs), ks[p] = Append(qs[p], x),
         \A r \in 1 .. Len(qs) : r # p => ks[r] = qs[r]
  PROVE  InTurns(Accept(g, x, FcfsBid(g, procs[x], now)), ks, W, procs, now)
<1>. DEFINE q == qs[p]
            m == Len(q)
            r == Append(q, x)
            h == Accept(g, x, FcfsBid(g, procs[x], now))
<1>1. q \in Seq(Jobs) /\ Turn(g, q, m, W, procs, now)
  <2>1. Turn(g, qs[p], Len(qs[p]), W, procs, now)
    BY TurnsOf
  <2>. QED
    BY <2>1
<1>. HIDE DEF q
<1>2. /\ m \in Nat /\ Len(r) = m + 1 /\ r[m + 1] = x
      /\ \A i \in 1 .. m : r[i] = q[i]
  BY <1>1
<1>3. \A k \in 1 .. m : r[k] # r[m + 1]
  BY <1>2 DEF NotIn, q
<1>. HIDE DEF r, m
<1>4. Turn(g, r, m, W, procs, now)
  BY <1>1, <1>2, TurnSame
<1>5. Turn(Accept(g, r[m + 1], FcfsBid(g, procs[r[m + 1]], now)), r, m + 1, W, procs, now)
  BY <1>2, <1>3, <1>4, TurnNext
<1>6. Turn(h, r, m + 1, W, procs, now)
  BY <1>2, <1>5
<1>. HIDE DEF h
<1>. QED
  BY <1>2, <1>6 DEF InTurns, q, r, h

(***************************************************************************)
(* The next of them starts: it takes its nodes from none of the others.  A *)
(* job of length zero may be passed by one that starts at the same date.   *)
(***************************************************************************)
LEMMA TurnsStart ==
  ASSUME NEW g \in Tables, NEW qs \in Seq(Seq(Jobs)), NEW W \in SUBSET Jobs,
         NEW procs, NEW now \in Nat, InTurns(g, qs, W, procs, now),
         \A y \in Jobs : g.wall[y] > 0,
         NEW x \in W, g.start[x] = now, ~ Absent(g, x)
  PROVE  InTurns(g, qs, W \ {x}, procs, now)
<1>1. PICK p \in 1 .. Len(qs) : /\ \A s \in 1 .. Len(qs) : s # p => qs[s] = <<>>
                                /\ Turn(g, qs[p], Len(qs[p]), W, procs, now)
  BY DEF InTurns
<1>. DEFINE q == qs[p]
            n == Len(q)
            V == W \ {x}
<1>2. q \in Seq(Jobs)
  OBVIOUS
<1>. HIDE DEF q
<1>3. n \in Nat /\ Turn(g, q, n, W, procs, now)
  BY <1>1, <1>2 DEF q
<1>. HIDE DEF n
<1>4. PICK k \in 1 .. n : q[k] = x
  <2>1. PICK m \in Nodes : x \in Planned(g, m)
    BY PlannedNotIn DEF Absent
  <2>. QED
    BY <1>3, <2>1 DEF Turn
<1>5. AfterOf(g, x, Ahead(q, k, W), procs[x], now)
  BY <1>3, <1>4 DEF Turn
<1>6. ASSUME NEW i \in 1 .. n, q[i] \in V
      PROVE  AfterOf(g, q[i], Ahead(q, i, V), procs[q[i]], now)
  <2>. DEFINE y == q[i]
              A == Ahead(q, i, W)
              B == Ahead(q, i, V)
  <2>1. y \in W /\ y # x /\ y \in Jobs /\ i # k
    BY <1>4, <1>6
  <2>2. AfterOf(g, y, A, procs[y], now)
    BY <1>3, <2>1 DEF Turn
  <2>3. B = A \cup {x}
    BY DEF Ahead
  <2>4. ASSUME NEW m \in On(g, y) PROVE Clears(g, m, B, g.start[y])
    <3>1. Clears(g, m, A, g.start[y])
      BY <2>2 DEF AfterOf
    <3>2. CASE k < i
      <4>1. x \in A
        BY <1>3, <1>4, <3>2 DEF Ahead
      <4>. QED
        BY <2>3, <3>1, <4>1 DEF Clears
    <3>3. CASE k > i
      <4>1. y \in Ahead(q, k, W)
        <5>1. i \in 1 .. k - 1
          BY <1>3, <1>4, <3>3
        <5>. QED
          BY <5>1 DEF Ahead
      <4>2. now =< g.start[y] /\ g.start[y] \in Nat /\ g.wall[y] \in Nat /\ g.wall[y] > 0
        BY <2>1, <2>2 DEF AfterOf, Tables
      <4>3. ~ (End(g, y) =< now)
        BY <4>2 DEF End
      <4>4. m \in Nodes /\ y \in Planned(g, m)
        BY DEF On
      <4>5. m \notin On(g, x)
        BY <1>5, <4>1, <4>3, <4>4 DEF AfterOf, Clears
      <4>6. x \notin Planned(g, m)
        BY <4>4, <4>5 DEF On
      <4>. QED
        BY <2>3, <3>1, <4>6 DEF Clears
    <3>. QED
      BY <1>3, <2>1, <3>2, <3>3
  <2>5. ASSUME NEW m \in Nodes \ On(g, y), NEW t \in now .. g.start[y] - 1
        PROVE  ~ Clears(g, m, B, t)
    <3>1. ~ Clears(g, m, A, t)
      BY <2>2 DEF AfterOf
    <3>. QED
      BY <2>3, <3>1 DEF Clears
  <2>6. now =< g.start[y] /\ Cardinality(On(g, y)) = procs[y]
    BY <2>2 DEF AfterOf
  <2>. HIDE DEF y, A, B
  <2>7. AfterOf(g, y, B, procs[y], now)
    BY <2>4, <2>5, <2>6 DEF AfterOf
  <2>. QED
    BY <2>7 DEF y, B
<1>7. \A m \in Nodes : \A y \in Planned(g, m) \cap V : \E i \in 1 .. n : q[i] = y
  BY <1>3 DEF Turn
<1>8. Turn(g, q, n, V, procs, now)
  BY <1>6, <1>7 DEF Turn
<1>. QED
  BY <1>1, <1>8 DEF InTurns, q, n

(* Time passes, and none of them should have started.                      *)
LEMMA TurnsTick ==
  ASSUME NEW g \in Tables, NEW qs \in Seq(Seq(Jobs)), NEW W \in SUBSET Jobs,
         NEW procs, NEW now \in Nat, InTurns(g, qs, W, procs, now), MovableFit(qs, W, procs),
         \A x \in W : ~ Absent(g, x) => g.start[x] > now
  PROVE  InTurns(g, qs, W, procs, now + 1)
<1>1. PICK p \in 1 .. Len(qs) : /\ \A s \in 1 .. Len(qs) : s # p => qs[s] = <<>>
                                /\ Turn(g, qs[p], Len(qs[p]), W, procs, now)
  BY DEF InTurns
<1>. DEFINE q == qs[p]
            n == Len(q)
<1>2. q \in Seq(Jobs) /\ \A i \in 1 .. n : q[i] \in W => procs[q[i]] \in 1 .. NbNodes
  BY DEF MovableFit
<1>. HIDE DEF q
<1>3. Turn(g, q, n, W, procs, now)
  BY <1>1 DEF q
<1>4. ASSUME NEW i \in 1 .. n, q[i] \in W
      PROVE  AfterOf(g, q[i], Ahead(q, i, W), procs[q[i]], now + 1)
  <2>. DEFINE x == q[i]
              A == Ahead(q, i, W)
  <2>1. x \in W /\ x \in Jobs /\ procs[x] \in 1 .. NbNodes
    BY <1>2, <1>4
  <2>2. AfterOf(g, x, A, procs[x], now)
    BY <1>3, <2>1 DEF Turn
  <2>. HIDE DEF x, A
  <2>3. On(g, x) # {}
    <3>1. procs[x] # 0
      BY <2>1, NbNodesAssumption
    <3>. QED
      BY <2>2, <3>1, FS_EmptySet DEF AfterOf
  <2>4. ~ Absent(g, x)
    BY <2>3, AbsentOn
  <2>5. g.start[x] \in Nat /\ g.start[x] > now
    BY <2>1, <2>4 DEF Tables
  <2>6. now + 1 =< g.start[x] /\ (now + 1) .. g.start[x] - 1 \subseteq now .. g.start[x] - 1
    BY <2>5
  <2>7. AfterOf(g, x, A, procs[x], now + 1)
    BY <2>2, <2>6 DEF AfterOf
  <2>. QED
    BY <2>7 DEF x, A
<1>5. Turn(g, q, n, W, procs, now + 1)
  BY <1>3, <1>4 DEF Turn
<1>. QED
  BY <1>1, <1>5 DEF InTurns, q, n

(* What is kept of a queue can be planned if the queue can.                *)
LEMMA KeepFits ==
  ASSUME NEW q \in Seq(Jobs), NEW S, NEW W, NEW procs, QueueFits(q, W, procs)
  PROVE  QueueFits(Keep(q, S), W, procs) /\ (q = <<>> => Keep(q, S) = <<>>)
<1>. DEFINE r == Keep(q, S)
<1>1. /\ \A i \in 1 .. Len(q) : q[i] \in W => procs[q[i]] \in 1 .. NbNodes
      /\ \A i, k \in 1 .. Len(q) : q[i] = q[k] => i = k
  BY DEF QueueFits
<1>2. /\ r \in Seq(Jobs)
      /\ \A i \in 1 .. Len(r) : r[i] \in S /\ \E h \in 1 .. Len(q) : r[i] = q[h]
      /\ \A i, k \in 1 .. Len(r) : r[i] = r[k] => i = k
  BY <1>1, KeepDistinct
<1>. HIDE DEF r
<1>3. QueueFits(r, W, procs)
  BY <1>1, <1>2 DEF QueueFits
<1>4. q = <<>> => r = <<>>
  <2>1. SUFFICES ASSUME q = <<>> PROVE r = <<>>
    OBVIOUS
  <2>2. ~ \E i \in 1 .. Len(r) : TRUE
    BY <1>2, <2>1
  <2>. QED
    BY <1>2, <2>2
<1>. QED
  BY <1>3, <1>4 DEF r

(* What is kept of it is planned as the queue would be.                    *)
LEMMA KeptPlan ==
  ASSUME NEW plugin, NEW g \in Tables, NEW q \in Seq(Jobs), NEW W, NEW procs,
         QueueFits(q, W, procs), NEW now \in Nat, NEW S, W \subseteq S
  PROVE  RescheduleQueue(plugin, g, Keep(q, S), W, procs, now)
           = RescheduleQueue(plugin, g, q, W, procs, now)
<1>1. \A i \in 1 .. Len(q) : q[i] \in W => procs[q[i]] \in 1 .. NbNodes
  BY DEF QueueFits
<1>. QED
  BY <1>1, QueueKept

(* What is left of the queues when a job is gone.                          *)
LEMMA KeptQueues ==
  ASSUME NEW qs \in Seq(Seq(Jobs)), Once(qs), NEW j,
         NEW ks \in Seq(Seq(Jobs)), Len(ks) = Len(qs),
         \A p \in 1 .. Len(qs) : ks[p] = Keep(qs[p], Jobs \ {j}),
         NEW W, NEW procs, MovableFit(qs, W, procs)
  PROVE  /\ MovableFit(ks, W, procs)
         /\ \A p \in 1 .. Len(qs) : QueueFits(qs[p], W, procs) /\ QueueFits(ks[p], W, procs)
         /\ \A p \in 1 .. Len(qs) : qs[p] = <<>> => ks[p] = <<>>
<1>1. ASSUME NEW p \in 1 .. Len(qs)
      PROVE  /\ QueueFits(qs[p], W, procs) /\ QueueFits(ks[p], W, procs)
             /\ qs[p] = <<>> => ks[p] = <<>>
  <2>. DEFINE q == qs[p]
              S == Jobs \ {j}
              r == Keep(q, S)
  <2>1. q \in Seq(Jobs) /\ r = ks[p]
    <3>1. qs[p] \in Seq(Jobs)
      BY ElementOfSeq
    <3>. QED
      BY <3>1
  <2>2. /\ \A i \in 1 .. Len(q) : q[i] \in W => procs[q[i]] \in 1 .. NbNodes
        /\ \A i, k \in 1 .. Len(q) : q[i] = q[k] => i = k
    BY DEF MovableFit, Once
  <2>. HIDE DEF q, S
  <2>3. QueueFits(q, W, procs)
    BY <2>2 DEF QueueFits
  <2>4. QueueFits(r, W, procs) /\ (q = <<>> => r = <<>>)
    BY <2>1, <2>3, KeepFits
  <2>. QED
    BY <2>1, <2>3, <2>4 DEF q
<1>2. MovableFit(ks, W, procs)
  BY <1>1 DEF MovableFit, QueueFits
<1>. QED
  BY <1>1, <1>2

(***************************************************************************)
(* A job that does not wait is over: the waiting jobs are planned again in *)
(* turn, and no node is ready later.                                       *)
(***************************************************************************)
LEMMA TurnsEnd ==
  ASSUME NEW g \in Tables, AllOrdered(g), NEW W \in SUBSET Jobs,
         NEW qs \in Seq(Seq(Jobs)), Once(qs), NEW procs, MovableFit(qs, W, procs),
         NEW now \in Nat, InTurns(g, qs, W, procs, now), NEW j \in Jobs \ W,
         NEW ks \in Seq(Seq(Jobs)), Len(ks) = Len(qs),
         \A p \in 1 .. Len(qs) : ks[p] = Keep(qs[p], Jobs \ {j})
  PROVE  LET h == Reschedule("fcfs", DeleteDone(g, j), ks, W, W, procs, now)
         IN  InTurns(h, ks, W, procs, now) /\ NoWorse(g, h, now)
<1>. DEFINE d == DeleteDone(g, j)
            b == Clean(d, W)
            h == Reschedule("fcfs", d, ks, W, W, procs, now)
            S == Jobs \ {j}
<1>1. PICK p \in 1 .. Len(qs) : /\ \A s \in 1 .. Len(qs) : s # p => qs[s] = <<>>
                                /\ Turn(g, qs[p], Len(qs[p]), W, procs, now)
  BY DEF InTurns
<1>. DEFINE q == qs[p]
            r == ks[p]
<1>2. q \in Seq(Jobs) /\ r \in Seq(Jobs) /\ r = Keep(q, S) /\ p \in 1 .. Len(ks)
  <2>1. qs[p] \in Seq(Jobs) /\ p \in 1 .. Len(ks)
    BY ElementOfSeq
  <2>2. ks[p] \in Seq(Jobs)
    BY <2>1, ElementOfSeq
  <2>. QED
    BY <2>1, <2>2
<1>3. /\ MovableFit(ks, W, procs) /\ QueueFits(q, W, procs) /\ QueueFits(r, W, procs)
      /\ \A s \in 1 .. Len(ks) : s # p => ks[s] = <<>>
  BY <1>1, KeptQueues
<1>4. Turn(g, q, Len(q), W, procs, now)
  BY <1>1
<1>5. d \in Tables
  BY DeleteDoneTyped
<1>6. /\ b \in Tables /\ AllOrdered(b) /\ b.wall = g.wall
      /\ \A x \in W : Absent(b, x)
      /\ Covers(g, b, Jobs \ W, now)
  BY CleanCovers
<1>7. h = RescheduleQueue("fcfs", b, r, W, procs, now)
  <2>1. Alone(ks, p)
    BY <1>3 DEF Alone
  <2>. HIDE DEF d
  <2>. QED
    BY <1>2, <1>3, <1>5, <2>1, OneQueue
<1>. HIDE DEF b, d, h, q, r
<1>8. Turn(h, r, Len(r), W, procs, now)
  BY <1>2, <1>3, <1>6, <1>7, QueueTurn
<1>9. \A i \in 1 .. Len(q) : q[i] \in W => procs[q[i]] \in 1 .. NbNodes
  BY <1>3 DEF QueueFits
<1>10. h = RescheduleQueue("fcfs", b, q, W, procs, now)
  <2>1. W \subseteq S
    OBVIOUS
  <2>. HIDE DEF S
  <2>2. RescheduleQueue("fcfs", b, Keep(q, S), W, procs, now)
          = RescheduleQueue("fcfs", b, q, W, procs, now)
    BY <1>2, <1>3, <1>6, <2>1, KeptPlan
  <2>. QED
    BY <1>2, <1>7, <2>2
<1>11. Covers(g, h, Jobs, now)
  BY <1>2, <1>3, <1>4, <1>6, <1>10, QueueCovers
<1>12. h \in Tables
  BY <1>2, <1>6, <1>9, <1>10, RescheduleQueueTyped
<1>13. NoWorse(g, h, now)
  BY <1>11, <1>12, CoversNoWorse
<1>14. InTurns(h, ks, W, procs, now)
  BY <1>2, <1>3, <1>8 DEF InTurns, r
<1>. QED
  BY <1>13, <1>14 DEF h, d

(* A node that is ready in the past is ready now.                          *)
LEMMA LastSlotTick ==
  ASSUME NEW g \in Tables, NEW n \in Nodes, NEW now \in Nat
  PROVE  LastSlot(g, n, now + 1) = LastSlot(g, n, now) \/ LastSlot(g, n, now + 1) = now + 1
<1>. DEFINE q == g.chart[n]
            e == IF q = <<>> THEN 0 ELSE End(g, q[Len(q)])
<1>1. q \in Seq(Jobs)
  BY DEF Tables
<1>2. q # <<>> => q[Len(q)] \in Jobs
  BY <1>1, EmptySeq, ElementOfSeq
<1>3. e \in Nat
  BY <1>2 DEF End, Tables
<1>4. /\ LastSlot(g, n, now) = IF e < now THEN now ELSE e
      /\ LastSlot(g, n, now + 1) = IF e < now + 1 THEN now + 1 ELSE e
  BY DEF LastSlot
<1>. HIDE DEF e
<1>. QED
  BY <1>3, <1>4

-----------------------------------------------------------------------------
(***************************************************************************)
(* What the operations of a cluster do to its table and its queues.        *)
(***************************************************************************)

(* No job is planned or traced at first.                                   *)
LEMMA OrderEmpty ==
  ASSUME NEW g \in Tables, \A n \in Nodes : g.chart[n] = <<>>,
         NEW qs \in Seq(Seq(Jobs)), Len(qs) # 0, \A p \in 1 .. Len(qs) : qs[p] = <<>>,
         NEW W, NEW procs, NEW now
  PROVE  Tidy(g, qs, procs) /\ InTurns(g, qs, W, procs, now)
<1>1. \A p \in 1 .. Len(qs) : Len(qs[p]) = 0
  OBVIOUS
<1>2. AllOrdered(g)
  BY DEF AllOrdered, Ordered
<1>3. Once(qs) /\ MovableFit(qs, Jobs, procs)
  BY <1>1 DEF Once, MovableFit
<1>4. Len(qs) \in Nat \ {0}
  OBVIOUS
<1>5. InTurns(g, qs, W, procs, now)
  BY <1>4, TurnsEmpty
<1>. QED
  BY <1>2, <1>3, <1>5 DEF Tidy

(* A job is traced once when it is added to queues that do not hold it.    *)
LEMMA QueuesGrow ==
  ASSUME NEW qs \in Seq(Seq(Jobs)), Once(qs), NEW procs, MovableFit(qs, Jobs, procs),
         NEW x \in Jobs, Untraced(qs, x), procs[x] \in 1 .. NbNodes, NEW p \in 1 .. Len(qs)
  PROVE  LET ks == Grown(qs, p, x)
         IN  /\ ks \in Seq(Seq(Jobs)) /\ Len(ks) = Len(qs)
             /\ ks[p] = Append(qs[p], x)
             /\ \A r \in 1 .. Len(qs) : r # p => ks[r] = qs[r]
             /\ Once(ks) /\ MovableFit(ks, Jobs, procs)
<1>. DEFINE ks == Grown(qs, p, x)
            q == qs[p]
            n == Len(q)
<1>0. \A a, b \in 1 .. Len(qs) : \A c \in 1 .. Len(qs[a]), d \in 1 .. Len(qs[b]) :
        qs[a][c] = qs[b][d] => a = b /\ c = d
  BY DEF Once
<1>1. q \in Seq(Jobs)
  BY ElementOfSeq
<1>. HIDE DEF q
<1>2. /\ n \in Nat /\ Append(q, x) \in Seq(Jobs) /\ Len(Append(q, x)) = n + 1
      /\ Append(q, x)[n + 1] = x
      /\ \A i \in 1 .. n : Append(q, x)[i] = q[i]
  BY <1>1
<1>3. /\ Len(ks) = Len(qs) /\ ks[p] = Append(q, x)
      /\ \A r \in 1 .. Len(qs) : r # p => ks[r] = qs[r]
  BY DEF q, Grown
<1>4. ks \in Seq(Seq(Jobs))
  BY <1>2 DEF q, Grown
<1>. HIDE DEF ks
<1>5. \A i \in 1 .. Len(ks[p]) : i = n + 1 \/ i \in 1 .. n
  BY <1>2, <1>3
<1>6. \A r \in 1 .. Len(qs) : \A i \in 1 .. Len(qs[r]) : qs[r][i] # x
  BY DEF Untraced, NotIn
<1>7. ASSUME NEW r \in 1 .. Len(ks), NEW i \in 1 .. Len(ks[r])
      PROVE  \/ r = p /\ i = n + 1 /\ ks[r][i] = x
             \/ i \in 1 .. Len(qs[r]) /\ ks[r][i] = qs[r][i]
  <2>1. CASE r # p
    BY <1>3, <2>1
  <2>2. CASE r = p
    BY <1>2, <1>3, <1>5, <2>2 DEF q
  <2>. QED
    BY <2>1, <2>2
<1>8. Once(ks)
  <2>1. SUFFICES ASSUME NEW r \in 1 .. Len(ks), NEW s \in 1 .. Len(ks),
                        NEW i \in 1 .. Len(ks[r]), NEW k \in 1 .. Len(ks[s]), ks[r][i] = ks[s][k]
                 PROVE  r = s /\ i = k
    BY DEF Once
  <2>2. r \in 1 .. Len(qs) /\ s \in 1 .. Len(qs)
    BY <1>3
  <2>3. \/ r = p /\ i = n + 1 /\ ks[r][i] = x
        \/ i \in 1 .. Len(qs[r]) /\ ks[r][i] = qs[r][i] /\ ks[r][i] # x
    BY <1>6, <1>7, <2>2
  <2>4. \/ s = p /\ k = n + 1 /\ ks[s][k] = x
        \/ k \in 1 .. Len(qs[s]) /\ ks[s][k] = qs[s][k] /\ ks[s][k] # x
    BY <1>6, <1>7, <2>2
  <2>5. CASE ks[r][i] = x
    BY <2>1, <2>3, <2>4, <2>5
  <2>6. CASE ks[r][i] # x
    <3>1. /\ i \in 1 .. Len(qs[r]) /\ k \in 1 .. Len(qs[s]) /\ qs[r][i] = qs[s][k]
      BY <2>1, <2>3, <2>4, <2>6
    <3>2. \A a \in 1 .. Len(qs[r]), b \in 1 .. Len(qs[s]) :
            qs[r][a] = qs[s][b] => r = s /\ a = b
      BY <1>0, <2>2, Zenon
    <3>. QED
      BY <3>1, <3>2, Zenon
  <2>. QED
    BY <2>5, <2>6
<1>9. MovableFit(ks, Jobs, procs)
  BY <1>3, <1>7 DEF MovableFit
<1>. QED
  BY <1>3, <1>4, <1>8, <1>9 DEF ks, q

(* schedule_task.                                                          *)
LEMMA OrderTask ==
  ASSUME NEW g, NEW qs, NEW procs, Tidy(g, qs, procs), NEW plugin,
         NEW x \in Jobs, Absent(g, x), Untraced(qs, x), procs[x] \in 1 .. NbNodes,
         NEW p \in 1 .. Len(qs), NEW now \in Nat
  PROVE  LET h == Accept(g, x, Schedule(plugin, g, x, procs[x], now))
             ks == Grown(qs, p, x)
         IN  /\ Tidy(h, ks, procs) /\ h.wall = g.wall
             /\ \A W \in SUBSET Jobs :
                  /\ plugin = "fcfs" /\ x \in W /\ InTurns(g, qs, W, procs, now)
                  /\ \A r \in 1 .. Len(qs) : r # p => qs[r] = <<>>
                  => InTurns(h, ks, W, procs, now)
<1>. DEFINE nb == procs[x]
            h == Accept(g, x, Schedule(plugin, g, x, nb, now))
            ks == Grown(qs, p, x)
<1>1. /\ g \in Tables /\ AllOrdered(g) /\ qs \in Seq(Seq(Jobs)) /\ Once(qs)
      /\ MovableFit(qs, Jobs, procs)
  BY DEF Tidy
<1>2. h \in Tables /\ AllOrdered(h) /\ h.wall = g.wall
  <2>. HIDE DEF nb
  <2>1. nb \in 1 .. NbNodes
    BY DEF nb
  <2>. QED
    <3>1. h \in Tables
      BY <1>1, <2>1, ScheduleTyped
    <3>2. AllOrdered(h)
      BY <1>1, <2>1, ScheduleOrdered
    <3>3. h.wall = g.wall
      BY <1>1, <2>1, ScheduleSlots
    <3>. QED
      BY <3>1, <3>2, <3>3
<1>3. /\ ks \in Seq(Seq(Jobs)) /\ Len(ks) = Len(qs) /\ ks[p] = Append(qs[p], x)
      /\ \A r \in 1 .. Len(qs) : r # p => ks[r] = qs[r]
      /\ Once(ks) /\ MovableFit(ks, Jobs, procs)
  BY <1>1, QueuesGrow
<1>4. ASSUME NEW W \in SUBSET Jobs, plugin = "fcfs", x \in W, InTurns(g, qs, W, procs, now),
             \A r \in 1 .. Len(qs) : r # p => qs[r] = <<>>
      PROVE  InTurns(h, ks, W, procs, now)
  <2>1. NotIn(qs[p], x)
    BY DEF Untraced
  <2>2. h = Accept(g, x, FcfsBid(g, procs[x], now))
    BY <1>4 DEF Schedule
  <2>. HIDE DEF h, ks
  <2>. QED
    BY <1>1, <1>3, <1>4, <2>1, <2>2, TurnsTask
<1>. HIDE DEF h, ks
<1>5. Tidy(h, ks, procs)
  BY <1>2, <1>3 DEF Tidy
<1>. QED
  BY <1>2, <1>4, <1>5 DEF h, ks

(* A queue holds each job once; all jobs of r come from q.                 *)
Distinct(q) == \A i, k \in 1 .. Len(q) : q[i] = q[k] => i = k
AllFrom(r, q) == \A i \in 1 .. Len(r) : \E k \in 1 .. Len(q) : r[i] = q[k]

(* So it is for what is kept of a queue.                                   *)
LEMMA KeepEach ==
  ASSUME NEW q \in Seq(Jobs), Distinct(q), NEW S
  PROVE  Distinct(Keep(q, S)) /\ AllFrom(Keep(q, S), q)
<1>1. \A i, k \in 1 .. Len(q) : q[i] = q[k] => i = k
  BY DEF Distinct
<1>2. /\ \A i \in 1 .. Len(Keep(q, S)) :
           Keep(q, S)[i] \in S /\ \E k \in 1 .. Len(q) : Keep(q, S)[i] = q[k]
      /\ \A i, k \in 1 .. Len(Keep(q, S)) : Keep(q, S)[i] = Keep(q, S)[k] => i = k
  BY <1>1, KeepDistinct
<1>. QED
  BY <1>2 DEF Distinct, AllFrom

(* Once is about jobs: what is kept of each queue is there once.           *)
LEMMA OnceKept ==
  ASSUME NEW qs \in Seq(Seq(Jobs)), Once(qs), NEW S,
         NEW ks \in Seq(Seq(Jobs)), Len(ks) = Len(qs),
         \A p \in 1 .. Len(qs) : ks[p] = Keep(qs[p], S)
  PROVE  Once(ks)
<1>1. ASSUME NEW p \in 1 .. Len(qs)
      PROVE  Distinct(ks[p]) /\ AllFrom(ks[p], qs[p])
  <2>1. qs[p] \in Seq(Jobs)
    BY ElementOfSeq
  <2>2. Distinct(qs[p])
    BY DEF Once, Distinct
  <2>. QED
    BY <2>1, <2>2, KeepEach
<1>2. SUFFICES ASSUME NEW p \in 1 .. Len(ks), NEW r \in 1 .. Len(ks),
                      NEW i \in 1 .. Len(ks[p]), NEW k \in 1 .. Len(ks[r]), ks[p][i] = ks[r][k]
               PROVE  p = r /\ i = k
  BY DEF Once
<1>3. p \in 1 .. Len(qs) /\ r \in 1 .. Len(qs)
  OBVIOUS
<1>4. /\ \E a \in 1 .. Len(qs[p]) : ks[p][i] = qs[p][a]
      /\ \E b \in 1 .. Len(qs[r]) : ks[r][k] = qs[r][b]
  BY <1>1, <1>3 DEF AllFrom
<1>5. p = r
  BY <1>2, <1>3, <1>4 DEF Once
<1>. QED
  BY <1>1, <1>2, <1>3, <1>5 DEF Distinct

(* check_ACK, and the end of a job: the others are planned again.          *)
LEMMA OrderEnd ==
  ASSUME NEW g, NEW qs, NEW procs, Tidy(g, qs, procs), NEW plugin, NEW j \in Jobs,
         NEW W \in SUBSET Jobs, NEW now \in Nat,
         NEW ks \in Seq(Seq(Jobs)), Len(ks) = Len(qs),
         \A p \in 1 .. Len(qs) : ks[p] = Keep(qs[p], Jobs \ {j})
  PROVE  LET h == Reschedule(plugin, DeleteDone(g, j), ks, W, W, procs, now)
         IN  /\ Tidy(h, ks, procs) /\ h.wall = g.wall
             /\ plugin = "fcfs" /\ j \notin W /\ InTurns(g, qs, W, procs, now)
                => InTurns(h, ks, W, procs, now) /\ NoWorse(g, h, now)
<1>. DEFINE d == DeleteDone(g, j)
            h == Reschedule(plugin, d, ks, W, W, procs, now)
<1>1. /\ g \in Tables /\ AllOrdered(g) /\ qs \in Seq(Seq(Jobs)) /\ Once(qs)
      /\ MovableFit(qs, Jobs, procs)
  BY DEF Tidy
<1>2. MovableFit(qs, W, procs)
  BY <1>1 DEF MovableFit
<1>3. d \in Tables /\ AllOrdered(d) /\ d.wall = g.wall
  BY <1>1, DeleteDoneTyped, DeleteDoneOrdered, DeleteDoneSlots
<1>4. Once(ks)
  <2>. DEFINE S == Jobs \ {j}
  <2>. HIDE DEF S
  <2>1. \A p \in 1 .. Len(qs) : ks[p] = Keep(qs[p], S)
    BY DEF S
  <2>. QED
    BY <1>1, <2>1, OnceKept
<1>5. MovableFit(ks, Jobs, procs) /\ MovableFit(ks, W, procs)
  BY <1>1, <1>2, KeptQueues
<1>6. plugin = "fcfs" /\ j \notin W /\ InTurns(g, qs, W, procs, now)
        => InTurns(h, ks, W, procs, now) /\ NoWorse(g, h, now)
  BY <1>1, <1>2, TurnsEnd
<1>. HIDE DEF d
<1>7. h \in Tables
  BY <1>3, <1>5, RescheduleTyped
<1>8. AllOrdered(h)
  BY <1>3, <1>4, <1>5, RescheduleOrdered
<1>9. h.wall = g.wall
  <2>1. Replanned(h, d, W, {x \in W : ~ Untraced(ks, x)}, procs, now)
    BY <1>3, <1>4, <1>5, RescheduleSlots
  <2>. QED
    BY <1>3, <2>1 DEF Replanned
<1>. HIDE DEF h
<1>10. Tidy(h, ks, procs)
  BY <1>4, <1>5, <1>7, <1>8 DEF Tidy
<1>. QED
  BY <1>6, <1>9, <1>10 DEF h, d
=============================================================================
