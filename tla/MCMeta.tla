------------------------------- MODULE MCMeta -------------------------------
(***************************************************************************)
(* Two clusters of different size, speed, plugin, number of priorities and *)
(* services, and a file of four jobs.                                      *)
(***************************************************************************)
EXTENDS MetaSched

CONSTANTS J1, J2, J3, J4

Job(submit, run, wall, procs, service) ==
  [submit |-> submit, run |-> run, wall |-> wall, procs |-> procs, priority |-> 1,
   deadline |-> -1, service |-> service, start |-> 0, state |-> "WAITING"]

Shapes(submits, sizes, procs, services) ==
  {Job(t, z[1], z[2], p, s) : t \in submits, z \in sizes, p \in procs, s \in services}

Early == <<1, 3>>
Exact == <<2, 2>>

Four(A, B, D, E) ==
  {[j \in {J1, J2, J3, J4} |->
      CASE j = J1 -> a [] j = J2 -> b [] j = J3 -> d [] j = J4 -> e] :
     a \in A, b \in B, d \in D, e \in E}

List4 == <<J1, J2, J3, J4>>

(* The small cluster is the fast one and offers service 0 only.            *)
TwoSizes    == <<1, 2>>
TwoLevels   == <<1, 2>>
TwoPlugins  == <<"cbf", "fcfs">>
TwoSpeeds   == <<2, 1>>
TwoServices == <<{0}, {0, 1}>>

(* Three jobs over both clusters, and one that nobody can run.             *)
Mixed ==
  Four(Shapes({0}, {Early}, {1, 3}, {0}),
       Shapes({1}, {Exact}, {1, 2}, {0, 1, 2}),
       Shapes({1, 2}, {Exact}, {1, 2}, {0, 1}),
       Shapes({2}, {Exact}, {1}, {2}))

(* Four jobs for the cluster that takes its jobs in turn, the last one     *)
(* submitted when some of the others are over and some still wait.         *)
Turn ==
  LET first == Shapes({0}, {Early, Exact}, {1, 2}, {1})
  IN  Four(first, first, Shapes({0}, {Exact}, {1, 2}, {1}), Shapes({1, 2}, {Exact}, {2}, {1}))

MetaWorkloads == Mixed \cup Turn
=============================================================================
