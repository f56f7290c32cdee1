------------------------------ MODULE MCBatch ------------------------------
(***************************************************************************)
(* Instances of BatchSystem for TLC.  A run leaves the workload open: the  *)
(* initial states are all the workloads built from a few job shapes, so    *)
(* that slots left early, exceeded or exactly filled, jobs on one or on all*)
(* nodes and both priorities meet in every combination.                    *)
(***************************************************************************)
EXTENDS Refinement

CONSTANTS J1, J2, J3, J4

Job(submit, run, wall, procs) ==
  [submit |-> submit, run |-> run, wall |-> wall, procs |-> procs, priority |-> 0,
   deadline |-> NoDeadline, input |-> 0, output |-> 0, start |-> 0, state |-> "WAITING"]

(* Executions that end before, at and after the wall time.                 *)
Early == <<1, 2>>
Exact == <<2, 2>>
Over2 == <<3, 2>>

Shapes(submits, sizes, procs) ==
  {Job(t, z[1], z[2], p) : t \in submits, z \in sizes, p \in procs}

Prioritised(S) == {[d EXCEPT !.priority = p] : d \in S, p \in {0, 2}}

(* 1 in and 1 out beside a run of 1, in a slot of 2: with one it fits.     *)
Transferring(S, sizes) ==
  {[d EXCEPT !.input = z[1], !.output = z[2]] : d \in S, z \in sizes}

Deadlined(S, dates) == {[d EXCEPT !.deadline = t] : d \in S, t \in dates}

Reservations(S, dates, st) ==
  {[d EXCEPT !.start = t, !.state = st] : d \in S, t \in dates}

Three(A, B, C) ==
  {[j \in {J1, J2, J3} |-> CASE j = J1 -> a [] j = J2 -> b [] j = J3 -> c] :
     a \in A, b \in B, c \in C}

Four(A, B, C, D) ==
  {[j \in {J1, J2, J3, J4} |-> CASE j = J1 -> a [] j = J2 -> b [] j = J3 -> c [] j = J4 -> d] :
     a \in A, b \in B, c \in C, d \in D}

Load3 == <<J1, J2, J3>>
Load4 == <<J1, J2, J3, J4>>

Cancel(j) == [name |-> "SB_CANCEL", job |-> j]
Reserve(j) == [name |-> "SB_RES", job |-> j]

-----------------------------------------------------------------------------
(* batch_fcfs, batch_wait: three jobs, two priority levels (priority 2 is  *)
(* clamped).                                                               *)
FcfsWorkloads ==
  Three(Shapes({0}, {Early, Over2}, {1, 2}),
        Prioritised(Shapes({0, 1}, {Early, Exact}, {1, 2})),
        Prioritised(Shapes({1}, {Early, Exact}, {1, 2, 3})))

(* batch_cbf: a reservation among three jobs, one of which transfers data. *)
CbfWorkloads ==
  Four(Transferring(Shapes({0}, {Early}, {1}), {<<1, 0>>, <<0, 1>>})
         \cup Shapes({0}, {Early}, {1, 2}),
       Shapes({0}, {Early, Over2}, {1, 2}),
       Shapes({1}, {Exact}, {1}),
       Reservations(Shapes({0}, {Early, Exact}, {1, 2}), {1, 3}, "RESERVED"))
CbfRequests == {Reserve(J4)}

(* batch_faults: cancellation, deadlines, transfers that exceed the slot,  *)
(* J4 being too large to run; and three jobs of one node beside a long one,*)
(* whose end moves the clock past all of them.                             *)
FaultWorkloads ==
  Four(Transferring(Shapes({0}, {Early}, {1, 2}), {<<0, 0>>, <<1, 1>>}),
       Deadlined(Shapes({0}, {Exact}, {1, 2}), {NoDeadline, 2, 3}),
       Shapes({0, 1}, {Exact}, {1, 2}), Shapes({1}, {Exact}, {3}))
  \cup Four(Shapes({0}, {Exact}, {1}), Shapes({0}, {Exact}, {1}),
            Shapes({0}, {Exact}, {1}), Shapes({0}, {<<6, 6>>}, {1}))
FaultRequests == {Cancel(J2)}

-----------------------------------------------------------------------------
(* The other runs that show a disagreement, each with the one ingredient it*)
(* needs.                                                                  *)

(* batch_cancel_timer: a cancellation of J3.                               *)
CancelWorkloads ==
  Three(Shapes({0}, {Early, Exact}, {1}), Shapes({0}, {Early, Exact}, {1, 2}),
        Shapes({0, 1}, {Exact}, {1, 2}))
CancelRequests == {Cancel(J3)}

(* batch_transfers: input and output beside the run exceed the slot.       *)
TransferWorkloads ==
  Three(Transferring(Shapes({0}, {Early}, {1, 2}), {<<1, 1>>}),
        Shapes({0}, {Early}, {1, 2}), Shapes({1}, {Exact}, {1, 2}))

(* batch_deadlines.                                                        *)
DeadlineWorkloads ==
  Three(Shapes({0}, {Early}, {1, 2}), Deadlined(Shapes({0}, {Exact}, {2}), {1, 2}),
        Shapes({0}, {Exact}, {1}))

(* batch_reservation: a reservation sent in the state the parsers and      *)
(* reserve_slot leave it in.                                               *)
ReservationWorkloads ==
  Four(Shapes({0}, {Early}, {1}), Shapes({0}, {Early, Exact}, {1}),
       Shapes({1}, {Exact}, {1, 2}),
       Reservations(Shapes({0}, {Exact}, {1, 2}), {2, 3}, "WAITING"))

-----------------------------------------------------------------------------
(* batch_fcfs, batch_wait and batch_cbf are of an orderly cluster; each of *)
(* the other runs lacks one of the conditions.                             *)
ASSUME OrderlyRuns == Orderly <=> Workloads \in {FcfsWorkloads, CbfWorkloads}
=============================================================================
