# Simbatch in TLA+

Simbatch simulates batch schedulers on clusters, on top of SimGrid's MSG
processes. This directory holds TLA+ models of the program, the TLC instances
that check them and the theorems TLAPS proves about them. Paths are relative to
the repository (`src/src/cluster/batch.c` is the file of that name in it).

## 1. The system and its components

| Component | Source | State it keeps | Operations | Model |
|---|---|---|---|---|
| Scheduling table | `scheduling.c`, `cluster.c` | `waiting_queue` (one dynar of jobs per node), `queues` (one per priority), `reservations`; `start_time`, `mapping`, `wall_time` of the jobs | `find_a_slot`, `get_last_slot`, `select_n_slots`, `generic_reschedule`, `next_job_to_schedule`, `cluster_clean`, `cluster_delete_done_job`, `cluster_search_job` | `Gantt` |
| Scheduler plugins | `plugins/scheduler/fcfs.c`, `cbf.c` | none | `schedule`, `accept`, `reschedule` | `Gantt` |
| Batch | `batch.c`, `utils.c` | a stack of messages, the table | `SB_TASK`, `SB_RES`, `SB_ACK`, `SB_CANCEL` | `BatchSystem` |
| | | `DIET_MODE`, `DIET_PARAM` | `SED_PRED`, `PF_INIT`; start, `SB_DIET`, end | `MetaSched`; `Startup` |
| Resource manager | `resource_manager.c` | the job its timer is set for, the pool of supervisors | `SB_UPDATE`, `RM_ATTACH`, the timer, `RUN` | `BatchSystem` |
| Supervisors | `resource_manager.c` (`supervise`) | the job | `RUN`, `DATA_IN`, sleep, `DATA_OUT`, `RM_ATTACH`, `SB_ACK` | `BatchSystem` |
| Nodes | `node.c` | none | one transfer at a time | `BatchSystem` |
| External load | `external_load.c` | position in the list of jobs, date | sends `SB_TASK` at the submit times, then `SB_DIET` | `BatchSystem`, `Startup` |
| Clients | none in the repository | what they asked | send `SB_RES`, `SB_CANCEL`, take the answers | `BatchSystem`, external |
| Meta-scheduler | `example/simple_metaSched/` | the list of jobs, the nodes of the clusters, the winner, the date of the last job sent | `PF_INIT`, `MCT_schedule` over the clusters, `SB_TASK` to the winner; each `sed` forwards or refuses | `MetaSched` |
| Configuration and start | `simbatch_config.c`, `sb_config.c`, `plugin.c`, `example/batch/main.c` | the configuration all batches share and its counter, the book of plugins | `simbatch_init`, `SB_batch` up to its loop, `config_close`, `SB_request_plugin`, `simbatch_clean` | `Startup` |
| Command line | `optparse.c`, `parseCmdLine` | none | `controlParams`, `getParam`, `secureStr2ul` | `CommandLine` |
| Parsers | `plugins/input/oar2-xml.c`, `wld.c`, `swf.c` | the globals of the SAX callbacks | make the list of jobs | `OarXml` (not `swf.c`) |
| Tools | `tools/` | the same globals | `oarXml2wld` writes a line per job | `OarXml` (not `wld_creator`, `analyser.py`) |
| Round robin | `rrobin.c` | | deprecated plugin | not modelled |

### How they interact

All processes of a cluster run on the host of its batch and share the
`cluster_t` and the `job_t`s. MSG processes are cooperative, so a race is never
inside a handler: it is between handlers. `MSG_task_send` blocks the sender
until the receiver takes the message.

```
 external load --SB_TASK--> batch --SB_UPDATE--> resource manager
 client  --SB_RES/SB_CANCEL--> batch                  |   ^
                                 ^                   RUN  | RM_ATTACH
                                 |                    v   |
                                 +------SB_ACK----- supervisor <-> nodes
```

```
 metaSched --PF_INIT/SED_PRED/SB_TASK--> sed c --> batch c
     ^                                    | ^         |
     +---- SB_INIT / SB_PRED / KO --------+ +---------+
```

The batch takes every pending message, sorts them by name (`SB_ACK` before
`SB_CANCEL` before `SB_RES` before `SB_TASK`), handles them, and sends
`SB_UPDATE`. The resource manager sleeps until the first planned start, or until
a message makes it compute that date again; when it is time it makes the job
`PROCESSING` and sends `RUN` to a supervisor of its pool, or to a new one. The
supervisor transfers the input, sleeps, transfers the output, tells the manager
that it is available (`RM_ATTACH`) and only then tells the batch (`SB_ACK`).

The meta-scheduler asks the sed of every cluster for its number of nodes. Then, for each
job of its file, it asks each sed in turn for a prediction; a sed that does not offer the
service of the job refuses it, otherwise its batch runs the scheduler without accepting the bid. It
sleeps until the submit time and sends the job to the cluster with the least completion date.

A simulation starts with the command line and `simbatch_init`. Each batch reads the
shared configuration, takes its plugin from the book or loads it, and closes the configuration; the last
one frees it. In DIET mode an external load ends with a question to its batch.

### What is hard, and what must hold

* Blocking sends in a cycle: batch -> manager -> supervisor -> batch. It does close
  (`NoCircularWait` fails); it is the only way to a standstill (`WaitsOnlyInCircle`), and until then
  jobs are executed (`JobsComplete`).
* The manager acts on a job and a date it read some messages ago (`OnTime`,
  `StartsOnPlan`, `TimerHasTask`, `JobHeldOnce`).
* A supervisor is available before its last job is acknowledged
  (`SupervisorIntegrity`, `Lifecycle`).
* `job->state` has three writers (`Lifecycle`).
* The table, the priority queues and the mapping of a job are three copies of
  one fact, updated by different functions (`ChartFollowsTrace`, `EndClean`,
  `AckTraced`, `DoneJobFirst`).
* Executions and slots are different things: an execution can be shorter than
  its slot, longer with transfers, cut at a deadline (`NodeExclusive`).
* Slot search: strict gaps, positions carried from one search to the next, ties
  (`FindASlotMatches`, `FindASlotEarliest`, `SelectNSlotsMatches`,
  `PlannedDisjoint`).
* Accepted reservations against rescheduling (`ReservationHonoured`).
* Submission dates from relative sleeps and blocking sends (`SubmittedOnTime`,
  `LateByTalk` with messages that take time and jobs that are dropped between those that are sent).
* All of these at once: whether the processes of a cluster are together what a reader of the
  scheduler takes them for, a planner without messages (`ImplementsCluster`).
* Answers that say neither what nor whom they answer, over two asynchronous hops, into one mailbox
  (`AnswerMatches`, `SentToAble`).
* A prediction made on the table and the job that are used for real later
  (`OneCluster`), on a state that is old when the job is sent (`PredictionKept`,
  where jobs are taken in turn; `FirstCompleted`).
* What several batches share: the configuration freed by the last to start
  (`ConfigAlive`), plugins loaded once (`PluginShared`), the parameter of DIET that each of
  them clamps (`AnswerFits`), the question that overtakes the jobs of its turn (`AnswerCounts`).
* SAX callbacks that leave globals from one job to the next (`JobsFromDocument`).
* A start with many ways to end early, some of them untested (`ComesToItsEnd`).

`PROJECT.json` lists every hazard at its line, those no property covers too.

## 2. Modules

| Module | What it is |
|---|---|
| `Gantt` | the scheduling table and the pure part of the schedulers, as operators |
| `TableWalk` | a machine that drives a table through all sequences of the calls that write it, and what a slot search promises |
| `MCGantt` | the loops of `scheduling.c` transcribed with recursive operators; checks on the tables of `TableWalk` that `Gantt` says what they do |
| `BatchSystem` | one cluster: batch, resource manager, supervisors, nodes, external load, clients and time |
| `BatchProperties` | what is expected of it, and when all goes as planned (`Orderly`) |
| `MCBatch` | the workloads, loads and requests of the runs; TLC evaluates on each which of them are `Orderly` |
| `Cluster` | the abstract specification: a cluster as an atomic planner, without messages or processes |
| `Refinement` | `BatchSystem` implements `Cluster`: the refinement mapping |
| `MetaSched` | the meta-scheduler, its seds and the prediction handlers of the batches, over one `Cluster` per cluster |
| `MCMeta` | clusters and files of jobs for it |
| `CommandLine` | the options and what makes them acceptable |
| `OarXml` | the SAX callbacks of `oar2-xml.c`, the converter, the parser of its lines, and what an OAR document means |
| `Startup` | a simulation from `main` to `main`: configuration, plugins, loads, DIET; extends `CommandLine` |
| `MCStartup` | command lines, configurations and documents for it; composes `Startup` and `OarXml` |
| `TableOrder` | when a table and its queues are in order and the waiting jobs take their turns: the words of the proofs about tables. No theorem is here, so that `MetaProofs` can take it for any number of nodes |
| `GanttProofs` | what the operators of `Gantt` return, up to a whole rescheduling, and what they do to slots that are in order |
| `WalkProofs` | proof that slots never overlap and that `find_a_slot` is optimal |
| `TableProofs` | proofs of type correctness and, over any behaviour of a cluster, that slots never overlap |
| `ExecutionProofs` | proofs that a job is executed by one supervisor, once; that the servers stand still in the circle only; that until then no start is missed |
| `ClusterProofs` | what holds when all goes as planned: table, traces and executions agree |
| `RefinementProofs` | proof that `BatchSystem` implements `Cluster` |
| `StartupProofs` | proofs that the configuration and the plugins outlive their use, and about the question of DIET |
| `MetaProofs` | proofs about the conversation between the meta-scheduler and the clusters, that a job is on one of them, and that a prediction is still good when the job is sent |

### Correspondence of the state

| Model | Code |
|---|---|
| `gantt.chart[n]` | `cluster->waiting_queue[n - 1]` |
| `gantt.start`, `.wall`, `.nodes`, `.lead` | `start_time`, `wall_time`, `mapping`, `mapping[0]` of the jobs |
| `queues[p + 1]`, `reserved` | `cluster->queues[p]`, `cluster->reservations` |
| `state` | `job->state` |
| `desc` | the fields of a job nobody writes after it was sent |
| `bpc`, `stack` | where `SB_batch` is, its `msg_stack` |
| `asking` | the answer `cancel_task` is blocked on |
| `rpc`, `rmJob`, `rmWake`, `rmSup` | where the resource manager is, `job`, the end of `waiting_time`, the supervisor `RUN` is sent to |
| `pool`, `cpt` | `pool_of_supervisors`, `cpt_supervisors` |
| `spc[s]`, `sjob[s]`, `swake[s]` | where supervisor `s` is, its job, the end of its sleep or transfer |
| `lpc`, `loadPos`, `loadWake` | where the external load is, the rest of its list, the end of its sleep |
| `req` | what the clients have sent and been answered |

An action is the code between two MSG calls. `ReceiveAck`, `ReceiveTask`,
`ReceiveRequest` and `SortStack` are `get_task`; `ScheduleTask`, `ReserveSlot`,
`CheckAck`, `CancelTask` are the handlers, table updates and rescheduling
included; `Reply` ends the blocking answer of `cancel_task`, and `Resume` goes on
with the stack after it or after the process of an asynchronous answer is created;
`ReceiveUpdate` is the end of the batch's send of `SB_UPDATE`. `RmTimeout`, `ReceiveAttach`,
`ReceiveUpdate`, `RmDrained`, `RunTaken` and `RmNext` are the loop of
`SB_resource_manager`; `SupStart`, `NodeReceive`, `InputReceived`, `SupFinish`,
`OutputReturned`, `TellBatch` and the two receives above are `supervise`;
`LoadSend` and `ReceiveTask` are `SB_external_load`.

A rendez-vous ends for the receiver and for the sender, and either may go on first. A
sender that has more to do before its next blocking call is therefore left at a step of its own:
a supervisor whose `RM_ATTACH` is taken is `"told"` until it posts its `SB_ACK` (`TellBatch`), the
load sleeps, if only for no time, until it posts its next job (`LoadSend`), the manager is at
`"next"` after its `RUN` (`RmNext`), the batch at `"resume"` after an answer (`Resume`).

In `Cluster` a record holds `state`, `gantt`, `queues` and `reserved` as above; `todo` and
`booked` are what is still to be submitted and reserved. `Submit` is `schedule_task`, `Book`
`reserve_slot`, `Finish` `check_ACK`, `Start` the assignment of `PROCESSING` by the manager. `stopped` is
the circle in which the servers wait for each other: after it nothing but time passes (`Stand`).

| Model (`MetaSched`) | Code |
|---|---|
| `mpc`, `pos`, `at` | where `metaSched`, `getNbNodesPF` or `MCT_schedule` is, its job, the cluster it asks |
| `best`, `failures` | `winner` with `completionT`, `failure` |
| `last`, `wake` | `time`, the end of `MSG_process_sleep` |
| `late` | nothing: how long `metaSched` has waited for messages, for `LateByTalk` |
| `nodesPF` | `clusterInfo` |
| `batchMail[c]`, `sedMail[c]`, `metaMail` | messages sent by `MSG_task_async_send` and not yet received |
| `clusters[c]` | the record of `Cluster` |

`SedReceive` and `SedRelay` are `sed`; `BatchHandle` is `get_task` with `init_pf`,
`predict_schedule` or `schedule_task`; `Inform` is `getNbNodesPF`; `TakeAnswer`, `Judged` and `Drop`
are `MCT_schedule` and the loop of `metaSched` around it, `WakeUp` the end of its sleep.

| Model (`Startup`) | Code |
|---|---|
| `phase` | before `MSG_main`, in it, after it; `dead` is `exit` or `xbt_die`, `crash` a segmentation fault |
| `config`, `nbBatch` | the pointer `config`, freed by `config_close` when `nbBatch` reaches 0 |
| `book`, `opened` | `book_of_plugin`, the number of calls of `dlopen` per plugin |
| `status[b]`, `load[b]` | where `SB_batch` and `SB_external_load` are |
| `list[b]`, `taken[b]`, `stack[b]` | the jobs to send, those the batch has taken, its `msg_stack` |
| `planned[b]` | how many of them `schedule_task` has planned |
| `mode`, `param`, `answer[b]` | `DIET_MODE`, `DIET_PARAM[1]`, the job the answer is about and, for `AnswerCounts`, how many jobs were planned before it |

The record `p` of `OarXml` is the set of globals of `oar2-xml.c`: `current_elt`, `counter`, `depth`,
the two booleans, `infos[0..3]`, and the list of jobs.

### Abstractions

* **Messages.** A message waiting in a mailbox is a process blocked in a send, so
  there is no mailbox variable. Both servers take everything that is pending
  before they act; the batch sorts by name and the order of `qsort` among equal
  names is left open.
* **Dates** are natural numbers instead of doubles; arithmetic is exact.
* **Inside a cluster messages without data take no time**: the loopback of `example/batch/platform.xml` has no
  latency. Transfers of input and output are durations, one at a time per node (`mapping[0]`, the
  only node the code sends to). Between the meta-scheduler, the seds and the batches time can pass while a
  message is under way, as long as nothing that is due in a cluster is left undone: the links of
  `example/simple_metaSched/platform.xml` have latencies. Its loopbacks have one too; that part of it, the delays
  inside the clusters behind the meta-scheduler, is left out.
* **Interleaving.** SimGrid runs the processes of one date in an order that
  depends on its internals. The model allows every order between MSG calls, with
  one exception taken from the code: from one message of its stack to the next
  the batch makes no MSG call, so nobody else runs, unless it answers a client. Asynchronous answers
  (`SB_OK`, `SB_KO`) are delivered at once to the client, which does nothing with them, but their
  process is created by an MSG call, after which others may run first (`Resume`).
* **An index of -1.** When `cluster_search_job` finds nothing, the code passes -1
  to `xbt_dynar_remove_at`, whose assertion ends the simulation: `Untrace` has no
  step then.
* **Supervisors** are created up to `NbSups`, a bound the instances choose as the
  number of jobs; each of them has one job at a time.
* **Preconditions.** `ReservationAssumption`: `reserve_slot` reads
  `slot[nb_procs - 1]` unchecked. `Descriptions` excludes jobs of no processor,
  on which `find_a_slot` does not end. `LoadOnceAssumption` and `ListOnceAssumption`: a `job_t` is made
  for each line of the workload file (`wld.c:70`), and a reservation is no job of the file.
* **Behind the meta-scheduler** each cluster is a record of `Cluster`, justified by `ImplementsCluster`, with
  servers that go on (`stopped <- FALSE`): what is checked and proved of `MetaSched`, `EveryJobRuns` and
  `PredictionKept` in particular, is about simulations in which no cluster comes to the standstill of `batch_wait`.
  Seds and batches send asynchronously, through a process made for each message: what is under way is a set,
  received in any order, except that a batch sorts what it finds by name. `metaSched`
  sends with a rendez-vous: its message is its `mpc`. The file of jobs is a constant.
* **Speeds** are such that their ratios are natural numbers. The code's dates are doubles.
* **The start of a batch is one step**: `SB_batch` makes no MSG call before its loop except to create
  two processes.
* **Configurations** are records of the fields the XPath requests of the code read; `dlopen`
  finds the members of `Libraries`; `strtoul` is the function `Numbers`.
* **XML** is a sequence of SAX events with each text in one piece (libxml2 splits texts only at the
  ends of its buffers), for documents laid out as `oarstat` lays them out.
* **Time in `Startup`** is left out: a job is sent when it is its turn, at whatever date. But a job comes into
  the turn of the one before it only when no sleep is between the two (`AtOnce`), for a turn takes no
  time. The servers of a batch, and what can stop them, are in `BatchSystem`.
* Files, traces, outputs and memory layout are left out.

## 3. The runs

| Run | Instance | Shows |
|---|---|---|
| `gantt` | 3 nodes, 3 jobs of lengths 1, 2, 3, dates to 3 | on every table reachable by mixing fcfs, cbf and reservations the closed forms are what the loops compute; slots are disjoint; `find_a_slot` is optimal |
| `batch_fcfs` | fcfs, 2 nodes, 3 jobs, 2 priorities, 384 workloads | slots disjoint, table in accordance with the queues, no node shared, submissions on time; the processes implement `Cluster`; until the servers wait in a circle, no start missed and every job that fits executed |
| `batch_cbf` | cbf, 2 nodes, 3 jobs and a reservation, fitting transfers | the same with backfilling; the reservation is kept; the end of a job is found at the head of its queues; no standstill but the circle; all clean at the end; the processes implement `Cluster` |
| `batch_faults` | cbf, 4 jobs, a cancellation at any moment, deadlines, transfers longer than the slot, an execution longer than all others together | what still holds: supervisors, single execution, life cycle of jobs, disjoint slots, no start missed until the servers wait in a circle |
| `batch_wait` | that of `batch_fcfs` | violation: batch, resource manager and supervisor wait in a circle |
| `batch_cancel_timer` | a cancellation | violation: the timer fires for a job that is gone |
| `batch_transfers` | transfers longer than the slot | violation: a finished job is not the first of its queue |
| `batch_deadlines` | a deadline that passes | violation: a job lost from the table and kept in its queue |
| `batch_reservation` | a reservation in the state the code leaves it in | violation: it disappears |
| `meta_sched` | two clusters (1 node, cbf, fast, service 0; 2 nodes, fcfs, slow, services 0 and 1), 4 jobs, messages that take up to 2 dates altogether, fair | answers belong to questions, jobs are sent to a cluster that can run them, late by what the conversations took and no more, and are planned there only; a prediction of the fcfs cluster has not got worse when the job is sent; every job that some cluster can hold runs |
| `meta_prediction` | the same | violation: the winner is not the cluster that would complete the job first |
| `startup` | 3 batches, 9 command lines, all pairs of 12 OAR jobs, 3 loads or none per batch, flawed files, fair | the configuration and the plugins outlive their use; the batch gets the jobs of the document; DIET is answered for a job that fits, on a table with all jobs submitted before the last; without a flaw the simulation comes to its end |

**Bounds.** Two nodes tell jobs on one node, on all nodes and too large for
the cluster apart; three jobs suffice for a job that ends early or late, the next one on its node
and a third one that arrives meanwhile or fills a gap. The shapes (`MCBatch`) are
run times before, at and after the wall time, sizes of one node, two nodes and, for fcfs, three,
both sides of the priority clamp and deadlines on both sides of the start; a run
checks every combination of its shapes. Submissions fall on dates 0 and 1, when
the first slot is open. `NbSups` is the number of jobs, so that it never blocks
a creation. The clock is not bounded: it stops
when no timer is pending. In `batch_faults` a fourth job, in some workloads, runs so long that its end moves
the clock past every other start: a cluster that stands still would miss them, and without its exception
`OnTime` is violated there. `gantt` uses three nodes because `find_a_slot` searches
again only from the second one on, and ties need a third.

`meta_sched` (266477 states) needs two clusters, so that the slower or the larger one can win and either can
be the only one that is able; a third cluster would only repeat the comparison. In one half of its workloads
the first job can be too large for both,
the second can ask for a service nobody offers, so that a job is dropped first, in the middle, or
not at all; run times are before and at the wall time, since ends before the wall time are what
makes predictions old. In the other half four jobs compete for the cluster that takes its jobs in turn, since
an end that lets two waiting jobs be planned again before the fourth is sent needs as many. `MaxLate`, the only
bound on time, is 2: one conversation can be late twice, or two of them once each. `meta_prediction` has 0: its
counterexample needs no delay.

`PredictionKept` is stated for clusters that take their jobs in turn (`InTurn`: fcfs, all jobs in one queue). The promise
is not kept by others: with two priorities, or with cbf, TLC finds on one cluster of two nodes
and four jobs that an end lets the waiting jobs be planned again in another order or in other gaps, after which
the job comes later than it was told. No document of the repository says otherwise. Nor is it kept
with wall times of 0, which the descriptions allow and the workloads here do not have (see `PredictionLasts` in
section 4). The
mutant, an alphabet in which predictions come before the jobs already sent, breaks it.

`startup` (59786 states) has three batches so that two can
share a plugin while a third one does not, and so that the last to start differs from the last element; the
OAR jobs of a pair combine 0, 1 or 3 assigned nodes, 0 or 2 reserved ones and both forms of wall
time, which is every way a job can leave something to the next. Some loads end with jobs of one submit time, one of
them is not sorted.

**Refinement.** `Refinement!Abstract` maps `ERROR` to `PROCESSING`
(a job killed at its deadline has not ended for the batch), the jobs the load still holds and those in an
unhandled `SB_TASK` to `todo`, and unanswered requests to `booked`. The steps that stay
visible are the handlers of the batch that write the table, the assignment of `PROCESSING`
and the clock; the receives, `SB_UPDATE`, `RUN`, `RM_ATTACH`, transfers and sorting stutter.
`Cluster` cannot let time pass while something planned for now is not done (`Settled`), so that the
implementation says that no message delays a start or the new plan after an end. The circle of
`batch_wait` is the one thing that does, for ever, and the planner has it as `stopped`: it may stop only at a
date at which a job starts while another one may end (`MayStop`), and a planner that has stopped does nothing
any more (`Stand`). It
is checked without cancellations and with fitting transfers: with others the
violations above are just what breaks it.

**Deadlock.** `gantt` is a walk that ends at `Horizon`; in `batch_fcfs`, `batch_cbf`, `batch_wait`,
`batch_faults` and `batch_cancel_timer` the system really can stop (the circular wait and, with cancellations,
the index -1 are the findings). That it can stop in no other way is `WaitsOnlyInCircle`, checked in `batch_cbf` and
proved. All other runs check for deadlock: the only legitimate end is `Terminated`.

**Fairness.** `FairSpec` says that the system as a whole keeps moving: SimGrid
runs every process that is ready and advances the clock when none is. It says
nothing of the clients, which need not send anything, and nothing of single processes:
the servers' loops give each of them its turn because a date can be left only
when nobody is ready. `CanStep` states when `System` is enabled, in place of
`ENABLED`, which TLC evaluates far too slowly on these actions. `MetaSched` uses the same
condition, for the same reason, with `Busy \/ Alive` for the states in which `Step` is enabled. In
`Startup` time is left out, so each process gets a weak fairness of its own (`StartBatch(b)`,
`LoadStep(b)`, `HandleStack(b)`, `BatchEnd(b)`): none of them waits for anything but a date or a peer
that loops, and all the actions of a process are one action of the fairness condition.

## 4. What is proved

TLAPS proves, for all values of the constants that satisfy the named assumptions:

The hypotheses, where a theorem has one, are constant: `NoCancel` (no client sends `SB_CANCEL`), `Sorted` (the
file is in the order of the submit times) and `Orderly` (both, no deadlines, every
job stays at least one date and at most its wall time, transfers included, reservations are marked
`RESERVED`). `Orderly` is true exactly of the instances of `batch_fcfs` and `batch_cbf`: TLC evaluates
`MCBatch!OrderlyRuns` in every run of a cluster.

**The table.**

* `TableProofs!TypeCorrect`: `Spec => []TypeOK`, cancellations included. It is more than bookkeeping:
  `Tables` types the planned fields, so every search of every rescheduling must
  succeed. `GanttProofs` proves that it does: the end of the last slot is a date at
  which all nodes are free, so that `EarliestStart` has a value
  (`EarliestStartExists`), a bid names exactly `nb_procs` nodes and positions inside
  their queues (`FcfsBidFits`, `CbfBidFits`), and `Accept` of such a bid is a table
  again. `Reschedule` is a fold over the queues and then over the jobs of a queue;
  `RecursionExists` gives the sequence of the intermediate tables, to which the step is applied
  (`RescheduleTyped`). `TypeOK` is not inductive: `TypeInv` adds that only jobs the cluster
  can hold are traced (`QueuedFit`), that the requests in the stack are the clients',
  whose reservations fit (`StackAsked`), and that whoever is busy has a job (`HoldersKnown`).
* `TableProofs!SlotsDisjoint`: `Spec => []PlannedDisjoint`, with reservations and cancellations. `GanttProofs`
  follows the order of the slots of a node through each operation: the positions of a bid lie
  between slots that end before its start and slots that begin after its end (`FcfsBidClear`,
  `CbfBidClear`), insertion there keeps the order (`AcceptOrdered`), removals take subsequences
  (`CleanOrdered`, `DeleteDoneOrdered`), and so does the fold of a rescheduling
  (`RescheduleOrdered`). `PlannedDisjoint` is not inductive: `accept` writes `start_time`, so a job that still had slots
  elsewhere would move them. `TableInv` adds that a job is traced once in the queues (`Once`), so that
  a rescheduling, which has removed the waiting jobs, plans each once, and that the jobs the
  batch has not handled yet, in the file or in its stack, are neither planned nor traced (`Fresh`). A
  reservation keeps the date it asked for, so it moves nothing.
* `WalkProofs!WalkDisjoint`, `SearchEarliest`: `PlannedDisjoint` and `FindASlotEarliest` on the tables of
  `TableWalk`. That a search is optimal is more than its definition: the code tries only `t` and the
  dates at which a slot ends, whereas `Earliest` speaks of all dates and of the slots' dates alone, without
  positions. `FreeIsIdle` shows on an ordered queue that a position fits exactly when the node is
  idle, `OnePosition` that there is only one, which is why `CHOOSE` says which one the code
  finds; `MovedBack` that an idle date may be moved back to the last end before it: between the two
  no slot ends, so no node that was idle at the later date has anything at the earlier one.

**One cluster, any workload.**

* `ExecutionProofs!Integrity`, `HeldOnce`, `LifecycleHolds`: `SupervisorIntegrity`, `JobHeldOnce`
  and `Lifecycle`, from one invariant, `ExecInv`. It follows a job through the hands it
  passes: the timer (the job is still to be started: the batch never changes the state
  of such a job), the pending `RUN` (just made `PROCESSING`, in nobody's hands), one
  supervisor (`PROCESSING` or `ERROR`), one `SB_ACK` in the stack (still so, in nobody's
  hands), and then `DONE`. The pool holds different supervisors, all idle or sending their
  `SB_ACK`, and the receiver of `RUN` is none of them. These theorems hold with
  cancellations, deadlines and transfers of any length.
* `ExecutionProofs!StandsInCircle`: `Spec => []WaitsOnlyInCircle`, with cancellations, deadlines and transfers of any
  length. When nobody can go on and it is not the end of time, the batch waits for the manager, the manager for a
  supervisor and that one for the batch. It follows from `ExecInv`, which says where the receiver of `RUN` may
  be, and from `EndSame`: the two servers end in one step or not at all. No answer to a client, no transfer
  and no wait for a node can block for ever. That nobody leaves the circle (`CircleStands`) is what
  the theorems on time below need.
* `ExecutionProofs!NoStartMissed`, `StartedOnPlan`, `AcksTraced`: under `NoCancel`, `OnTime`, `StartsOnPlan` and
  `AckTraced`, with deadlines and transfers of any length; `OnTime` is about the time until the servers wait in a
  circle, and so are the parts of the invariant, `PlanInv`, that compare dates with the clock. What has to be
  said is when the timer of the manager may be wrong. `TimerCurrent`: while the batch receives, it is set for the first planned start.
  The batch then writes the table at will, but `TimerAhead`: a
  timer that is over is right all the same, because an end, the only event that can move a job
  earlier or elsewhere, cannot be under way when a timer is over (`AckComing`): the clock leaves a date only
  when nobody can move, so all the ends of a date are planned before the next. `NoneMissed` says that
  everything still to be started is planned now or later, which needs that a reservation is answered before
  its date is over (`BookingsOpen`) and that it cannot be planned yet (`BookingsFree`);
  `EndTogether` that batch and manager stop together, with nothing left. `Tracing` says
  that what is planned or executed is in its queue or among the reservations. `batch_cancel_timer` shows
  what becomes of this with a cancellation.

**One cluster, when all goes as planned.**

* `ClusterProofs!TableFollowsTrace`, `ReservationKept`, `EndsClean`, `DoneFirst`, `NodesExclusive`:
  `Orderly => (Spec => []P)` for `ChartFollowsTrace`, `ReservationHonoured`, `EndClean`,
  `DoneJobFirst` and `NodeExclusive`. They need one another, in one invariant, `OrderInv`: every supervisor is where the
  plan of its job says (`AtPace`: a job that runs has run since its planned start, so its
  sleeps end at dates given by the table), hence leaves before its slot is over, hence after those before
  it in its queues have left, hence it is the first of them when it is acknowledged, hence
  `cluster_delete_done_job` removes it everywhere and table and trace agree again. Every condition is
  needed, and a violation run lacks it: no cancellations (`batch_cancel_timer`), no
  deadlines (`batch_deadlines`), transfers inside the slot (`batch_transfers`), reservations that are
  marked (`batch_reservation`). A job of no duration could leave at the date of the next one's start, before or after it. In the circle time
  passes over a supervisor that has left no later than its plan says (`AtPace`), and nobody starts any more.
* `ClusterProofs!SubmitsOnTime`: `SubmittedOnTime`, under `NoCancel` and `Sorted`. The load sleeps for the
  difference of two submit times, which is no date before now only if the file is sorted, and the batch takes its
  message before the clock moves (`Punctual`).
* `RefinementProofs!Implements`: `Orderly => (Spec => ImplementsCluster)`. `RefInv`, `OrderInv` and `Punctual`, is
  inductive; the initial states map to initial states (`RefInit`), and each step to one of the planner or to a stutter:
  `ScheduleTask` to `Submit` (`TaskSubmits`), `ReserveSlot` to `Book` (`ReserveBooks`),
  `CheckAck` to `Finish` (`AckFinishes`), the manager after its messages or its `RUN` to `Start` (`RmStarts`), `Tick` to
  the passage of time, which `Cluster` forbids while something is due (`TickPasses`), all others to a stutter. The step
  that closes the circle comes at a date at which the receiver of `RUN` has just left a job and another one is
  started (`CircleForms`, which needs that supervisors are at pace); every later one is a step of the standing
  planner (`CircleIsStand`). The planner has
  its own instance of the scheduler, with the fields of its jobs in records: the `Same...` lemmas
  show that both plan alike, through the fold of a rescheduling. TLC checked `RefInv` as an
  invariant of the instances of `batch_fcfs` and `batch_cbf` before it was proved.

**The meta-scheduler and the start.**

* `MetaProofs!AnswersMatch`, `AblesOnly`, `TalkOnly`: `AnswerMatches`, `SentToAble` and
  `LateByTalk`, for any clusters, services, speeds, plugins and sorted files. `MetaInv` says that while `metaSched` waits
  exactly one message is under way, a question at the batch of the cluster it asked, an answer at its
  sed or in the mailbox, about its job and nothing left anywhere when it does not wait (`OneMessage`);
  that a prediction comes only from a cluster that holds the job, hence so does the winner (`WinnerOK`,
  where `failures < at - 1` gives a winner), hence so do all jobs under way (`SentOK`); and that throughout a
  conversation the clock is at `last` and what all conversations together have taken, so that the
  relative sleep ends that much after the submit time (`TimeOK`), whatever messages of the last job are still under
  way during the sleep.
* `MetaProofs!NeverTwice`: `OneCluster`, for the same and in any state of the clusters. `OneCluster` speaks of what is
  traced or planned; the invariant, `PlacesInv`, of where a job may come from as well: it is `Here` at a cluster
  when a queue, the reservations or the table there holds it or when its `SB_TASK` is under way to it. A job is `Here` at
  one cluster at most, and at none before it was sent (`HereOnce`, `NotYet`), because no handler brings
  in a job but the one of the `SB_TASK` it takes (`TaskKeeps`, `EndKeeps`): a prediction runs the
  scheduler and leaves nothing (`predict_schedule`, `batch.c:574`), and a rescheduling plans jobs of its queues only
  (`RescheduleWithin`). These lemmas are proved here for the tables of any cluster, of which no more is needed than that they
  hold jobs; that the recursion of a rescheduling defines a function is shown without a set of tables for
  it to stay in. The lemmas about queues alone are those of `GanttProofs`. `ListOnceAssumption` is needed: a job
  that is twice in the file may well be sent to two clusters.
* `MetaProofs!MetaTyped`: `TypeOK` of `MetaSched`, for the same. Its weight is in two conjuncts: every
  cluster keeps a table, and what `metaSched` is told and keeps as the best is a natural number, that is, every prediction
  finds a date on the table it was read off. Both need what `GanttProofs` proves of tables in order. Its
  lemmas are about one number of nodes, here every cluster has its own, and the prover hides
  the lemmas of an instance with a parameter, `C(c)`. So the conclusions are stated for a cluster (`Plans(c)`,
  with an instance of `TableOrder`, which has no theorem to hide), and `Odd` is a cluster that does not plan like
  this, if there is any (`CHOOSE`): the instance of `GanttProofs` for its nodes has no
  parameter, its lemmas show `Plans(Odd)`, and hence `Plans(c)` for all (`AllPlan`). The
  invariant, `TablesInv`, adds to `PlacesInv` that the tables and queues of all clusters are in
  order, each job in the queue of its priority (`TablesOK`), which must not change once it is there. But a prediction
  writes it (`batch.c:569`, `Clamped`), for the job `metaSched` asks about: that job is in no queue
  yet, in no message, and is sent only to a cluster whose prediction has clamped its priority for the queues
  there (`MessagesOK`, `ClampsOK`), so that neither its arrival nor any later prediction moves it. `Numbers` then
  types the rest, along the same steps.
* `MetaProofs!PredictionLasts`: `PredictionKept`, under `Lasting`: every wall time is positive. Between the
  prediction and the end of the sleep other jobs start and end, and every end plans all waiting jobs of the cluster
  again. `GanttProofs` describes by `InTurns` the tables fcfs makes of one queue: each waiting job starts when
  as many nodes as it needs are through with all the jobs ahead of it, and not later. A rescheduling of
  such a table is again one (`TurnsEnd`), and there every job comes no later than before (`OneQueue`,
  along the queue, job by job), so that for every node and its last date there is a node
  that is free by then (`NoWorse`). `TurnsInv` says that all clusters that take their jobs in turn have
  such tables (`TurnsOK`) and that on each a node is free at the promised date, or at once (`PledgesOK`), from the
  prediction to the sending. No other job is sent there meanwhile (there is
  one message at a time), and starts and time leave the plan as it is. The
  hypothesis is needed, and TLC found that it is: let J2, of wall time 0, be planned for date 0 behind J1
  and J3 behind J2 for date 0 as well. J3 can start first; when J1 ends, J2 is planned
  again behind J3, and the next job later than was promised. This is an order of two starts at one date
  that the resource manager may well choose.
* `StartupProofs!ConfigLives`, `PluginsShared`: `ConfigAlive` and `PluginShared`, for any set of batches. The
  invariant `Counted` says what `nbBatch` is, the number of batches that have not started
  plus the elements without a batch (which is why those keep the configuration until
  `simbatch_clean`), and that the pointer is set while it is positive; `InBook` that a plugin that is not in the book has
  never been loaded. The step that matters removes one batch from a finite set, whose cardinality drops by one.
* `StartupProofs!AnswersCount`, `FittingAnswer`: `AnswerCounts` and `AnswerFits`, for any batches, configurations,
  libraries and documents, sorted or not. `DietInv` counts for each load the jobs still to send and the jobs the
  batch has taken (`LoadOK`), so that the question, which comes when none is left, finds all
  of them taken (`QuestionOK`); and says that in DIET mode the shared parameter stays positive from
  the moment the command line is read, through the clamps of all batches (`ParamOK`). All taken is not all planned: the
  batch answers before it plans the jobs of the same turn. `CountInv` says that what
  is taken and what is left make up the file, in its order (`InOrder`), and that of the jobs taken but not yet
  planned none is submitted before the last one taken (`TurnOK`, with `NotBefore`): the load would have slept
  before a later one, and the turn would be over.

The assumptions are the named `ASSUME`s of `Gantt`, `BatchSystem`, `MetaSched`, `TableWalk`, `CommandLine` and `Startup`, which TLC
evaluates on every instance, and the hypotheses above.

**Only model-checked:**

* liveness (`JobsComplete`, `EveryJobRuns`, `ComesToItsEnd`) and the fair part of everything: out of the
  prover's reach, as is `ENABLED`;
* `FindASlotMatches`, `SelectNSlotsMatches`, `JobsFromDocument`: what recursive loops and callbacks compute for
  every input is an induction over data, and their transcriptions are RECURSIVE operators.

## 5. Disagreements between the code and its comments

`PROJECT.json` quotes the lines. In short: a supervisor is taken from the pool before it has sent its `SB_ACK`, and
batch, manager and supervisor wait for each other for ever (`batch_wait`, without any cancellation; the answer to
`SB_CANCEL`, a blocking send in the middle of a turn, is one more way there); a cancellation lets the
manager run a job that is gone (`batch_cancel_timer`); transfers are not part of a slot, so that a job may end
behind another one in its queue and stays there (`batch_transfers`); a waiting job
whose deadline passes is lost (`batch_deadlines`); reservations are never given the
state that protects them (`batch_reservation`); the meta-scheduler compares predictions that are old
when it sends the job (`meta_prediction`).

Two observations that are no runs: the comment over `wld_parse` (`wld.c:40-48`) lists the service before
the priority, the format string reads the priority first, and the converter writes 0 for both; an OAR
job that names no resource keeps the number of nodes of the job before it (`oar2-xml.c:147`), which is why
`JobsFromDocument` speaks of the others.

## 6. Plan

1. *(done)* `Gantt`, `BatchSystem`, their properties and instances; `StandsInCircle`, `TypeCorrect`,
   `Integrity`, `HeldOnce`, `LifecycleHolds`.
2. *(done)* `MetaSched`; `AnswersMatch`, `AblesOnly`, `TalkOnly`.
3. *(done)* `Cluster`, and `BatchSystem` shown to implement it by TLC.
4. *(done)* `CommandLine`, `OarXml`, `Startup`; `ConfigLives`, `PluginsShared`.
5. *(done)* `SlotsDisjoint`.
6. *(done)* `NoStartMissed`, `StartedOnPlan`, `AcksTraced`; `ClusterProofs`; `Implements`; `WalkProofs`; `AnswersCount`,
   `FittingAnswer`; `NeverTwice`.
7. *(done)* `MetaTyped`, `PredictionLasts`. Left: the part of `ChartFollowsTrace` that
   holds with cancellations.
8. A run with a load that is not sorted by submit time.

### Not modelled

* `rrobin.c` and `swf.c`: marked DEPRECATED in their sources; the `init` of `rrobin.c` leaves
  `accept` unset, `swf.c` copies fields.
* `SED_HPF` (`batch.c`): "work in progress"; nothing in the repository sends it.
* XPath, `dlopen`, files, traces, result files and logs: input and output.
* `wld_creator` (random files), `analyser.py` (plots).
* `controlLeavingParams`, `shiftL`, `get_completion_time`: no caller.
