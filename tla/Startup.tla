------------------------------ MODULE Startup ------------------------------
(***************************************************************************)
(* A simulation from main to main (example/batch): what its batches share, *)
(* the configuration, freed when the last of them has started, and the book*)
(* of plugins; their loads; the DIET question.                             *)
(*                                                                         *)
(*    main            simbatch_init, simbatch_clean  simbatch_config.c     *)
(*    batch           SB_batch, answer_to_DIET       batch.c               *)
(*                    SB_request_plugin              plugin.c              *)
(*                    SB_request_cluster             cluster.c             *)
(*    external load   SB_external_load               external_load.c       *)
(*                                                                         *)
(* SB_batch makes no MSG call before its loop but the creation of the two  *)
(* processes it starts: the start of a batch is one step.  The table, the  *)
(* resource manager and time are in BatchSystem.                           *)
(***************************************************************************)
EXTENDS CommandLine, Sequences, FiniteSets

CONSTANTS Batches,      \* the hosts SB_batch is deployed on
          CommandLines, \* the possible argv
          Configs,      \* the possible configurations
          NbNodes,      \* NbNodes[b], the number of nodes of the batch on b
          Libraries,    \* the plugins dlopen finds
          Parse(_, _),  \* the jobs a parser makes of a load
          None,         \* an element that is missing
          Unreadable    \* a load that is not there

(***************************************************************************)
(* Every host SB_batch is deployed on has a <batch> element of its own: the*)
(* test in simbatch_init is commented out.                                 *)
(***************************************************************************)
ASSUME BatchesAssumption == IsFiniteSet(Batches) /\ \A c \in Configs : c.spare \in Nat
ASSUME NodesAssumption == NbNodes \in [Batches -> Nat \ {0}]

VARIABLES
  phase,    \* "boot", "running", or the end: "over", "dead" (exit) or "crash"
  argv,
  conf,     \* conf.valid, conf.files, conf.writable (DIET_FILE), the elements
            \* conf.batch[b] (plugin, number, load and parser), and conf.spare,
            \* the number of elements of hosts without a batch
  config,   \* the pointer: "loaded", "null" or "dangling"
  nbBatch,
  book,     \* book_of_plugin: the plugins in it
  opened,   \* opened[l], how often plugin l has been loaded
  status,   \* where each batch is: "new", "ready" or "end"
  load,     \* where each external load is: "none", "start", "send", "diet" or "end"
  list,     \* list[b], its jobs that are still to be sent
  taken,    \* taken[b], the jobs its batch has taken
  planned,  \* planned[b], how many of them schedule_task has planned
  stack,    \* stack[b], msg_stack: SB_TASK of its load and SB_DIET
  mode,     \* DIET_MODE
  param,    \* DIET_PARAM[1]
  answer    \* answer[b], None or the answer of b: nb_procs of the job it is
            \* for, and (ghost) how many jobs were planned before

shared == <<config, nbBatch, book, opened>>
loads  == <<load, list, taken>>
turns  == <<planned, stack, answer>>
vars == <<phase, argv, conf, shared, status, loads, turns, mode, param>>

Message(name, j) == [name |-> name, job |-> j]

Asked(b) == \E i \in DOMAIN stack[b] : stack[b][i].name = "SB_DIET"

Init ==
  /\ phase = "boot"
  /\ argv \in CommandLines
  /\ conf \in Configs
  /\ config = "null"
  /\ nbBatch = 0
  /\ book = {}
  /\ opened = [l \in Libraries |-> 0]
  /\ status = [b \in Batches |-> "new"]
  /\ load = [b \in Batches |-> "none"]
  /\ list = [b \in Batches |-> <<>>]
  /\ taken = [b \in Batches |-> <<>>]
  /\ planned = [b \in Batches |-> 0]
  /\ stack = [b \in Batches |-> <<>>]
  /\ mode = FALSE
  /\ param = 0
  /\ answer = [b \in Batches |-> None]

(* exit, xbt_die or a segmentation fault.                                  *)
EndAs(p) ==
  /\ phase' = p
  /\ UNCHANGED <<argv, conf, shared, status, loads, turns, mode, param>>

-----------------------------------------------------------------------------
(* main, until MSG_main.                                                   *)

Bootable ==
  /\ ParseCmdLine(argv)
  /\ conf.valid
  /\ conf.files = {"platform", "deployment"}

SimbatchInit ==
  /\ config' = "loaded"
  /\ nbBatch' = Cardinality(Batches) + conf.spare
  /\ book' = {}
  /\ UNCHANGED opened

Boot ==
  /\ phase = "boot"
  /\ IF ~ Bootable
       THEN EndAs("dead")
       ELSE /\ phase' = "running"
            /\ SimbatchInit
            /\ mode' = IsPresent(argv, "-o")
            /\ param' = IF mode' THEN SecureStr2ul(GetParam(argv, "-tp")) ELSE 0
            /\ UNCHANGED <<argv, conf, status, loads, turns>>

-----------------------------------------------------------------------------
(* The start of a batch.                                                   *)

(* Mutant: the last batch is not counted.                                  *)
X_ConfigCloseEarly ==
  /\ nbBatch' = nbBatch - 1
  /\ config' = IF nbBatch' =< 1 THEN "null" ELSE config

(* Mutant: the pointer is not reset.                                       *)
X_ConfigCloseDangling ==
  /\ nbBatch' = nbBatch - 1
  /\ config' = IF nbBatch' = 0 THEN "dangling" ELSE config

(* config_close.                                                           *)
ConfigClose ==
  /\ nbBatch' = nbBatch - 1
  /\ config' = IF nbBatch' = 0 THEN "null" ELSE config

(* Mutant: the plugin is not put into the book.                            *)
X_RequestPlugin(l) ==
  IF l \in book
    THEN UNCHANGED <<book, opened>>
    ELSE opened' = [opened EXCEPT ![l] = @ + 1] /\ UNCHANGED book

(* SB_request_plugin, when the plugin can be loaded.                       *)
RequestPlugin(l) ==
  IF l \in book
    THEN UNCHANGED <<book, opened>>
    ELSE opened' = [opened EXCEPT ![l] = @ + 1] /\ book' = book \cup {l}

(* What SB_batch cannot do without is there.                               *)
Complete(e) == e.plugin \in Libraries /\ e.number # None

HasLoad(e) == e.load # None /\ e.parser # None

(* Reading a configuration that was freed crashes; one that lacks something*)
(* is the end of the simulation.                                           *)
StartBatch(b) ==
  LET e == conf.batch[b]
  IN  /\ phase = "running" /\ status[b] = "new"
      /\ \/ config # "loaded" /\ EndAs("crash")
         \/ config = "loaded" /\ ~ Complete(e) /\ EndAs("dead")
         \/ /\ config = "loaded" /\ Complete(e)
            /\ RequestPlugin(e.plugin)
            /\ ConfigClose
            /\ status' = [status EXCEPT ![b] = "ready"]
            /\ load' = [load EXCEPT ![b] = IF HasLoad(e) THEN "start" ELSE @]
            /\ UNCHANGED <<phase, argv, conf, list, taken, turns, mode, param>>

-----------------------------------------------------------------------------
(* The external load of b.                                                 *)

Readable(e) == HasLoad(e) /\ e.load # Unreadable

(* The jobs of every file, computed once.                                  *)
JobsOf ==
  [e \in {x \in {c.batch[b] : c \in Configs, b \in Batches} : Readable(x)} |->
     Parse(e.parser, e.load)]

(* A parser returns an array of jobs.                                      *)
IsList(l) == l \in Seq({l[i] : i \in DOMAIN l})
IsLoad(l) == IsList(l) /\ \A i \in DOMAIN l : l[i].submit \in Nat

ASSUME ParseAssumption == \A e \in DOMAIN JobsOf : IsLoad(JobsOf[e])

(* The head of the loop; after it, the question for DIET.                  *)
Remaining(l) == IF l # <<>> THEN "send" ELSE IF mode THEN "diet" ELSE "end"

(***************************************************************************)
(* The parser is loaded; that it could not be is not tested, and what is   *)
(* called then was never set.  Without a list, nothing is sent, not even   *)
(* the question.                                                           *)
(***************************************************************************)
LoadStart(b) ==
  LET e == conf.batch[b]
  IN  /\ phase = "running" /\ load[b] = "start"
      /\ \/ e.parser \notin Libraries /\ EndAs("crash")
         \/ /\ e.parser \in Libraries
            /\ \/ /\ Readable(e)
                  /\ list' = [list EXCEPT ![b] = JobsOf[e]]
                  /\ load' = [load EXCEPT ![b] = Remaining(JobsOf[e])]
               \/ /\ ~ Readable(e)
                  /\ load' = [load EXCEPT ![b] = "end"]
                  /\ UNCHANGED list
            /\ UNCHANGED <<phase, argv, conf, shared, status, taken, turns, mode, param>>

(* Mutant: the load does not sleep.                                        *)
X_AtOnce(b) == TRUE

(* The load does not sleep before its next job.                            *)
AtOnce(b) == Head(list[b]).submit =< taken[b][Len(taken[b])].submit

(***************************************************************************)
(* The batch takes SB_TASK: when it waits for a message, whenever that is, *)
(* or in the turn of the job before it, when no sleep is between the two.  *)
(***************************************************************************)
TakeTask(b) ==
  /\ phase = "running" /\ load[b] = "send" /\ list[b] # <<>>
  /\ stack[b] # <<>> => AtOnce(b)
  /\ stack' = [stack EXCEPT ![b] = Append(@, Message("SB_TASK", Head(list[b])))]
  /\ taken' = [taken EXCEPT ![b] = Append(@, Head(list[b]))]
  /\ list' = [list EXCEPT ![b] = Tail(@)]
  /\ load' = [load EXCEPT ![b] = Remaining(Tail(list[b]))]
  /\ UNCHANGED <<phase, argv, conf, shared, status, planned, mode, param, answer>>

(* And SB_DIET.                                                            *)
TakeDiet(b) ==
  /\ phase = "running" /\ load[b] = "diet"
  /\ stack' = [stack EXCEPT ![b] = Append(@, Message("SB_DIET", None))]
  /\ load' = [load EXCEPT ![b] = "end"]
  /\ UNCHANGED <<phase, argv, conf, shared, status, list, taken, planned, mode, param, answer>>

-----------------------------------------------------------------------------
(* The batch.                                                              *)

(* answer_to_DIET clamps the parameter of all batches to its own nodes, and*)
(* looks for a slot in the table as it is.                                 *)
AnswerToDIET(b) ==
  /\ param' = IF param > NbNodes[b] THEN NbNodes[b] ELSE param
  /\ answer' = [answer EXCEPT ![b] = [procs |-> param', planned |-> planned[b]]]

(***************************************************************************)
(* A turn.  SB_DIET is sorted before every SB_TASK, so that it is answered *)
(* before the jobs of its turn are planned.  When DIET_FILE cannot be      *)
(* opened, DIET_MODE is reset and the answer written all the same, to no   *)
(* file.                                                                   *)
(***************************************************************************)
HandleStack(b) ==
  /\ phase = "running" /\ status[b] = "ready" /\ stack[b] # <<>>
  /\ IF Asked(b) /\ ~ conf.writable
       THEN EndAs("crash")
       ELSE /\ IF Asked(b) THEN AnswerToDIET(b) ELSE UNCHANGED <<param, answer>>
            /\ planned' = [planned EXCEPT ![b] = Len(taken[b])]
            /\ stack' = [stack EXCEPT ![b] = <<>>]
            /\ UNCHANGED <<phase, argv, conf, shared, status, loads, mode>>

(* Receiving ends by a timeout: nobody in the simulation has anything left.*)
Quiet ==
  \A b \in Batches : status[b] # "new" /\ load[b] \in {"none", "end"} /\ stack[b] = <<>>

BatchEnd(b) ==
  /\ phase = "running" /\ status[b] = "ready" /\ Quiet
  /\ status' = [status EXCEPT ![b] = "end"]
  /\ UNCHANGED <<phase, argv, conf, shared, loads, turns, mode, param>>

(* MSG_main returns: simbatch_clean.                                       *)
Clean ==
  /\ phase = "running" /\ \A b \in Batches : status[b] = "end"
  /\ IF config = "dangling"
       THEN EndAs("crash")
       ELSE /\ phase' = "over"
            /\ config' = IF config = "loaded" THEN "dangling" ELSE config
            /\ book' = {}
            /\ UNCHANGED <<argv, conf, nbBatch, opened, status, loads, turns, mode, param>>

Terminated == phase \in {"over", "dead", "crash"} /\ UNCHANGED vars

LoadStep(b) == LoadStart(b) \/ TakeTask(b) \/ TakeDiet(b)

Next ==
  \/ Boot
  \/ \E b \in Batches : StartBatch(b) \/ LoadStep(b) \/ HandleStack(b) \/ BatchEnd(b)
  \/ Clean
  \/ Terminated

Spec == Init /\ [][Next]_vars

(***************************************************************************)
(* SimGrid runs every process that is ready; a load waits for nothing but  *)
(* a date and its batch.                                                   *)
(***************************************************************************)
Fairness ==
  /\ WF_vars(Boot) /\ WF_vars(Clean)
  /\ \A b \in Batches : /\ WF_vars(StartBatch(b)) /\ WF_vars(LoadStep(b))
                         /\ WF_vars(HandleStack(b)) /\ WF_vars(BatchEnd(b))

FairSpec == Spec /\ Fairness

-----------------------------------------------------------------------------
(* Properties.                                                             *)

(***************************************************************************)
(* The configuration is there for every batch that still has to start, and *)
(* nobody keeps a pointer to it once it is freed, which simbatch_clean     *)
(* would free again (simbatch_config.c:202, 466).                          *)
(***************************************************************************)
ConfigAlive ==
  phase = "running" => /\ config # "dangling"
                       /\ (\E b \in Batches : status[b] = "new") => config = "loaded"

(***************************************************************************)
(* Batches with the same plugin share it: it is loaded once, and stays in  *)
(* the book while they run (plugin.c:131).                                 *)
(***************************************************************************)
PluginShared ==
  /\ \A l \in Libraries : opened[l] =< 1
  /\ phase = "running" =>
       \A b \in Batches : status[b] # "new" => conf.batch[b].plugin \in book

(***************************************************************************)
(* "When everything has been submitted - ask question for DIET"            *)
(* (external_load.c:129).  All jobs have been taken when the batch answers,*)
(* but not all are planned: SB_DIET overtakes the jobs of its turn         *)
(* (batch.c:275).  Those left out are submitted with the last one: an      *)
(* answer counts in whatever was submitted before.                         *)
(***************************************************************************)
AnswerCounts ==
  \A b \in Batches : answer[b] # None =>
    LET jobs == JobsOf[conf.batch[b]]
    IN  \A i \in DOMAIN jobs : i > answer[b].planned =>
          i =< Len(taken[b]) /\ jobs[i].submit >= jobs[Len(jobs)].submit

(* The job DIET asks for fits the cluster that answers, and is one the     *)
(* search of a slot ends for (batch.c:530, scheduling.c:204).              *)
AnswerFits == \A b \in Batches : answer[b] # None => answer[b].procs \in 1 .. NbNodes[b]

(***************************************************************************)
(* A simulation with nothing amiss in its files comes to its end, every job*)
(* of every load planned, every load answered in DIET mode.  The servers of*)
(* a batch, which can come to wait in a circle, are in BatchSystem.        *)
(***************************************************************************)
NothingAmiss ==
  /\ Bootable
  /\ IsPresent(argv, "-o") => conf.writable
  /\ \A b \in Batches : LET e == conf.batch[b]
                        IN  /\ Complete(e)
                            /\ HasLoad(e) => Readable(e) /\ e.parser \in Libraries

Finished ==
  /\ phase = "over"
  /\ \A b \in Batches : Readable(conf.batch[b]) =>
       planned[b] = Len(JobsOf[conf.batch[b]]) /\ (mode => answer[b] # None)

ComesToItsEnd == NothingAmiss ~> Finished
=============================================================================
