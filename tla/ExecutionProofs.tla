-------------------------- MODULE ExecutionProofs --------------------------
(***************************************************************************)
(* How a job is executed: by one supervisor, once, at its planned date     *)
(* unless the servers have come to wait for each other.                    *)
(*                                                                         *)
(* job->state has three writers that trust what they read earlier.  The    *)
(* invariant follows a job through their hands: the timer, the RUN that is *)
(* being sent, the supervisor, the SB_ACK in the stack of the batch.  A job*)
(* is in at most one of them, and its state tells which.                   *)
(*                                                                         *)
(* Then when it is executed: the end of the module is about the timer of   *)
(* the resource manager.                                                   *)
(***************************************************************************)
EXTENDS TableProofs

(* The supervisors of the pool, and the one RUN is sent to, are different, *)
(* exist, and have finished their job.                                     *)
PoolSound ==
  /\ \A i, k \in 1 .. Len(pool) : i # k => pool[i] # pool[k]
  /\ \A i \in 1 .. Len(pool) : pool[i] =< cpt /\ spc[pool[i]] \in {"idle", "told", "ack"}
  /\ rpc = "run" => /\ rmSup =< cpt
                    /\ spc[rmSup] \in {"idle", "told", "ack"}
                    /\ \A i \in 1 .. Len(pool) : pool[i] # rmSup
  /\ \A s \in Sups : s > cpt => spc[s] = "idle"

Running == {"PROCESSING", "ERROR"}

(* A supervisor has a job exactly when it is not idle, nobody else has the *)
(* job, and the job is running.                                            *)
SupsSound ==
  /\ \A s \in Sups : spc[s] = "idle" <=> sjob[s] = NoJob
  /\ \A s, t \in Sups : s # t /\ sjob[s] = sjob[t] => sjob[s] = NoJob
  /\ \A s \in Sups : sjob[s] # NoJob => state[sjob[s]] \in Running

(* The job of the timer is still to be started, and the one being sent has *)
(* just been made PROCESSING and is in nobody's hands.                     *)
TimerSound ==
  /\ rpc = "wait" /\ rmJob # NoJob => state[rmJob] \in {"WAITING", "RESERVED"}
  /\ rpc = "run" => state[rmJob] = "PROCESSING" /\ \A s \in Sups : sjob[s] # rmJob

(* A job whose SB_ACK has arrived is running for the batch only.           *)
AcksSound ==
  \A m \in stack : m.name = "SB_ACK" =>
    /\ state[m.job] \in Running
    /\ \A s \in Sups : sjob[s] # m.job
    /\ rpc = "run" => rmJob # m.job

ExecInv == TypeInv /\ PoolSound /\ SupsSound /\ TimerSound /\ AcksSound

(* Lifecycle, for one step.                                                *)
LifecycleStep ==
  \A j \in Jobs : state'[j] # state[j] =>
    <<state[j], state'[j]>> \in
      {<<"WAITING", "PROCESSING">>, <<"RESERVED", "PROCESSING">>,
       <<"PROCESSING", "ERROR">>, <<"PROCESSING", "DONE">>, <<"ERROR", "DONE">>}

-----------------------------------------------------------------------------

(* At first nobody has a job.                                              *)
LEMMA ExecInit == Init => ExecInv
<1>. SUFFICES ASSUME Init PROVE ExecInv
  OBVIOUS
<1>1. TypeInv
  BY TypeInit
<1>2. pool = <<>> /\ Len(pool) = 0
  BY DEF Init
<1>3. PoolSound
  BY <1>2 DEF Init, PoolSound
<1>4. SupsSound /\ TimerSound /\ AcksSound
  BY DEF Init, SupsSound, TimerSound, AcksSound
<1>. QED
  BY <1>1, <1>3, <1>4 DEF ExecInv

(***************************************************************************)
(* The steps that touch no supervisor, no state and no SB_ACK.             *)
(***************************************************************************)
LEMMA QuietStep ==
  ASSUME ExecInv, TypeInv',
         UNCHANGED <<state, rmJob, rmSup, pool, cpt, spc, sjob>>,
         rpc' = rpc \/ rpc' \in {"drain", "end"},
         \A m \in stack' : m.name = "SB_ACK" => m \in stack
  PROVE  ExecInv' /\ LifecycleStep
<1>1. PoolSound'
  BY DEF ExecInv, PoolSound
<1>2. SupsSound' /\ TimerSound' /\ AcksSound'
  BY DEF ExecInv, SupsSound, TimerSound, AcksSound
<1>3. LifecycleStep
  BY DEF LifecycleStep
<1>. QED
  BY <1>1, <1>2, <1>3 DEF ExecInv

(* The batch takes the SB_ACK of a supervisor, which becomes idle.         *)
LEMMA ReceiveAckStep ==
  ASSUME ExecInv, TypeInv', NEW s \in Sups, ReceiveAck(s)
  PROVE  ExecInv' /\ LifecycleStep
<1>. DEFINE m == Message("SB_ACK", sjob[s])
<1>1. /\ stack' = stack \cup {m}
      /\ spc[s] = "ack" /\ spc' = [spc EXCEPT ![s] = "idle"]
      /\ sjob' = [sjob EXCEPT ![s] = NoJob]
      /\ UNCHANGED <<state, rpc, rmJob, rmSup, pool, cpt>>
  BY DEF ReceiveAck, AckPending, BatchTakes, clusterVars, rmVars
<1>2. /\ spc \in [Sups -> SupPcs] /\ sjob \in [Sups -> Jobs \cup {NoJob}]
      /\ sjob[s] \in Jobs /\ sjob[s] # NoJob
  BY <1>1, JobsAssumption DEF ExecInv, TypeInv, TypeOK, HoldersKnown
<1>3. PoolSound'
  BY <1>1, <1>2 DEF ExecInv, PoolSound
<1>4. SupsSound'
  BY <1>1, <1>2 DEF ExecInv, SupsSound
<1>5. TimerSound'
  BY <1>1, <1>2, JobsAssumption DEF ExecInv, TimerSound, TypeInv, HoldersKnown
<1>6. AcksSound'
  <2>1. ASSUME NEW o \in stack', o.name = "SB_ACK"
        PROVE  /\ state'[o.job] \in Running
               /\ \A t \in Sups : sjob'[t] # o.job
               /\ rpc' = "run" => rmJob' # o.job
    <3>1. CASE o \in stack
      <4>1. o.job \in Jobs
        BY <3>1 DEF ExecInv, TypeInv, TypeOK, Messages
      <4>. QED
        BY <1>1, <1>2, <2>1, <3>1, <4>1, JobsAssumption DEF ExecInv, AcksSound
    <3>2. CASE o = m
      <4>1. o.job = sjob[s]
        BY <3>2 DEF Message
      <4>2. state[sjob[s]] \in Running /\ (rpc = "run" => sjob[s] # rmJob)
        BY <1>2 DEF ExecInv, SupsSound, TimerSound
      <4>3. \A t \in Sups : sjob'[t] # sjob[s]
        BY <1>1, <1>2 DEF ExecInv, SupsSound
      <4>. QED
        BY <1>1, <4>1, <4>2, <4>3
    <3>. QED
      BY <1>1, <3>1, <3>2
  <2>. QED
    BY <2>1 DEF AcksSound
<1>7. LifecycleStep
  BY <1>1 DEF LifecycleStep
<1>. QED
  BY <1>3, <1>4, <1>5, <1>6, <1>7 DEF ExecInv

(* check_ACK makes the job DONE, and nobody has it any more.               *)
LEMMA CheckAckStep ==
  ASSUME ExecInv, TypeInv', NEW j \in Jobs, CheckAck(j)
  PROVE  ExecInv' /\ LifecycleStep
<1>. DEFINE m == Message("SB_ACK", j)
<1>1. /\ m \in stack /\ stack' = stack \ {m} /\ m.name = "SB_ACK" /\ m.job = j
      /\ state' = [state EXCEPT ![j] = "DONE"]
      /\ UNCHANGED <<rpc, rmJob, rmSup, pool, cpt, spc, sjob>>
  BY DEF CheckAck, Handle, Message, rmVars, supVars
<1>2. state \in [Jobs -> JobStates] /\ sjob \in [Sups -> Jobs \cup {NoJob}]
  BY DEF ExecInv, TypeInv, TypeOK
<1>3. /\ state[j] \in Running
      /\ \A s \in Sups : sjob[s] # j
      /\ rpc = "run" => rmJob # j
  BY <1>1 DEF ExecInv, AcksSound
<1>4. PoolSound'
  BY <1>1 DEF ExecInv, PoolSound
<1>5. SupsSound'
  BY <1>1, <1>2, <1>3 DEF ExecInv, SupsSound
<1>6. TimerSound'
  <2>1. rpc = "wait" /\ rmJob # NoJob => rmJob # j
    BY <1>3 DEF ExecInv, TimerSound, Running
  <2>2. \A i \in Jobs : i # j => state'[i] = state[i]
    BY <1>1, <1>2
  <2>3. rmJob \in Jobs \cup {NoJob} /\ (rpc = "run" => rmJob \in Jobs)
    BY DEF ExecInv, TypeInv, TypeOK, HoldersKnown
  <2>. QED
    BY <1>1, <1>3, <2>1, <2>2, <2>3 DEF ExecInv, TimerSound
<1>7. AcksSound'
  <2>1. ASSUME NEW o \in stack', o.name = "SB_ACK"
        PROVE  /\ state'[o.job] \in Running
               /\ \A t \in Sups : sjob'[t] # o.job
               /\ rpc' = "run" => rmJob' # o.job
    <3>1. o \in stack /\ o # m
      BY <1>1
    <3>2. o \in Messages
      BY <3>1 DEF ExecInv, TypeInv, TypeOK
    <3>3. o.job \in Jobs /\ o.job # j
      BY <2>1, <3>1, <3>2 DEF Messages, Message
    <3>. QED
      BY <1>1, <1>2, <2>1, <3>1, <3>3 DEF ExecInv, AcksSound
  <2>. QED
    BY <2>1 DEF AcksSound
<1>8. LifecycleStep
  BY <1>1, <1>2, <1>3 DEF LifecycleStep, Running
<1>. QED
  BY <1>4, <1>5, <1>6, <1>7, <1>8 DEF ExecInv

(* A supervisor goes on: of the states only that of its own job changes.   *)
LEMMA SuperviseStep ==
  ASSUME ExecInv, TypeInv', NEW s \in Sups, Supervise(s)
  PROVE  ExecInv' /\ LifecycleStep
<1>. DEFINE j == sjob[s]
<1>1. UNCHANGED <<stack, rpc, rmJob, rmSup, pool, cpt, sjob>>
  BY DEF Supervise, SupStart, NodeReceive, InputReceived, SupFinish, OutputReturned,
         TellBatch, SupFrame, batchVars, rmVars
<1>2. /\ spc[s] # "idle"
      /\ \E pc \in SupPcs \ {"idle"} : /\ spc' = [spc EXCEPT ![s] = pc]
                                       /\ spc[s] \in {"told", "ack"} => pc = "ack"
  BY DEF Supervise, SupStart, NodeReceive, InputReceived, SupFinish, OutputReturned,
         TellBatch, Execute, SupPcs
<1>3. state' = state \/ state' = [state EXCEPT ![j] = "ERROR"]
  BY DEF Supervise, SupStart, NodeReceive, InputReceived, SupFinish, OutputReturned,
         TellBatch, Execute
<1>4. /\ state \in [Jobs -> JobStates] /\ spc \in [Sups -> SupPcs]
      /\ sjob \in [Sups -> Jobs \cup {NoJob}]
  BY DEF ExecInv, TypeInv, TypeOK
<1>5. j \in Jobs /\ j # NoJob
  BY <1>2, JobsAssumption DEF ExecInv, TypeInv, HoldersKnown
<1>6. state[j] \in Running
  BY <1>5 DEF ExecInv, SupsSound
<1>7. pool \in Seq(Sups) /\ (rpc = "run" => rmSup \in Sups)
  BY DEF ExecInv, TypeInv, TypeOK, HoldersKnown
<1>8. /\ \A u \in Sups : u # s => spc'[u] = spc[u]
      /\ spc[s] \in {"told", "ack"} => spc'[s] = "ack"
  BY <1>2, <1>4
<1>9. PoolSound'
  <2>1. ASSUME NEW i \in 1 .. Len(pool)
        PROVE  pool[i] \in Sups /\ spc'[pool[i]] \in {"idle", "told", "ack"}
    <3>1. pool[i] \in Sups
      BY <1>7, ElementOfSeq
    <3>. QED
      BY <1>2, <1>8, <3>1 DEF ExecInv, PoolSound
  <2>2. rpc = "run" => spc'[rmSup] \in {"idle", "told", "ack"}
    BY <1>2, <1>7, <1>8 DEF ExecInv, PoolSound
  <2>3. \A u \in Sups : u > cpt => spc'[u] = "idle"
    BY <1>2, <1>8 DEF ExecInv, PoolSound
  <2>. QED
    BY <1>1, <1>7, <1>8, <2>1, <2>2, <2>3 DEF ExecInv, PoolSound
<1>10. SupsSound'
  <2>1. \A u \in Sups : spc'[u] = "idle" <=> spc[u] = "idle"
    BY <1>2, <1>4
  <2>2. \A u \in Sups : sjob[u] # NoJob => state'[sjob[u]] \in Running
    BY <1>3, <1>4 DEF ExecInv, SupsSound, Running
  <2>. QED
    BY <1>1, <2>1, <2>2 DEF ExecInv, SupsSound
<1>11. TimerSound'
  <2>1. rpc = "run" => rmJob # j
    BY DEF ExecInv, TimerSound
  <2>2. rpc = "wait" /\ rmJob # NoJob => rmJob # j
    BY <1>6 DEF ExecInv, TimerSound, Running
  <2>3. \A i \in Jobs : i # j => state'[i] = state[i]
    BY <1>3, <1>4
  <2>4. rmJob \in Jobs \cup {NoJob} /\ (rpc = "run" => rmJob \in Jobs)
    BY DEF ExecInv, TypeInv, TypeOK, HoldersKnown
  <2>. QED
    BY <1>1, <2>1, <2>2, <2>3, <2>4 DEF ExecInv, TimerSound
<1>12. AcksSound'
  <2>1. \A i \in Jobs : state[i] \in Running => state'[i] \in Running
    BY <1>3, <1>4 DEF Running
  <2>2. \A m \in stack : m.job \in Jobs
    BY DEF ExecInv, TypeInv, TypeOK, Messages
  <2>. QED
    BY <1>1, <2>1, <2>2 DEF ExecInv, AcksSound
<1>13. LifecycleStep
  BY <1>3, <1>4, <1>6 DEF LifecycleStep, Running
<1>. QED
  BY <1>9, <1>10, <1>11, <1>12, <1>13 DEF ExecInv

(* RM_ATTACH puts into the pool a supervisor that was not in it.           *)
LEMMA ReceiveAttachStep ==
  ASSUME ExecInv, TypeInv', NEW s \in Sups, ReceiveAttach(s)
  PROVE  ExecInv' /\ LifecycleStep
<1>1. /\ rpc \in {"wait", "drain"} /\ rpc' = "drain"
      /\ spc[s] = "attach" /\ spc' = [spc EXCEPT ![s] = "told"]
      /\ pool' = Append(pool, s)
      /\ UNCHANGED <<state, stack, rmJob, rmSup, cpt, sjob>>
  BY DEF ReceiveAttach, AttachPending, clusterVars, batchVars
<1>2. pool \in Seq(Sups) /\ spc \in [Sups -> SupPcs] /\ cpt \in 0 .. NbSups
  BY DEF ExecInv, TypeInv, TypeOK
<1>3. /\ Len(pool) \in Nat /\ Len(pool') = Len(pool) + 1
      /\ \A i \in 1 .. Len(pool) : pool'[i] = pool[i] /\ pool[i] \in Sups
      /\ pool'[Len(pool) + 1] = s
  BY <1>1, <1>2, AppendProperties, ElementOfSeq
<1>4. \A i \in 1 .. Len(pool) : pool[i] # s
  BY <1>1 DEF ExecInv, PoolSound
<1>5. s =< cpt
  BY <1>1, <1>2 DEF ExecInv, PoolSound, Sups
<1>6. PoolSound'
  <2>1. ASSUME NEW i \in 1 .. Len(pool'), NEW k \in 1 .. Len(pool'), i # k
        PROVE  pool'[i] # pool'[k]
    <3>1. i \in 1 .. Len(pool) \/ i = Len(pool) + 1
      BY <1>3
    <3>2. k \in 1 .. Len(pool) \/ k = Len(pool) + 1
      BY <1>3
    <3>. QED
      BY <1>3, <1>4, <2>1, <3>1, <3>2 DEF ExecInv, PoolSound
  <2>2. ASSUME NEW i \in 1 .. Len(pool')
        PROVE  pool'[i] =< cpt /\ spc'[pool'[i]] \in {"idle", "told", "ack"}
    <3>1. CASE i \in 1 .. Len(pool)
      BY <1>1, <1>2, <1>3, <3>1 DEF ExecInv, PoolSound
    <3>2. CASE i = Len(pool) + 1
      BY <1>1, <1>2, <1>3, <1>5, <3>2
    <3>. QED
      BY <1>3, <3>1, <3>2
  <2>3. \A u \in Sups : u > cpt => spc'[u] = "idle"
    BY <1>1, <1>2 DEF ExecInv, PoolSound
  <2>. QED
    BY <1>1, <2>1, <2>2, <2>3 DEF PoolSound
<1>7. SupsSound'
  BY <1>1, <1>2 DEF ExecInv, SupsSound
<1>8. TimerSound' /\ AcksSound' /\ LifecycleStep
  BY <1>1 DEF ExecInv, TimerSound, AcksSound, LifecycleStep
<1>. QED
  BY <1>6, <1>7, <1>8 DEF ExecInv

(***************************************************************************)
(* The steps at whose end the resource manager starts a job or sets its    *)
(* timer, and what they start from.                                        *)
(***************************************************************************)
Ready ==
  /\ stack' = stack
  /\ \A i, k \in 1 .. Len(pool) : i # k => pool[i] # pool[k]
  /\ \A i \in 1 .. Len(pool) : pool[i] =< cpt /\ spc'[pool[i]] \in {"idle", "told", "ack"}
  /\ \A s \in Sups : s > cpt => spc'[s] = "idle"
  /\ \A s \in Sups : spc'[s] = "idle" <=> sjob'[s] = NoJob
  /\ \A s, t \in Sups : s # t /\ sjob'[s] = sjob'[t] => sjob'[s] = NoJob
  /\ \A s \in Sups : sjob'[s] # NoJob => state[sjob'[s]] \in Running
  /\ \A m \in stack : m.name = "SB_ACK" =>
       state[m.job] \in Running /\ \A s \in Sups : sjob'[s] # m.job

(* A job that is still to be started is started: nobody has it.            *)
LEMMA DispatchStep ==
  ASSUME TypeInv, TypeInv', Ready, NEW STATE j, j \in Jobs, Dispatch(j, pool),
         state[j] \in {"WAITING", "RESERVED"}
  PROVE  ExecInv' /\ LifecycleStep
<1>1. /\ rpc' = "run" /\ rmJob' = j
      /\ state' = [state EXCEPT ![j] = "PROCESSING"]
  BY DEF Dispatch
<1>2. /\ state \in [Jobs -> JobStates] /\ pool \in Seq(Sups) /\ cpt \in 0 .. NbSups
      /\ spc' \in [Sups -> SupPcs] /\ sjob' \in [Sups -> Jobs \cup {NoJob}]
      /\ stack \subseteq Messages /\ rmSup' \in Sups
  BY <1>1 DEF TypeInv, TypeOK, HoldersKnown
<1>3. state'[j] = "PROCESSING" /\ \A i \in Jobs : state[i] \in Running => state'[i] \in Running
  BY <1>1, <1>2 DEF Running
<1>4. PoolSound'
  <2>1. CASE pool = <<>>
    <3>1. cpt' = cpt + 1 /\ rmSup' = cpt + 1 /\ pool' = <<>> /\ Len(pool') = 0
      BY <2>1 DEF Dispatch
    <3>2. spc'[rmSup'] = "idle"
      BY <1>2, <3>1 DEF Ready, Sups
    <3>3. \A s \in Sups : s > cpt' => spc'[s] = "idle"
      BY <1>2, <3>1, SupsAssumption DEF Ready, Sups
    <3>. QED
      BY <1>2, <3>1, <3>2, <3>3 DEF PoolSound
  <2>2. CASE pool # <<>>
    <3>1. rmSup' = Head(pool) /\ pool' = Tail(pool) /\ cpt' = cpt
      BY <2>2 DEF Dispatch
    <3>2. /\ Len(pool) \in Nat \ {0} /\ Len(pool') = Len(pool) - 1
          /\ rmSup' = pool[1]
          /\ \A i \in 1 .. Len(pool') : pool'[i] = pool[i + 1]
      BY <1>2, <2>2, <3>1, HeadTailProperties, EmptySeq, LenProperties
    <3>3. 1 \in 1 .. Len(pool) /\ \A i \in 1 .. Len(pool') : i + 1 \in 2 .. Len(pool)
      BY <3>2
    <3>4. \A i, k \in 1 .. Len(pool') : i # k => pool'[i] # pool'[k]
      <4>1. \A i, k \in 1 .. Len(pool') : i # k => i + 1 # k + 1
        BY <3>2
      <4>2. 2 .. Len(pool) \subseteq 1 .. Len(pool)
        BY <3>2
      <4>. QED
        BY <3>2, <3>3, <4>1, <4>2 DEF Ready
    <3>5. \A i \in 1 .. Len(pool') :
            /\ pool'[i] =< cpt /\ pool'[i] # rmSup'
            /\ spc'[pool'[i]] \in {"idle", "told", "ack"}
      <4>1. ASSUME NEW k \in 2 .. Len(pool) PROVE k \in 1 .. Len(pool) /\ k # 1
        BY <3>2, <4>1
      <4>2. \A i \in 1 .. Len(pool') : i + 1 \in 1 .. Len(pool) /\ i + 1 # 1
        BY <3>3, <4>1
      <4>3. ASSUME NEW i \in 1 .. Len(pool'), NEW k, k = i + 1
            PROVE  /\ pool'[i] =< cpt /\ pool'[i] # rmSup'
                   /\ spc'[pool'[i]] \in {"idle", "told", "ack"}
        <5>1. pool'[i] = pool[k] /\ k \in 1 .. Len(pool) /\ k # 1
          BY <3>2, <4>2, <4>3
        <5>2. pool[k] # pool[1]
          BY <3>3, <5>1 DEF Ready
        <5>. QED
          BY <3>2, <5>1, <5>2 DEF Ready
      <4>. QED
        BY <4>3
    <3>6. rmSup' =< cpt /\ spc'[rmSup'] \in {"idle", "told", "ack"}
      BY <3>2, <3>3 DEF Ready
    <3>7. \A s \in Sups : s > cpt => spc'[s] = "idle"
      BY DEF Ready
    <3>. HIDE DEF Ready
    <3>. QED
      BY <3>1, <3>4, <3>5, <3>6, <3>7 DEF PoolSound
  <2>. QED
    BY <2>1, <2>2
<1>5. SupsSound'
  <2>1. \A s \in Sups : sjob'[s] # NoJob => sjob'[s] \in Jobs
    BY <1>2
  <2>2. \A s \in Sups : sjob'[s] # NoJob => state'[sjob'[s]] \in Running
    BY <1>3, <2>1 DEF Ready
  <2>. QED
    BY <2>2 DEF Ready, SupsSound
<1>6. TimerSound'
  <2>1. \A s \in Sups : sjob'[s] # j
    BY JobsAssumption DEF Ready, Running
  <2>. QED
    BY <1>1, <1>3, <2>1 DEF TimerSound
<1>7. AcksSound'
  <2>1. \A m \in stack : m.name = "SB_ACK" => m.job \in Jobs /\ m.job # j
    BY <1>2 DEF Ready, Messages, Running
  <2>. QED
    BY <1>1, <1>3, <2>1 DEF Ready, AcksSound
<1>8. LifecycleStep
  BY <1>1, <1>2 DEF LifecycleStep
<1>. QED
  BY <1>4, <1>5, <1>6, <1>7, <1>8 DEF ExecInv

(* The resource manager starts the next job or sets its timer for it.      *)
LEMMA NextWakeupStep ==
  ASSUME TypeInv, TypeInv', Ready, NextWakeup(pool)
  PROVE  ExecInv' /\ LifecycleStep
<1>. DEFINE S == NodesToStart(gantt, Startable)
            j == NextJob(gantt, Startable)
<1>1. gantt \in Tables
  BY DEF TypeInv, TypeOK
<1>2. S # {} => j \in Jobs /\ j \in Startable
  BY <1>1, NextJobType
<1>3. ASSUME rpc' = "wait", UNCHANGED <<state, cpt>>, pool' = pool,
             rmJob' # NoJob => state[rmJob'] \in {"WAITING", "RESERVED"}
      PROVE  ExecInv' /\ LifecycleStep
  <2>1. PoolSound' /\ SupsSound'
    BY <1>3 DEF Ready, PoolSound, SupsSound
  <2>2. TimerSound' /\ AcksSound' /\ LifecycleStep
    BY <1>3 DEF Ready, TimerSound, AcksSound, LifecycleStep
  <2>. QED
    BY <2>1, <2>2 DEF ExecInv
<1>. HIDE DEF j
<1>4. CASE S = {}
  BY <1>3, <1>4 DEF NextWakeup
<1>5. CASE S # {} /\ gantt.start[j] =< clock
  <2>1. Dispatch(j, pool)
    BY <1>5 DEF NextWakeup, j
  <2>. QED
    BY <1>2, <1>5, <2>1, DispatchStep DEF Startable
<1>6. CASE S # {} /\ ~ (gantt.start[j] =< clock)
  <2>1. /\ rpc' = "wait" /\ rmJob' = j /\ pool' = pool
        /\ UNCHANGED <<state, rmSup, cpt>>
    BY <1>6 DEF NextWakeup, j
  <2>. QED
    BY <1>2, <1>3, <1>6, <2>1 DEF Startable
<1>. QED
  BY <1>4, <1>5, <1>6

(* The steps of the resource manager.                                      *)
LEMMA RmExecStep ==
  ASSUME ExecInv, TypeInv', RmStep
  PROVE  ExecInv' /\ LifecycleStep
<1>1. ASSUME UNCHANGED <<stack, spc, sjob>>, rpc # "run" PROVE Ready
  BY <1>1 DEF ExecInv, PoolSound, SupsSound, AcksSound, Ready
<1>2. CASE RmTimeout
  <2>1. /\ rpc = "wait" /\ rmJob # NoJob /\ Dispatch(rmJob, pool)
        /\ UNCHANGED <<stack, spc, sjob>>
    BY <1>2 DEF RmTimeout, TimerDue, batchVars, supVars
  <2>2. rmJob \in Jobs /\ state[rmJob] \in {"WAITING", "RESERVED"}
    BY <2>1 DEF ExecInv, TypeInv, TypeOK, TimerSound
  <2>. QED
    BY <1>1, <2>1, <2>2, DispatchStep DEF ExecInv
<1>3. CASE \E s \in Sups : ReceiveAttach(s)
  BY <1>3, ReceiveAttachStep
<1>4. CASE ReceiveUpdate
  <2>1. /\ UNCHANGED <<stack, state, rmJob, rmSup, pool, cpt, spc, sjob>>
        /\ rpc' = "drain"
    BY <1>4 DEF ReceiveUpdate, clusterVars, supVars
  <2>. QED
    BY <2>1, QuietStep
<1>5. CASE RmDrained
  <2>1. UNCHANGED <<stack, spc, sjob>> /\ rpc = "drain" /\ NextWakeup(pool)
    BY <1>5 DEF RmDrained, batchVars, supVars
  <2>. QED
    BY <1>1, <2>1, NextWakeupStep DEF ExecInv
<1>6. CASE RunTaken
  <2>1. /\ rpc = "run" /\ spc[rmSup] = "idle" /\ rpc' = "next"
        /\ spc' = [spc EXCEPT ![rmSup] = "start"]
        /\ sjob' = [sjob EXCEPT ![rmSup] = rmJob]
        /\ UNCHANGED <<stack, state, rmJob, rmSup, pool, cpt>>
    BY <1>6 DEF RunTaken, clusterVars, batchVars
  <2>2. /\ spc \in [Sups -> SupPcs] /\ sjob \in [Sups -> Jobs \cup {NoJob}]
        /\ rmSup \in Sups /\ rmJob \in Jobs /\ rmJob # NoJob
        /\ pool \in Seq(Sups) /\ cpt \in 0 .. NbSups
    BY <2>1, JobsAssumption DEF ExecInv, TypeInv, TypeOK, HoldersKnown
  <2>3. \A s \in Sups : s # rmSup => spc'[s] = spc[s] /\ sjob'[s] = sjob[s]
    BY <2>1, <2>2
  <2>4. spc'[rmSup] = "start" /\ sjob'[rmSup] = rmJob
    BY <2>1, <2>2
  <2>5. /\ rmSup =< cpt
        /\ \A i \in 1 .. Len(pool) : pool[i] \in Sups /\ pool[i] # rmSup
    BY <2>1, <2>2, ElementOfSeq DEF ExecInv, PoolSound
  <2>6. \A s \in Sups : s > cpt => s # rmSup
    BY <2>2, <2>5 DEF Sups
  <2>7. state[rmJob] = "PROCESSING" /\ \A s \in Sups : sjob[s] # rmJob
    BY <2>1 DEF ExecInv, TimerSound
  <2>8. PoolSound'
    BY <2>1, <2>3, <2>5, <2>6 DEF ExecInv, PoolSound
  <2>9. SupsSound'
    BY <2>1, <2>2, <2>3, <2>4, <2>7 DEF ExecInv, SupsSound, Running
  <2>10. TimerSound' /\ AcksSound'
    BY <2>1, <2>3, <2>4 DEF ExecInv, TimerSound, AcksSound
  <2>11. LifecycleStep
    BY <2>1 DEF LifecycleStep
  <2>. QED
    BY <2>8, <2>9, <2>10, <2>11 DEF ExecInv
<1>7. CASE RmNext
  <2>1. UNCHANGED <<stack, spc, sjob>> /\ rpc = "next" /\ NextWakeup(pool)
    BY <1>7 DEF RmNext, batchVars, supVars
  <2>. QED
    BY <1>1, <2>1, NextWakeupStep DEF ExecInv
<1>. QED
  BY <1>2, <1>3, <1>4, <1>5, <1>6, <1>7 DEF RmStep

(* Every step keeps the invariant and changes the states as it may.        *)
LEMMA ExecStep ==
  ASSUME ExecInv, [Next]_vars
  PROVE  ExecInv' /\ LifecycleStep
<1>1. TypeInv'
  BY TypeStep DEF ExecInv
<1>2. ASSUME NEW j \in Jobs, HandleMessage(j) PROVE ExecInv' /\ LifecycleStep
  <2>1. CASE CheckAck(j)
    BY <1>1, <2>1, CheckAckStep
  <2>2. CASE ScheduleTask(j) \/ ReserveSlot(j) \/ CancelTask(j)
    <3>1. /\ UNCHANGED <<state, rpc, rmJob, rmSup, pool, cpt, spc, sjob>>
          /\ \A m \in stack' : m \in stack
      BY <2>2 DEF ScheduleTask, ReserveSlot, CancelTask, Handle, rmVars, supVars
    <3>. QED
      BY <1>1, <3>1, QuietStep
  <2>. QED
    BY <1>2, <2>1, <2>2 DEF HandleMessage
<1>3. CASE BatchStep
  <2>1. CASE ReceiveTask \/ \E r \in Requests : ReceiveRequest(r)
    <3>1. ASSUME NEW STATE name, NEW STATE j, BatchTakes(Message(name, j)), UNCHANGED supVars,
                 name # "SB_ACK"
          PROVE  /\ UNCHANGED <<state, rpc, rmJob, rmSup, pool, cpt, spc, sjob>>
                 /\ \A m \in stack' : m.name = "SB_ACK" => m \in stack
      BY <3>1 DEF BatchTakes, Message, clusterVars, rmVars, supVars
    <3>2. \A r \in Requests : r.name # "SB_ACK"
      BY RequestsAssumption DEF RequestKinds
    <3>3. /\ UNCHANGED <<state, rpc, rmJob, rmSup, pool, cpt, spc, sjob>>
          /\ \A m \in stack' : m.name = "SB_ACK" => m \in stack
      BY <2>1, <3>1, <3>2 DEF ReceiveTask, ReceiveRequest
    <3>. QED
      BY <1>1, <3>3, QuietStep
  <2>2. CASE SortStack \/ Reply \/ Resume
    <3>1. UNCHANGED <<state, rpc, rmJob, rmSup, pool, cpt, spc, sjob, stack>>
      BY <2>2 DEF SortStack, Reply, Resume, clusterVars, rmVars, supVars
    <3>. QED
      BY <1>1, <3>1, QuietStep
  <2>. QED
    BY <1>1, <1>3, <2>1, <2>2, ReceiveAckStep DEF BatchStep
<1>4. CASE RmStep
  BY <1>1, <1>4, RmExecStep
<1>5. ASSUME NEW s \in Sups, Supervise(s) PROVE ExecInv' /\ LifecycleStep
  BY <1>1, <1>5, SuperviseStep
<1>6. CASE Tick \/ EndOfTime \/ LoadSend \/ (\E r \in Requests : ClientSend(r))
           \/ UNCHANGED vars
  <2>1. /\ UNCHANGED <<state, rmJob, rmSup, pool, cpt, spc, sjob, stack>>
        /\ rpc' = rpc \/ rpc' \in {"drain", "end"}
    BY <1>6 DEF Tick, EndOfTime, LoadSend, ClientSend, vars, clusterVars, batchVars,
                rmVars, supVars
  <2>. QED
    BY <1>1, <2>1, QuietStep
<1>. QED
  BY <1>2, <1>3, <1>4, <1>5, <1>6 DEF Next, System, Terminated

-----------------------------------------------------------------------------

(* ExecInv is an invariant of a cluster.                                   *)
LEMMA ExecCorrect == Spec => []ExecInv
<1>1. ExecInv /\ [Next]_vars => ExecInv'
  BY ExecStep
<1>. QED
  BY ExecInit, <1>1, PTL DEF Spec

(***************************************************************************)
(* The pool never holds a supervisor twice, one that executes a job, or the*)
(* one a job is being sent to.                                             *)
(***************************************************************************)
THEOREM Integrity == Spec => []SupervisorIntegrity
<1>1. ExecInv => SupervisorIntegrity
  <2>. SUFFICES ASSUME ExecInv PROVE SupervisorIntegrity
    OBVIOUS
  <2>1. DOMAIN pool = 1 .. Len(pool)
    BY DEF ExecInv, TypeInv, TypeOK
  <2>. QED
    BY <2>1 DEF ExecInv, PoolSound, SupervisorIntegrity
<1>. QED
  BY ExecCorrect, <1>1, PTL

(* No job is in two hands at once, whatever the batch does to the table    *)
(* between the setting of a timer and its end.                             *)
THEOREM HeldOnce == Spec => []JobHeldOnce
<1>1. ExecInv => JobHeldOnce
  BY DEF ExecInv, SupsSound, TimerSound, JobHeldOnce
<1>. QED
  BY ExecCorrect, <1>1, PTL

(* Every job is started at most once and finished at most once.            *)
THEOREM LifecycleHolds == Spec => Lifecycle
<1>1. ExecInv /\ [Next]_vars => [LifecycleStep]_vars
  BY ExecStep
<1>2. Lifecycle <=> [][LifecycleStep]_vars
  BY PTL DEF Lifecycle, LifecycleStep
<1>. QED
  BY ExecCorrect, <1>1, <1>2, PTL DEF Spec
-----------------------------------------------------------------------------
(***************************************************************************)
(* The servers of a cluster can come to wait for each other.  Nothing else *)
(* brings them to a standstill before the end of time, and nothing ends it.*)
(***************************************************************************)

(* Both servers end, or none.                                              *)
EndSame == bpc = "end" <=> rpc = "end"

(* They end in one step, after which neither does anything.                *)
LEMMA EndSameStep == EndSame /\ [Next]_vars => EndSame'
<1>. SUFFICES ASSUME EndSame, [Next]_vars PROVE EndSame'
  OBVIOUS
<1>. USE DEF EndSame
<1>1. CASE \E j \in Jobs : HandleMessage(j)
  BY <1>1 DEF HandleMessage, ScheduleTask, ReserveSlot, CheckAck, CancelTask, Handle, NextPc,
              rmVars
<1>2. CASE BatchStep
  BY <1>2 DEF BatchStep, ReceiveAck, ReceiveTask, ReceiveRequest, SortStack, Reply, Resume,
              BatchTakes, NextPc, rmVars
<1>3. CASE RmStep
  BY <1>3 DEF RmStep, RmTimeout, TimerDue, ReceiveAttach, ReceiveUpdate, UpdatePending,
              RmDrained, RunTaken, RmNext, NextWakeup, Dispatch, batchVars
<1>4. CASE \E s \in Sups : Supervise(s)
  BY <1>4 DEF Supervise, SupStart, NodeReceive, InputReceived, SupFinish, OutputReturned,
              TellBatch, SupFrame, batchVars, rmVars
<1>5. CASE Tick \/ EndOfTime \/ LoadSend \/ (\E r \in Requests : ClientSend(r)) \/ vars' = vars
  BY <1>5 DEF Tick, EndOfTime, LoadSend, ClientSend, vars, batchVars, rmVars
<1>. QED
  BY <1>1, <1>2, <1>3, <1>4, <1>5 DEF Next, System, Terminated

(***************************************************************************)
(* However many jobs, nodes, supervisors and clients there are and with    *)
(* either plugin: when no process of a cluster can go on, before the end   *)
(* of time, the batch waits for the resource manager to take SB_UPDATE,    *)
(* which waits for a supervisor to take RUN, which waits for the batch to  *)
(* take SB_ACK (batch.c:226, resource_manager.c:138, 271).                 *)
(***************************************************************************)
THEOREM StandsInCircle == Spec => []WaitsOnlyInCircle
<1>1. Init => EndSame
  BY DEF Init, EndSame
<1>2. ExecInv /\ EndSame => WaitsOnlyInCircle
  <2>. SUFFICES ASSUME ExecInv, EndSame, ~ CanStep, bpc # "end" PROVE CircularWait
    BY DEF WaitsOnlyInCircle
  <2>1. ~ Busy /\ ~ (bpc = "recv" /\ rpc = "wait")
    BY DEF CanStep
  <2>2. bpc \in BatchPcs /\ rpc \in RmPcs
    BY DEF ExecInv, TypeInv, TypeOK
  <2>3. /\ bpc \in {"recv", "update"} /\ (bpc = "recv" => ~ BatchMail)
        /\ rpc \in {"wait", "run"} /\ (rpc = "wait" => ~ RmMail)
    BY <2>1, <2>2 DEF Busy, BatchPcs, RmPcs, EndSame
  <2>4. rpc = "run"
    BY <2>1, <2>3 DEF RmMail, UpdatePending
  <2>5. rmSup \in Sups /\ spc[rmSup] = "ack"
    BY <2>1, <2>4 DEF Busy, ExecInv, PoolSound, TypeInv, HoldersKnown
  <2>6. bpc # "recv"
    BY <2>3, <2>5 DEF BatchMail, AckPending
  <2>. QED
    BY <2>3, <2>4, <2>5, <2>6 DEF CircularWait
<1>. QED
  BY ExecCorrect, EndSameStep, <1>1, <1>2, PTL DEF Spec

(* Nobody leaves the circle.                                               *)
LEMMA CircleStands == TypeInv /\ CircularWait /\ [Next]_vars => CircularWait'
<1>. SUFFICES ASSUME TypeInv, CircularWait, [Next]_vars PROVE CircularWait'
  OBVIOUS
<1>. USE DEF CircularWait
<1>1. rmSup \in Sups /\ spc \in [Sups -> SupPcs]
  BY DEF TypeInv, TypeOK, HoldersKnown
<1>2. ~ \E j \in Jobs : HandleMessage(j)
  BY DEF HandleMessage, ScheduleTask, ReserveSlot, CheckAck, CancelTask, Handle
<1>3. ~ BatchStep
  BY DEF BatchStep, ReceiveAck, ReceiveTask, ReceiveRequest, SortStack, Reply, Resume,
         BatchTakes
<1>4. ~ RmStep
  BY DEF RmStep, RmTimeout, TimerDue, ReceiveAttach, ReceiveUpdate, RmDrained, RunTaken, RmNext
<1>5. ASSUME NEW s \in Sups, Supervise(s) PROVE CircularWait'
  <2>1. spc[s] # "ack" /\ UNCHANGED <<bpc, rpc, rmSup>>
    BY <1>5 DEF Supervise, SupStart, NodeReceive, InputReceived, SupFinish, OutputReturned,
                TellBatch, SupFrame, batchVars, rmVars
  <2>2. \E pc \in SupPcs : spc' = [spc EXCEPT ![s] = pc]
    BY <1>5 DEF Supervise, SupStart, NodeReceive, InputReceived, SupFinish, OutputReturned,
                TellBatch, Execute, SupPcs
  <2>. QED
    BY <1>1, <2>1, <2>2
<1>6. ~ EndOfTime
  BY DEF EndOfTime
<1>7. CASE Tick \/ LoadSend \/ (\E r \in Requests : ClientSend(r)) \/ vars' = vars
  BY <1>7 DEF Tick, LoadSend, ClientSend, vars, batchVars, rmVars, supVars
<1>. QED
  BY <1>2, <1>3, <1>4, <1>5, <1>6, <1>7 DEF Next, System, Terminated

-----------------------------------------------------------------------------
(* What is different when no client cancels jobs.                          *)

NoCancelPending ==
  /\ \A m \in stack : m.name # "SB_CANCEL"
  /\ bpc # "reply"

(* Without SB_CANCEL in the requests there is none to answer.              *)
LEMMA NoCancelStep ==
  NoCancel /\ NoCancelPending /\ [Next]_vars => NoCancelPending'
<1>. SUFFICES ASSUME NoCancel, NoCancelPending, [Next]_vars PROVE NoCancelPending'
  OBVIOUS
<1>. USE DEF NoCancelPending
<1>1. ASSUME NEW j \in Jobs, HandleMessage(j) PROVE NoCancelPending'
  <2>1. stack' \subseteq stack /\ bpc' \in {"update", "handle", "reply", "resume"}
    BY <1>1 DEF HandleMessage, ScheduleTask, ReserveSlot, CheckAck, CancelTask, Handle, NextPc
  <2>2. ~ CancelTask(j)
    BY DEF CancelTask, Handle, Message
  <2>3. bpc' # "reply"
    BY <1>1, <2>2 DEF HandleMessage, ScheduleTask, ReserveSlot, CheckAck, NextPc
  <2>. QED
    BY <2>1, <2>3
<1>2. ASSUME NEW m, BatchTakes(m), m.name # "SB_CANCEL" PROVE NoCancelPending'
  BY <1>2 DEF BatchTakes
<1>3. CASE \E s \in Sups : ReceiveAck(s)
  <2>. PICK s \in Sups : ReceiveAck(s)
    BY <1>3
  <2>. DEFINE m == Message("SB_ACK", sjob[s])
  <2>1. BatchTakes(m)
    BY DEF ReceiveAck
  <2>2. m.name # "SB_CANCEL"
    BY DEF Message
  <2>. QED
    BY <2>1, <2>2 DEF BatchTakes
<1>4. CASE ReceiveTask
  <2>. DEFINE m == Message("SB_TASK", Load[loadPos])
  <2>1. BatchTakes(m)
    BY <1>4 DEF ReceiveTask
  <2>2. m.name # "SB_CANCEL"
    BY DEF Message
  <2>. QED
    BY <2>1, <2>2 DEF BatchTakes
<1>5. CASE \E r \in Requests : ReceiveRequest(r)
  <2>. PICK r \in Requests : ReceiveRequest(r)
    BY <1>5
  <2>. DEFINE m == Message(r.name, r.job)
  <2>1. BatchTakes(m)
    BY DEF ReceiveRequest
  <2>2. m.name # "SB_CANCEL"
    BY DEF Message, NoCancel
  <2>. QED
    BY <2>1, <2>2 DEF BatchTakes
<1>6. CASE SortStack
  BY <1>6 DEF SortStack
<1>7. CASE Reply \/ Resume
  BY <1>7 DEF Reply, Resume, NextPc
<1>8. CASE RmStep
  BY <1>8 DEF RmStep, RmTimeout, ReceiveAttach, ReceiveUpdate, RmDrained, RunTaken,
              RmNext, batchVars
<1>9. CASE \E s \in Sups : Supervise(s)
  BY <1>9 DEF Supervise, SupStart, NodeReceive, InputReceived, SupFinish, OutputReturned,
              TellBatch, SupFrame, batchVars
<1>10. CASE Tick \/ EndOfTime \/ LoadSend \/ (\E r \in Requests : ClientSend(r))
  BY <1>10 DEF Tick, EndOfTime, LoadSend, ClientSend, batchVars
<1>11. CASE vars' = vars
  BY <1>11 DEF vars, batchVars
<1>. QED
  BY <1>1, <1>3, <1>4, <1>5, <1>6, <1>7, <1>8, <1>9, <1>10, <1>11
     DEF Next, System, Terminated, BatchStep

-----------------------------------------------------------------------------
(***************************************************************************)
(* The resource manager starts every job at its planned date, when no      *)
(* client cancels jobs, for as long as the servers go on.                  *)
(*                                                                         *)
(* It sleeps on a date and a job it read earlier from a table that others  *)
(* write.  The invariant says what its timer is worth at any time: exact   *)
(* while the batch receives; still ahead while the batch writes the table; *)
(* and when it is over, for a job that only the end of another could move, *)
(* which is the one thing that reaches the manager first (RM_ATTACH).      *)
(***************************************************************************)

(* The jobs still to be started that are in the table.                     *)
Due == {j \in Startable : ~ Absent(gantt, j)}

(* A supervisor sends its SB_ACK, or is about to.                          *)
Acking == \E s \in Sups : spc[s] \in {"told", "ack"}

(* An SB_ACK is on its way to the batch, or in its stack.                  *)
AckComing == Acking \/ \E m \in stack : m.name = "SB_ACK"

(* The timer is set for a job of the table, and none is planned before it. *)
TimerMatches ==
  /\ \A j \in Due : rmJob # NoJob /\ rmWake =< gantt.start[j]
  /\ rmJob # NoJob => rmJob \in Due /\ gantt.start[rmJob] = rmWake

(* So it is whenever the batch does not write the table.                   *)
TimerCurrent == rpc = "wait" /\ bpc \in {"recv", "drain"} => TimerMatches

(* And whatever the batch does, a timer that is over is right.             *)
TimerAhead ==
  rpc = "wait" /\ rmJob # NoJob =>
    \/ rmWake > clock
    \/ /\ rmWake = clock /\ ~ AckComing
       /\ rmJob \in Due /\ gantt.start[rmJob] = rmWake

NoneMissed == CircularWait \/ \A j \in Due : gantt.start[j] >= clock

(* The servers end together, when nothing is planned or asked.             *)
EndTogether ==
  rpc = "end" \/ bpc = "end" =>
    /\ rpc = "end" /\ bpc = "end" /\ Due = {}
    /\ \A r \in Requests : req[r] # "sent"

Timing == TimerCurrent /\ TimerAhead /\ NoneMissed /\ EndTogether

(* The reservations that are asked for, or still may be.                   *)
Asked == {r \in Requests : r.name = "SB_RES" /\ req[r] \in {"new", "sent", "await"}}

(* Their jobs have no slot yet, and start when the client said.            *)
BookingsFree == \A r \in Asked : Absent(gantt, r.job) /\ gantt.start[r.job] = desc[r.job].start

(* They are answered before their date is over, if they can be.            *)
BookingsOpen ==
  CircularWait \/ \A r \in Asked : req[r] # "new" => desc[r.job].start >= clock

(* A client waits for an answer exactly while its request is in the stack. *)
BookingsHeld == \A r \in Requests : r.name = "SB_RES" => (req[r] = "await" <=> r \in stack)

StackHandled == stack # {} => bpc \in {"drain", "handle", "resume"}

Bookings == BookingsFree /\ BookingsOpen /\ BookingsHeld /\ StackHandled

(* The queues hold jobs of the file, each in the queue of its priority.    *)
Filed ==
  \A p \in Queues : \A x \in Jobs : Holds(queues[p], x) =>
    p = QueueOf(x) /\ \E k \in 1 .. Len(Load) : Load[k] = x

(* Where check_ACK looks for the trace of j.                               *)
TracedAt(j) == Holds(reserved, j) \/ Holds(queues[QueueOf(j)], j)

(* What is planned or runs is traced there.                                *)
PlannedTraced == \A j \in Jobs : j \in Due \/ state[j] \in Running => TracedAt(j)

Tracing == Filed /\ PlannedTraced

PlanInv == TableInv /\ ExecInv /\ NoCancelPending /\ Timing /\ Bookings /\ Tracing

-----------------------------------------------------------------------------
(* Slots and traces.                                                       *)

(* A job that keeps its slot is planned as it was.                         *)
LEMMA SameSlot ==
  ASSUME NEW g \in Tables, NEW h \in Tables, NEW x, Slot(h, x) = Slot(g, x)
  PROVE  /\ Absent(h, x) <=> Absent(g, x)
         /\ h.start[x] = g.start[x]
<1>1. On(h, x) = On(g, x) /\ h.start[x] = g.start[x]
  BY DEF Slot
<1>. QED
  BY <1>1, AbsentOn

(* A job that has a slot is in the table.                                  *)
LEMMA GivenPlanned ==
  ASSUME NEW g \in Tables, NEW x, NEW nb \in Nat \ {0}, NEW t, Given(g, x, nb, t)
  PROVE  ~ Absent(g, x) /\ g.start[x] >= t
<1>1. On(g, x) # {}
  BY DEF Given
<1>. QED
  BY <1>1, AbsentOn DEF Given

(* Two ways to say that the queues do not hold x.                          *)
LEMMA UntracedHolds ==
  ASSUME NEW qs \in [Queues -> Seq(Jobs)], NEW x
  PROVE  Untraced(qs, x) <=> \A p \in Queues : ~ Holds(qs[p], x)
<1>1. 1 .. Len(qs) = Queues
  BY QueuesLen
<1>2. \A p \in Queues : DOMAIN qs[p] = 1 .. Len(qs[p])
  OBVIOUS
<1>. QED
  BY <1>1, <1>2 DEF Untraced, NotIn, Holds

(* Appending a job adds it and nothing else.                               *)
LEMMA AppendHolds ==
  ASSUME NEW q \in Seq(Jobs), NEW j \in Jobs, NEW x
  PROVE  Holds(Append(q, j), x) <=> x = j \/ Holds(q, x)
<1>. DEFINE r == Append(q, j)
            n == Len(q)
<1>1. /\ n \in Nat /\ DOMAIN q = 1 .. n /\ DOMAIN r = 1 .. n + 1
      /\ r[n + 1] = j /\ \A i \in 1 .. n : r[i] = q[i]
  BY AppendProperties
<1>. HIDE DEF r, n
<1>2. \A i \in 1 .. n + 1 : i = n + 1 \/ i \in 1 .. n
  BY <1>1
<1>3. n + 1 \in 1 .. n + 1 /\ \A i \in 1 .. n : i \in 1 .. n + 1
  BY <1>1
<1>4. Holds(r, x) <=> x = j \/ Holds(q, x)
  BY <1>1, <1>2, <1>3 DEF Holds
<1>. QED
  BY <1>4 DEF r

(* Removing j leaves every other job, and adds none.                       *)
LEMMA RemovedHolds ==
  ASSUME NEW q \in Seq(Jobs), NEW j, Holds(q, j), NEW x
  PROVE  /\ Holds(Removed(q, j), x) => Holds(q, x)
         /\ x # j /\ Holds(q, x) => Holds(Removed(q, j), x)
<1>. DEFINE r == Removed(q, j)
            n == Len(q)
<1>1. PICK k : Without(r, q, k, j)
  BY RemovedProperties
<1>2. /\ n \in Nat /\ DOMAIN q = 1 .. n
      /\ k \in 1 .. n /\ q[k] = j
      /\ r \in Seq(Jobs) /\ Len(r) = n - 1
      /\ \A i \in 1 .. n - 1 : r[i] = IF i < k THEN q[i] ELSE q[i + 1]
  BY <1>1 DEF Without
<1>. HIDE DEF r, n
<1>3. DOMAIN r = 1 .. n - 1
  BY <1>2
<1>4. ASSUME NEW i \in 1 .. n - 1 PROVE \E h \in 1 .. n : r[i] = q[h]
  <2>1. i \in 1 .. n /\ i + 1 \in 1 .. n
    BY <1>2
  <2>. QED
    BY <1>2, <2>1
<1>5. ASSUME NEW h \in 1 .. n, q[h] # j PROVE \E i \in 1 .. n - 1 : r[i] = q[h]
  <2>1. CASE h < k
    <3>1. h \in 1 .. n - 1
      BY <1>2, <2>1
    <3>. QED
      BY <1>2, <2>1, <3>1
  <2>2. CASE ~ (h < k)
    <3>1. h - 1 \in 1 .. n - 1 /\ ~ (h - 1 < k) /\ (h - 1) + 1 = h
      BY <1>2, <1>5, <2>2
    <3>. QED
      BY <1>2, <3>1
  <2>. QED
    BY <2>1, <2>2
<1>6. Holds(r, x) => Holds(q, x)
  BY <1>2, <1>3, <1>4 DEF Holds
<1>7. x # j /\ Holds(q, x) => Holds(r, x)
  BY <1>2, <1>3, <1>5 DEF Holds
<1>. QED
  BY <1>6, <1>7 DEF r

(* So does the removal of a trace.                                         *)
LEMMA UntraceHolds ==
  ASSUME TypeInv, NEW j \in Jobs, Untrace(j)
  PROVE  /\ \A p \in Queues : \A x : Holds(queues'[p], x) => Holds(queues[p], x)
         /\ \A p \in Queues : \A x : x # j /\ Holds(queues[p], x) => Holds(queues'[p], x)
         /\ \A x : x # j /\ Holds(reserved, x) => Holds(reserved', x)
<1>. DEFINE w == QueueOf(j)
<1>1. /\ queues \in [Queues -> Seq(Jobs)] /\ reserved \in Seq(Jobs) /\ w \in Queues
  BY QueueOfType DEF TypeInv, TypeOK
<1>2. CASE Holds(reserved, j) /\ reserved' = Removed(reserved, j) /\ UNCHANGED queues
  BY <1>1, <1>2, RemovedHolds
<1>3. CASE /\ Holds(queues[w], j) /\ UNCHANGED reserved
           /\ queues' = [queues EXCEPT ![w] = Removed(@, j)]
  <2>1. queues[w] \in Seq(Jobs)
    BY <1>1
  <2>2. \A p \in Queues : queues'[p] = IF p = w THEN Removed(queues[w], j) ELSE queues[p]
    BY <1>1, <1>3
  <2>. HIDE DEF w
  <2>3. \A x : /\ Holds(Removed(queues[w], j), x) => Holds(queues[w], x)
               /\ x # j /\ Holds(queues[w], x) => Holds(Removed(queues[w], j), x)
    BY <1>3, <2>1, RemovedHolds
  <2>. QED
    BY <1>3, <2>2, <2>3
<1>. QED
  BY <1>2, <1>3 DEF Untrace

-----------------------------------------------------------------------------
(* The handlers of the batch.                                              *)

(* What a handler must show for the timer of the resource manager.         *)
LEMMA HandledTiming ==
  ASSUME PlanInv, NEW STATE name, NEW STATE j, Handle(name, j),
         bpc' \in {NextPc(stack'), "resume"},
         NoneMissed',
         name # "SB_ACK" => \A x \in Due : x \in Due' /\ gantt'.start[x] = gantt.start[x]
  PROVE  Timing'
<1>. DEFINE m == Message(name, j)
<1>1. /\ bpc = "handle" /\ m \in stack /\ m.name = name /\ stack' = stack \ {m}
      /\ UNCHANGED <<clock, rpc, rmJob, rmWake, spc>>
  BY DEF Handle, Message, rmVars, supVars
<1>2. bpc' \in {"update", "handle", "resume"}
  BY DEF NextPc
<1>3. AckComing' => AckComing
  BY <1>1 DEF AckComing, Acking
<1>4. name = "SB_ACK" => AckComing
  BY <1>1 DEF AckComing
<1>. HIDE DEF m
<1>5. TimerCurrent'
  BY <1>2 DEF TimerCurrent
<1>6. TimerAhead'
  <2>1. TimerAhead
    BY DEF PlanInv, Timing
  <2>. HIDE DEF AckComing, Due
  <2>. QED
    BY <1>1, <1>3, <1>4, <2>1 DEF TimerAhead
<1>7. EndTogether'
  <2>1. rpc # "end"
    BY <1>1 DEF PlanInv, Timing, EndTogether
  <2>. QED
    BY <1>1, <1>2, <2>1 DEF EndTogether
<1>. QED
  BY <1>5, <1>6, <1>7 DEF Timing

(* What it must show for the reservations.                                 *)
LEMMA HandledBookings ==
  ASSUME PlanInv, NEW STATE name, NEW STATE j, Handle(name, j),
         bpc' \in {NextPc(stack'), "resume"},
         BookingsFree',
         name # "SB_RES" => req' = req,
         name = "SB_RES" => /\ \A r \in Requests : r # Message(name, j) => req'[r] = req[r]
                            /\ req'[Message(name, j)] \in {"SB_OK", "SB_KO"}
  PROVE  Bookings'
<1>. DEFINE m == Message(name, j)
<1>1. /\ bpc = "handle" /\ m \in stack /\ m.name = name /\ stack' = stack \ {m}
      /\ UNCHANGED <<clock, desc>>
  BY DEF Handle, Message
<1>2. /\ name # "SB_RES" => req' = req
      /\ name = "SB_RES" => /\ \A r \in Requests : r # m => req'[r] = req[r]
                            /\ req'[m] \in {"SB_OK", "SB_KO"}
  OBVIOUS
<1>. HIDE DEF m
<1>3. ASSUME NEW r \in Requests, r.name = "SB_RES"
      PROVE  IF r = m THEN req'[r] \in {"SB_OK", "SB_KO"} ELSE req'[r] = req[r]
  BY <1>1, <1>2, <1>3
<1>4. \A r \in Asked' : r \in Asked /\ req'[r] = req[r]
  BY <1>3 DEF Asked
<1>5. BookingsOpen'
  BY <1>1, <1>4 DEF PlanInv, Bookings, BookingsOpen, CircularWait
<1>6. BookingsHeld'
  BY <1>1, <1>3 DEF PlanInv, Bookings, BookingsHeld
<1>7. StackHandled'
  BY <1>1 DEF StackHandled, NextPc
<1>. QED
  BY <1>5, <1>6, <1>7 DEF Bookings

(* schedule_task plans a job of the file, from now on, and traces it.      *)
LEMMA ScheduleTaskPlan ==
  ASSUME PlanInv, NEW j \in Jobs, ScheduleTask(j)
  PROVE  Timing' /\ Bookings' /\ Tracing'
<1>1. /\ Handle("SB_TASK", j) /\ bpc' = NextPc(stack')
      /\ UNCHANGED <<state, reserved, req, clock, desc>>
  BY DEF ScheduleTask, Handle
<1>2. /\ gantt \in Tables /\ queues \in [Queues -> Seq(Jobs)] /\ clock \in Nat
      /\ desc \in [Jobs -> Descriptions]
  BY DEF PlanInv, TableInv, TypeInv, TypeOK
<1>3. /\ TableInv /\ TypeInv /\ BookingsFree /\ Filed /\ PlannedTraced
      /\ NoneMissed /\ ~ CircularWait
  BY <1>1 DEF PlanInv, TableInv, Timing, Bookings, Tracing, Handle, CircularWait
<1>4. CASE ~ (desc[j].procs =< NbNodes /\ DeadlineOpen(j))
  <2>1. UNCHANGED <<queues, gantt>>
    BY <1>4 DEF ScheduleTask
  <2>2. Due' = Due /\ Asked' = Asked
    BY <1>1, <2>1 DEF Due, Startable, Absent, Asked
  <2>3. NoneMissed' /\ \A x \in Due : x \in Due' /\ gantt'.start[x] = gantt.start[x]
    BY <1>1, <1>3, <2>1, <2>2 DEF NoneMissed
  <2>4. BookingsFree'
    BY <1>1, <1>3, <2>1, <2>2 DEF BookingsFree, Absent
  <2>5. Tracing'
    BY <1>1, <1>3, <2>1, <2>2 DEF Tracing, Filed, PlannedTraced, TracedAt, QueueOf
  <2>. QED
    BY <1>1, <2>3, <2>4, <2>5, HandledTiming, HandledBookings
<1>5. CASE desc[j].procs =< NbNodes /\ DeadlineOpen(j)
  <2>. DEFINE w == QueueOf(j)
              nb == desc[j].procs
              h == gantt'
  <2>1. /\ queues' = [queues EXCEPT ![w] = Append(@, j)]
        /\ h = Accept(gantt, j, Schedule(Plugin, gantt, j, nb, clock))
    BY <1>5 DEF ScheduleTask
  <2>2. w \in Queues
    BY <1>2, QueueOfType
  <2>3. nb \in 1 .. NbNodes
    BY <1>2, <1>5, NbNodesAssumption DEF Descriptions
  <2>4. j \in Coming
    BY <1>1, <1>3, HandledComing
  <2>5. Absent(gantt, j)
    BY <1>3, <2>4 DEF TableInv, Fresh
  <2>6. h \in Tables
    BY <1>3, ScheduleTaskTyped DEF TypeInv, TypeOK
  <2>. HIDE DEF nb, h
  <2>7. (\A x \in Jobs : x # j => Slot(h, x) = Slot(gantt, x)) /\ Given(h, j, nb, clock)
    BY <1>2, <2>1, <2>3, <2>5, ScheduleSlots
  <2>8. \A x \in Jobs : x # j =>
          (Absent(h, x) <=> Absent(gantt, x)) /\ h.start[x] = gantt.start[x]
    BY <1>2, <2>6, <2>7, SameSlot
  <2>9. h.start[j] >= clock
    BY <2>7 DEF Given
  <2>10. Due' \subseteq Due \cup {j} /\ Due \subseteq Due' /\ j \notin Due
    BY <1>1, <2>5, <2>8 DEF Due, Startable, Absent, NotIn, h
  <2>11. NoneMissed'
    BY <1>1, <1>3, <2>8, <2>9, <2>10 DEF NoneMissed, Due, Startable, h
  <2>12. \A x \in Due : x \in Due' /\ gantt'.start[x] = gantt.start[x]
    BY <2>8, <2>10 DEF Due, Startable, h
  <2>13. PICK k \in 1 .. Len(Load) : Load[k] = j
    <3>1. Message("SB_TASK", j) \in stack
      BY <1>1 DEF Handle
    <3>. QED
      BY <1>3, <3>1 DEF TableInv, StackLoaded, Message
  <2>14. BookingsFree'
    <3>1. ASSUME NEW r \in Asked' PROVE Absent(h, r.job) /\ h.start[r.job] = desc[r.job].start
      <4>1. r \in Asked /\ r \in Requests /\ r.name = "SB_RES"
        BY <1>1 DEF Asked
      <4>2. r.job # j /\ r.job \in Jobs
        BY <2>13, <4>1, LoadOnceAssumption, RequestsAssumption
      <4>. QED
        BY <1>3, <2>8, <4>1, <4>2 DEF BookingsFree
    <3>. QED
      BY <1>1, <3>1 DEF BookingsFree, Absent, NotIn, h
  <2>15. \A p \in Queues : \A x : Holds(queues'[p], x) <=> Holds(queues[p], x) \/ (p = w /\ x = j)
    <3>1. \A p \in Queues : queues'[p] = IF p = w THEN Append(queues[w], j) ELSE queues[p]
      BY <1>2, <2>1
    <3>. HIDE DEF w
    <3>. QED
      BY <1>2, <2>2, <3>1, AppendHolds
  <2>16. \A x : QueueOf(x)' = QueueOf(x)
    BY <1>1 DEF QueueOf
  <2>17. Filed'
    <3>1. ASSUME NEW p \in Queues, NEW x \in Jobs, Holds(queues'[p], x)
          PROVE  p = QueueOf(x) /\ \E i \in 1 .. Len(Load) : Load[i] = x
      BY <1>3, <2>13, <2>15, <3>1 DEF Filed
    <3>. QED
      BY <2>16, <3>1 DEF Filed
  <2>18. PlannedTraced'
    <3>1. ASSUME NEW x \in Jobs, x \in Due' \/ state[x] \in Running
          PROVE  Holds(reserved, x) \/ Holds(queues'[QueueOf(x)], x)
      <4>1. QueueOf(x) \in Queues
        BY <1>2, QueueOfType
      <4>2. CASE x = j
        BY <2>2, <2>15, <4>2
      <4>3. CASE x # j
        <5>1. TracedAt(x)
          BY <1>3, <2>10, <3>1, <4>3 DEF PlannedTraced
        <5>. QED
          BY <2>15, <4>1, <5>1 DEF TracedAt
      <4>. QED
        BY <4>2, <4>3
    <3>. QED
      BY <1>1, <2>16, <3>1 DEF PlannedTraced, TracedAt, QueueOf
  <2>. QED
    BY <1>1, <2>11, <2>12, <2>14, <2>17, <2>18, HandledTiming, HandledBookings DEF Tracing
<1>. QED
  BY <1>4, <1>5

(* reserve_slot answers a request whose date is not over; its job had no   *)
(* slot, and gets the one it asked for or none.                            *)
LEMMA ReserveSlotPlan ==
  ASSUME PlanInv, NEW j \in Jobs, ReserveSlot(j)
  PROVE  Timing' /\ Bookings' /\ Tracing'
<1>. DEFINE r == Message("SB_RES", j)
            nb == desc[j].procs
            date == EarliestStart(gantt, nb, gantt.start[j], gantt.wall[j])
            bid == CbfBid(gantt, nb, date, gantt.wall[j])
            h == gantt'
<1>1. /\ Handle("SB_RES", j) /\ bpc' = "resume"
      /\ UNCHANGED <<state, queues, clock, desc>>
  BY DEF ReserveSlot, Handle
<1>2. /\ gantt \in Tables /\ clock \in Nat /\ desc \in [Jobs -> Descriptions]
      /\ desc \in Workloads /\ req \in [Requests -> {"new", "sent", "await"} \cup Answers]
      /\ reserved \in Seq(Jobs) /\ queues \in [Queues -> Seq(Jobs)]
  BY DEF PlanInv, TableInv, TypeInv, TypeOK
<1>3. /\ TableInv /\ TypeInv /\ NoneMissed /\ Filed /\ PlannedTraced
      /\ BookingsFree /\ BookingsOpen /\ BookingsHeld /\ ~ CircularWait
  BY <1>1 DEF PlanInv, TableInv, Timing, Bookings, Tracing, Handle, CircularWait
<1>4. r \in Requests /\ r \in stack /\ r.name = "SB_RES" /\ r.job = j
  <2>1. r \in Requests
    BY <1>1, <1>3, HandleTyped DEF RequestKinds
  <2>. QED
    BY <1>1, <2>1 DEF Handle, Message
<1>. HIDE DEF r
<1>5. r \in Asked /\ req[r] = "await"
  BY <1>3, <1>4 DEF Asked, BookingsHeld
<1>6. Absent(gantt, j) /\ gantt.start[j] = desc[j].start /\ desc[j].start >= clock
  BY <1>3, <1>4, <1>5 DEF BookingsFree, BookingsOpen
<1>7. /\ \A q \in Requests : q # r => req'[q] = req[q]
      /\ req'[r] \in {"SB_OK", "SB_KO"}
  BY <1>2, <1>4 DEF ReserveSlot, r
<1>8. Asked' \subseteq Asked \ {r}
  BY <1>7 DEF Asked
<1>9. \A x : x \in Jobs /\ (\E q \in Asked' : q.job = x) => x # j
  <2>1. ASSUME NEW q \in Asked' PROVE q.job # j
    <3>1. q \in Requests /\ q.name = "SB_RES" /\ q # r
      BY <1>8 DEF Asked
    <3>2. q = Message(q.name, q.job)
      BY <3>1, RequestsAssumption DEF Message
    <3>. QED
      BY <3>1, <3>2 DEF r
  <2>. QED
    BY <2>1
<1>10. \A q \in Asked' : q.job \in Jobs /\ q \in Asked
  BY <1>8, RequestsAssumption DEF Asked
<1>11. CASE date # gantt.start[j]
  <2>1. UNCHANGED <<gantt, reserved>>
    BY <1>11 DEF ReserveSlot
  <2>2. Due' = Due
    BY <1>1, <2>1 DEF Due, Startable, Absent
  <2>3. NoneMissed' /\ \A x \in Due : x \in Due' /\ gantt'.start[x] = gantt.start[x]
    BY <1>1, <1>3, <2>1, <2>2 DEF NoneMissed
  <2>4. BookingsFree'
    BY <1>1, <1>3, <1>10, <2>1 DEF BookingsFree, Absent
  <2>5. Tracing'
    BY <1>1, <1>3, <2>1, <2>2 DEF Tracing, Filed, PlannedTraced, TracedAt, QueueOf
  <2>. QED
    BY <1>1, <1>7, <2>3, <2>4, <2>5, HandledTiming, HandledBookings DEF r
<1>12. CASE date = gantt.start[j]
  <2>1. h = Accept(gantt, j, bid) /\ reserved' = Append(reserved, j)
    BY <1>12 DEF ReserveSlot
  <2>2. h \in Tables
    BY <1>3, ReserveSlotTyped DEF TypeInv, TypeOK
  <2>3. nb \in 1 .. NbNodes
    <3>1. nb =< NbNodes
      BY <1>2, <1>4, ReservationAssumption
    <3>2. nb \in Nat \ {0}
      BY <1>2 DEF Descriptions
    <3>. QED
      BY <3>1, <3>2, NbNodesAssumption
  <2>4. date \in Nat /\ bid.start = EarliestStart(gantt, nb, date, gantt.wall[j])
    BY <1>2, <1>12 DEF Tables, CbfBid
  <2>5. bid.start = date
    BY <1>12, <2>4
  <2>. HIDE DEF nb, date, h
  <2>6. BidFits(gantt, bid)
    BY <1>2, <2>3, <2>4, CbfBidFits
  <2>. HIDE DEF bid
  <2>7. /\ \A x \in Jobs : x # j => Slot(h, x) = Slot(gantt, x)
        /\ h.start[j] = bid.start
    BY <1>2, <2>1, <2>6, AcceptSlots
  <2>8. \A x \in Jobs : x # j =>
          (Absent(h, x) <=> Absent(gantt, x)) /\ h.start[x] = gantt.start[x]
    BY <1>2, <2>2, <2>7, SameSlot
  <2>9. h.start[j] >= clock
    BY <1>6, <1>12, <2>5, <2>7
  <2>10. Due' \subseteq Due \cup {j} /\ Due \subseteq Due' /\ j \notin Due
    BY <1>1, <1>6, <2>8 DEF Due, Startable, Absent, NotIn, h
  <2>11. NoneMissed'
    BY <1>1, <1>3, <2>8, <2>9, <2>10 DEF NoneMissed, Due, Startable, h
  <2>12. \A x \in Due : x \in Due' /\ gantt'.start[x] = gantt.start[x]
    BY <2>8, <2>10 DEF Due, Startable, h
  <2>13. BookingsFree'
    <3>1. ASSUME NEW q \in Asked' PROVE Absent(h, q.job) /\ h.start[q.job] = desc[q.job].start
      BY <1>3, <1>9, <1>10, <2>8 DEF BookingsFree
    <3>. QED
      BY <1>1, <3>1 DEF BookingsFree, Absent, NotIn, h
  <2>14. Filed'
    BY <1>1, <1>3 DEF Filed, QueueOf
  <2>15. PlannedTraced'
    <3>1. ASSUME NEW x \in Jobs, x \in Due' \/ state[x] \in Running
          PROVE  Holds(reserved', x) \/ Holds(queues[QueueOf(x)], x)
      <4>1. Holds(reserved', x) <=> x = j \/ Holds(reserved, x)
        BY <1>2, <2>1, AppendHolds
      <4>2. x # j => TracedAt(x)
        BY <1>3, <2>10, <3>1 DEF PlannedTraced
      <4>. QED
        BY <4>1, <4>2 DEF TracedAt
    <3>. QED
      BY <1>1, <3>1 DEF PlannedTraced, TracedAt, QueueOf
  <2>. QED
    BY <1>1, <1>7, <2>11, <2>12, <2>13, <2>14, <2>15, HandledTiming, HandledBookings
       DEF Tracing, r
<1>. QED
  BY <1>11, <1>12

(* check_ACK and its rescheduling, as the slots of the other jobs see it.  *)
LEMMA CheckAckSlots ==
  ASSUME TableInv, NEW j \in Jobs, CheckAck(j)
  PROVE  LET waiting == {x \in Jobs : state'[x] = "WAITING"}
             movable == {x \in waiting : DeadlineOpen(x)}
         IN  Replanned(gantt', DeleteDone(gantt, j), waiting,
                       {x \in movable : ~ Untraced(queues', x)}, Procs, clock)
<1>. DEFINE waiting == {i \in Jobs : state'[i] = "WAITING"}
            movable == {i \in waiting : DeadlineOpen(i)}
            g == DeleteDone(gantt, j)
            qs == queues'
<1>1. /\ Untrace(j) /\ gantt' = Reschedule(Plugin, g, qs, waiting, movable, Procs, clock)
  BY DEF CheckAck, Rescheduled
<1>2. TypeInv'
  BY CheckAckTyped DEF TableInv
<1>3. gantt \in Tables /\ AllOrdered(gantt) /\ clock \in Nat /\ qs \in [Queues -> Seq(Jobs)]
  BY <1>2 DEF TableInv, TypeInv, TypeOK
<1>4. g \in Tables /\ AllOrdered(g)
  BY <1>3, DeleteDoneOrdered, DeleteDoneTyped
<1>5. Once(qs)
  BY <1>1, UntraceOnce
<1>6. qs \in Seq(Seq(Jobs)) /\ Len(qs) = NbQueues /\ 1 .. Len(qs) = Queues
  BY <1>3, QueuesLen
<1>7. MovableFit(qs, movable, Procs)
  <2>1. ASSUME NEW p \in 1 .. Len(qs), NEW i \in 1 .. Len(qs[p])
        PROVE  Procs[qs[p][i]] \in 1 .. NbNodes
    <3>1. p \in Queues /\ qs[p][i] \in Jobs
      BY <1>3, <1>6, ElementOfSeq
    <3>2. desc[qs[p][i]].procs \in Nat \ {0}
      BY <3>1 DEF TableInv, TypeInv, TypeOK, Descriptions
    <3>3. desc[qs[p][i]].procs =< NbNodes
      BY <1>1, <3>1, UntraceTyped DEF TableInv, TypeInv
    <3>. QED
      BY <3>1, <3>2, <3>3, NbNodesAssumption DEF Procs
  <2>. HIDE DEF movable, qs
  <2>. QED
    BY <2>1 DEF MovableFit
<1>8. movable \subseteq waiting
  OBVIOUS
<1>. HIDE DEF waiting, movable, g, qs
<1>9. Replanned(gantt', g, waiting, {x \in movable : ~ Untraced(qs, x)}, Procs, clock)
  BY <1>1, <1>3, <1>4, <1>5, <1>6, <1>7, <1>8, RescheduleSlots
<1>. QED
  BY <1>9 DEF waiting, movable, g, qs

(* check_ACK plans the waiting jobs again, from now on, if they are traced.*)
LEMMA CheckAckPlan ==
  ASSUME PlanInv, NEW j \in Jobs, CheckAck(j)
  PROVE  Timing' /\ Bookings' /\ Tracing'
<1>. DEFINE waiting == {x \in Jobs : state'[x] = "WAITING"}
            movable == {x \in waiting : DeadlineOpen(x)}
            S == {x \in movable : ~ Untraced(queues', x)}
            g == DeleteDone(gantt, j)
            h == gantt'
<1>1. /\ Handle("SB_ACK", j) /\ bpc' = NextPc(stack') /\ Untrace(j)
      /\ state' = [state EXCEPT ![j] = "DONE"]
      /\ UNCHANGED <<req, clock, desc>>
  BY DEF CheckAck, Handle
<1>2. /\ TableInv /\ TypeInv /\ BookingsFree /\ Filed /\ PlannedTraced
      /\ NoneMissed /\ ~ CircularWait
  BY <1>1 DEF PlanInv, TableInv, Timing, Bookings, Tracing, Handle, CircularWait
<1>3. TypeInv'
  BY <1>2, CheckAckTyped
<1>4. /\ gantt \in Tables /\ state \in [Jobs -> JobStates] /\ clock \in Nat
      /\ desc \in [Jobs -> Descriptions] /\ h \in Tables
      /\ queues \in [Queues -> Seq(Jobs)] /\ queues' \in [Queues -> Seq(Jobs)]
  BY <1>2, <1>3 DEF TypeInv, TypeOK
<1>5. Replanned(h, g, waiting, S, Procs, clock)
  BY <1>2, CheckAckSlots
<1>6. g \in Tables /\ \A x \in Jobs : x # j => Slot(g, x) = Slot(gantt, x)
  BY <1>4, DeleteDoneSlots, DeleteDoneTyped
<1>7. \A x \in Jobs : state'[x] = IF x = j THEN "DONE" ELSE state[x]
  BY <1>1, <1>4
<1>8. S \subseteq waiting /\ waiting \subseteq Jobs \ {j} /\ \A x \in S : ~ Untraced(queues', x)
  BY <1>7
<1>9. \A x : x \in waiting <=> x \in Jobs /\ state'[x] = "WAITING"
  OBVIOUS
<1>10. \A x \in Jobs : Procs[x] \in Nat \ {0}
  BY <1>4 DEF Procs, Descriptions
<1>. HIDE DEF waiting, S, g, h
<1>11. ASSUME NEW x \in S PROVE h.start[x] >= clock
  BY <1>5, <1>8, <1>11 DEF Replanned, Given
<1>12. ASSUME NEW x \in waiting, x \notin S PROVE Absent(h, x) /\ h.start[x] = gantt.start[x]
  <2>1. x \in Jobs /\ x # j /\ Absent(h, x) /\ h.start[x] = g.start[x]
    BY <1>5, <1>8, <1>12 DEF Replanned
  <2>. QED
    BY <1>4, <1>6, <2>1, SameSlot
<1>13. ASSUME NEW x \in Jobs, x # j, x \notin waiting
       PROVE  (Absent(h, x) <=> Absent(gantt, x)) /\ h.start[x] = gantt.start[x]
  <2>1. Slot(h, x) = Slot(gantt, x)
    BY <1>5, <1>6, <1>13 DEF Replanned
  <2>. QED
    BY <1>4, <2>1, SameSlot
<1>14. ASSUME NEW x \in Due'
       PROVE  x \in Jobs /\ x # j /\ (x \in S \/ (x \in Due /\ x \notin waiting))
  <2>1. x \in Jobs /\ state'[x] \in {"WAITING", "RESERVED"} /\ ~ Absent(h, x)
    BY <1>14 DEF Due, Startable, Absent, NotIn, h
  <2>2. x # j
    BY <1>7, <2>1
  <2>3. x \notin S => x \notin waiting
    BY <1>12, <2>1
  <2>4. x \notin waiting => x \in Due
    BY <1>7, <1>13, <2>1, <2>2 DEF Due, Startable
  <2>5. x \in S => x \in waiting
    BY <1>8
  <2>. QED
    BY <2>1, <2>2, <2>3, <2>4
<1>15. NoneMissed'
  <2>1. ASSUME NEW x \in Due' PROVE h.start[x] >= clock
    BY <1>2, <1>11, <1>13, <1>14 DEF NoneMissed
  <2>. QED
    BY <1>1, <2>1 DEF NoneMissed, h
<1>16. BookingsFree'
  <2>1. ASSUME NEW r \in Asked' PROVE Absent(h, r.job) /\ h.start[r.job] = desc[r.job].start
    <3>. DEFINE x == r.job
    <3>1. r \in Asked /\ r \in Requests /\ r.name = "SB_RES" /\ x \in Jobs
      BY <1>1, RequestsAssumption DEF Asked
    <3>2. Absent(gantt, x) /\ gantt.start[x] = desc[x].start
      BY <1>2, <3>1 DEF BookingsFree
    <3>3. Untraced(queues, x)
      <4>1. \A k \in 1 .. Len(Load) : Load[k] # x
        BY <3>1, LoadOnceAssumption
      <4>. HIDE DEF x
      <4>2. \A p \in Queues : ~ Holds(queues[p], x)
        BY <1>2, <3>1, <4>1 DEF Filed
      <4>. QED
        BY <1>4, <4>2, UntracedHolds
    <3>. HIDE DEF x
    <3>4. Untraced(queues', x)
      BY <1>1, <1>2, <3>3, UntraceOnce
    <3>5. x \notin S
      BY <1>8, <3>4
    <3>6. Absent(g, x) /\ g.start[x] = gantt.start[x]
      BY <1>2, <1>4, <3>2, DeleteDoneOrdered DEF TableInv, DeleteDone, g, Tables
    <3>7. ASSUME x \in waiting PROVE Absent(h, x) /\ h.start[x] = desc[x].start
      BY <1>1, <1>12, <3>2, <3>5, <3>7
    <3>8. ASSUME x \notin waiting PROVE Absent(h, x) /\ h.start[x] = desc[x].start
      <4>1. Slot(h, x) = Slot(g, x)
        BY <1>5, <3>1, <3>8 DEF Replanned
      <4>. QED
        BY <1>1, <1>4, <1>6, <3>2, <3>6, <4>1, SameSlot
    <3>. QED
      BY <3>7, <3>8 DEF x
  <2>. QED
    BY <1>1, <2>1 DEF BookingsFree, Absent, NotIn, h
<1>17. /\ \A p \in Queues : \A x : Holds(queues'[p], x) => Holds(queues[p], x)
       /\ \A p \in Queues : \A x : x # j /\ Holds(queues[p], x) => Holds(queues'[p], x)
       /\ \A x : x # j /\ Holds(reserved, x) => Holds(reserved', x)
  BY <1>1, <1>2, UntraceHolds
<1>18. \A x : QueueOf(x)' = QueueOf(x)
  BY <1>1 DEF QueueOf
<1>19. Filed'
  BY <1>2, <1>17, <1>18 DEF Filed
<1>20. PlannedTraced'
  <2>1. ASSUME NEW x \in Jobs, x \in Due' \/ state'[x] \in Running
        PROVE  Holds(reserved', x) \/ Holds(queues'[QueueOf(x)], x)
    <3>1. QueueOf(x) \in Queues
      BY <1>4, QueueOfType
    <3>2. CASE x # j /\ (x \in Due \/ state'[x] \in Running)
      <4>1. TracedAt(x)
        BY <1>2, <1>7, <3>2 DEF PlannedTraced
      <4>. QED
        BY <1>17, <3>1, <3>2, <4>1 DEF TracedAt
    <3>3. CASE x \in S
      <4>1. PICK p \in Queues : Holds(queues'[p], x)
        BY <1>4, <1>8, <3>3, UntracedHolds
      <4>2. p = QueueOf(x)
        BY <1>2, <1>17, <4>1 DEF Filed
      <4>. QED
        BY <4>1, <4>2
    <3>. QED
      BY <1>7, <1>14, <2>1, <3>2, <3>3 DEF Running
  <2>. QED
    BY <1>18, <2>1 DEF PlannedTraced, TracedAt
<1>. QED
  BY <1>1, <1>15, <1>16, <1>19, <1>20, HandledTiming, HandledBookings DEF Tracing

-----------------------------------------------------------------------------
(* The steps that leave the table and its traces alone.                    *)

(* OnTime and StartsOnPlan, for one step.                                  *)
OnTimeStep ==
  clock' # clock /\ ~ CircularWait => \A n \in Nodes : \A j \in Planned(gantt, n) \cap Startable :
    gantt.start[j] >= clock'

StartsOnPlanStep ==
  \A j \in Jobs : state[j] # "PROCESSING" /\ state'[j] = "PROCESSING" =>
    clock = gantt.start[j] /\ NodesOf(j) # {}

(* What is due is on a node.                                               *)
LEMMA DuePlanned ==
  ASSUME gantt \in Tables
  PROVE  /\ \A j \in Due : j \in Startable /\ NodesOf(j) # {}
         /\ \A n \in Nodes : Planned(gantt, n) \cap Startable \subseteq Due
BY PlannedNotIn DEF Due, Absent, NodesOf

(* Nothing is planned or traced: a job only runs when it was due.          *)
LEMMA QuietTracing ==
  ASSUME PlanInv, UNCHANGED <<gantt, queues, reserved, desc>>, Due' \subseteq Due,
         \A j \in Jobs : state'[j] \in Running => state[j] \in Running \/ j \in Due
  PROVE  Tracing'
<1>1. Filed /\ PlannedTraced
  BY DEF PlanInv, Tracing
<1>2. Filed'
  BY <1>1 DEF Filed, QueueOf
<1>3. PlannedTraced'
  BY <1>1 DEF PlannedTraced, TracedAt, QueueOf
<1>. QED
  BY <1>2, <1>3 DEF Tracing

(* No job changes either, and the servers do not end.                      *)
LEMMA QuietTiming ==
  ASSUME PlanInv, UNCHANGED <<clock, gantt, rmJob, rmWake>>, Due' = Due,
         rpc' = rpc \/ rpc' \in {"drain", "next"},
         CircularWait => CircularWait',
         rpc # "end" /\ rpc' # "end" /\ bpc' # "end",
         bpc' \in {"recv", "drain"} => bpc \in {"recv", "drain"} \/ rpc' = "drain",
         rpc' = "wait" /\ AckComing' => AckComing
  PROVE  Timing'
<1>1. TimerCurrent /\ TimerAhead /\ NoneMissed
  BY DEF PlanInv, Timing
<1>. HIDE DEF Due, AckComing
<1>2. TimerCurrent'
  BY <1>1 DEF TimerCurrent, TimerMatches
<1>3. TimerAhead'
  BY <1>1 DEF TimerAhead
<1>4. NoneMissed' /\ EndTogether'
  BY <1>1 DEF NoneMissed, EndTogether
<1>. QED
  BY <1>2, <1>3, <1>4 DEF Timing

(* get_task: a message moves from a mailbox to the stack.                  *)
LEMMA BatchTakesPlan ==
  ASSUME PlanInv, NEW STATE name, NEW STATE j, BatchTakes(Message(name, j)), ~ CircularWait,
         name \in RequestKinds => Message(name, j) \in Requests,
         name \in RequestKinds =>
           req[Message(name, j)] = "sent" /\ req' = [req EXCEPT ![Message(name, j)] = "await"],
         name \notin RequestKinds => req' = req,
         name = "SB_ACK" => Acking,
         Acking' => Acking
  PROVE  Timing' /\ Bookings' /\ Tracing'
<1>. DEFINE m == Message(name, j)
<1>1. /\ bpc \in {"recv", "drain"} /\ bpc' = "drain" /\ stack' = stack \cup {m}
      /\ m.name = name
      /\ UNCHANGED <<clock, desc, state, gantt, queues, reserved, rpc, rmJob, rmWake>>
  BY DEF BatchTakes, Message, clusterVars, rmVars
<1>2. Due' = Due
  BY <1>1 DEF Due, Startable, Absent
<1>3. req \in [Requests -> {"new", "sent", "await"} \cup Answers]
  BY DEF PlanInv, TableInv, TypeInv, TypeOK
<1>4. /\ name \in RequestKinds => m \in Requests
      /\ name \in RequestKinds => req[m] = "sent" /\ req' = [req EXCEPT ![m] = "await"]
  OBVIOUS
<1>5. AckComing' => AckComing
  BY <1>1 DEF AckComing
<1>. HIDE DEF m
<1>6. rpc # "end"
  BY <1>1 DEF PlanInv, Timing, EndTogether
<1>7. Timing'
  BY <1>1, <1>2, <1>5, <1>6, QuietTiming
<1>8. /\ \A r \in Requests : r # m => req'[r] = req[r]
      /\ m \in Requests /\ name \in RequestKinds => req[m] = "sent" /\ req'[m] = "await"
      /\ m \in Requests => name \in RequestKinds
  BY <1>1, <1>3, <1>4, RequestsAssumption
<1>9. Asked' = Asked
  BY <1>8 DEF Asked
<1>10. BookingsFree'
  BY <1>1, <1>9 DEF PlanInv, Bookings, BookingsFree, Absent
<1>11. BookingsOpen'
  <2>1. \A r \in Asked : r \in Requests /\ (req'[r] # "new" => req[r] # "new")
    BY <1>8 DEF Asked
  <2>. QED
    BY <1>1, <1>9, <2>1 DEF PlanInv, Bookings, BookingsOpen
<1>12. BookingsHeld'
  <2>1. ASSUME NEW r \in Requests, r.name = "SB_RES"
        PROVE  req'[r] = "await" <=> r \in stack'
    BY <1>1, <1>8, <2>1 DEF PlanInv, Bookings, BookingsHeld
  <2>. QED
    BY <2>1 DEF BookingsHeld
<1>13. StackHandled'
  BY <1>1 DEF StackHandled
<1>14. Tracing'
  BY <1>1, <1>2, QuietTracing
<1>. QED
  BY <1>7, <1>10, <1>11, <1>12, <1>13, <1>14 DEF Bookings

(* The batch receives; it never waits for a client without SB_CANCEL.      *)
LEMMA BatchStepPlan ==
  ASSUME PlanInv, BatchStep, ~ CircularWait
  PROVE  Timing' /\ Bookings' /\ Tracing'
<1>. USE DEF RequestKinds
<1>1. ASSUME NEW s \in Sups, ReceiveAck(s) PROVE Timing' /\ Bookings' /\ Tracing'
  <2>1. spc[s] = "ack" /\ spc' = [spc EXCEPT ![s] = "idle"] /\ req' = req
    BY <1>1 DEF ReceiveAck, AckPending
  <2>2. spc \in [Sups -> SupPcs]
    BY DEF PlanInv, TableInv, TypeInv, TypeOK
  <2>3. Acking
    BY <2>1 DEF Acking
  <2>4. BatchTakes(Message("SB_ACK", sjob[s]))
    BY <1>1 DEF ReceiveAck
  <2>. QED
    BY <2>1, <2>3, <2>4, BatchTakesPlan
<1>2. CASE ReceiveTask
  <2>1. UNCHANGED <<spc, req>> /\ BatchTakes(Message("SB_TASK", Load[loadPos]))
    BY <1>2 DEF ReceiveTask, supVars
  <2>2. Acking' => Acking
    BY <2>1 DEF Acking
  <2>. QED
    BY <2>1, <2>2, BatchTakesPlan
<1>3. ASSUME NEW r \in Requests, ReceiveRequest(r) PROVE Timing' /\ Bookings' /\ Tracing'
  <2>1. /\ UNCHANGED spc /\ BatchTakes(Message(r.name, r.job))
        /\ req[r] = "sent" /\ req' = [req EXCEPT ![r] = "await"]
    BY <1>3 DEF ReceiveRequest, RequestPending, supVars
  <2>2. Acking' => Acking
    BY <2>1 DEF Acking
  <2>3. r = Message(r.name, r.job) /\ r.name \in RequestKinds
    BY RequestsAssumption DEF Message
  <2>. QED
    BY <2>1, <2>2, <2>3, BatchTakesPlan
<1>4. CASE SortStack \/ Resume
  <2>1. /\ bpc \in {"drain", "resume"}
        /\ bpc' = "handle" \/ (bpc' = "update" /\ stack = {})
        /\ UNCHANGED <<clock, desc, state, gantt, queues, reserved, stack, rpc, rmJob, rmWake,
                       spc, req>>
    BY <1>4 DEF SortStack, Resume, NextPc, clusterVars, rmVars, supVars
  <2>2. Due' = Due /\ Asked' = Asked /\ (AckComing' => AckComing)
    BY <2>1 DEF Due, Startable, Absent, Asked, AckComing, Acking
  <2>3. rpc # "end"
    BY <2>1 DEF PlanInv, Timing, EndTogether
  <2>4. Timing'
    BY <2>1, <2>2, <2>3, QuietTiming
  <2>5. BookingsFree' /\ BookingsOpen' /\ BookingsHeld' /\ StackHandled'
    BY <2>1, <2>2 DEF PlanInv, Bookings, BookingsFree, BookingsOpen, BookingsHeld,
                      StackHandled, Absent
  <2>6. Tracing'
    BY <2>1, <2>2, QuietTracing
  <2>. QED
    BY <2>4, <2>5, <2>6 DEF Bookings
<1>5. ~ Reply
  BY DEF Reply, PlanInv, NoCancelPending
<1>. QED
  BY <1>1, <1>2, <1>3, <1>4, <1>5 DEF BatchStep

-----------------------------------------------------------------------------
(* The resource manager.                                                   *)

(* Nobody asks for anything, nothing is planned, the batch goes on.        *)
LEMMA QuietBookings ==
  ASSUME PlanInv, UNCHANGED <<clock, desc, gantt, stack, req>>, bpc' = bpc \/ bpc = "update",
         CircularWait => CircularWait'
  PROVE  Bookings'
<1>1. Asked' = Asked
  BY DEF Asked
<1>2. BookingsFree' /\ BookingsOpen' /\ BookingsHeld'
  BY <1>1 DEF PlanInv, Bookings, BookingsFree, BookingsOpen, BookingsHeld, Absent
<1>3. StackHandled'
  BY DEF PlanInv, Bookings, StackHandled
<1>. QED
  BY <1>2, <1>3 DEF Bookings

(* A job that was due is started, and leaves the jobs to start.            *)
LEMMA DispatchPlan ==
  ASSUME PlanInv, NEW STATE j, j \in Due, gantt.start[j] = clock, Dispatch(j, pool),
         UNCHANGED <<clock, desc, gantt, queues, reserved, bpc>>, bpc # "end", ~ CircularWait
  PROVE  Timing' /\ Tracing' /\ StartsOnPlanStep
<1>1. /\ rpc' = "run" /\ state' = [state EXCEPT ![j] = "PROCESSING"]
  BY DEF Dispatch
<1>2. state \in [Jobs -> JobStates] /\ gantt \in Tables
  BY DEF PlanInv, TableInv, TypeInv, TypeOK
<1>3. \A x \in Jobs : x # j => state'[x] = state[x]
  BY <1>1, <1>2
<1>4. j \in Jobs /\ NodesOf(j) # {}
  BY <1>2, DuePlanned DEF Startable
<1>5. Due' \subseteq Due
  BY <1>1, <1>2, <1>3, <1>4 DEF Due, Startable, Absent
<1>6. Timing'
  <2>1. TimerCurrent' /\ TimerAhead' /\ EndTogether'
    BY <1>1 DEF TimerCurrent, TimerAhead, EndTogether
  <2>2. NoneMissed'
    BY <1>5 DEF PlanInv, Timing, NoneMissed
  <2>. QED
    BY <2>1, <2>2 DEF Timing
<1>7. Tracing'
  BY <1>3, <1>5, QuietTracing
<1>8. StartsOnPlanStep
  BY <1>3, <1>4 DEF StartsOnPlanStep
<1>. QED
  BY <1>6, <1>7, <1>8

(* Of the jobs that are due the first is started, or waited for.           *)
LEMMA NextWakeupPlan ==
  ASSUME PlanInv, NextWakeup(pool), UNCHANGED <<clock, desc, gantt, queues, reserved, bpc>>,
         bpc # "end", ~ CircularWait
  PROVE  Timing' /\ Tracing' /\ StartsOnPlanStep
<1>. DEFINE S == NodesToStart(gantt, Startable)
            j == NextJob(gantt, Startable)
<1>1. /\ gantt \in Tables /\ AllOrdered(gantt) /\ clock \in Nat /\ NoneMissed
  BY DEF PlanInv, TableInv, TypeInv, TypeOK, Timing
<1>2. S = {} => Due = {}
  BY <1>1, NothingToStart DEF Due
<1>3. S # {} => /\ j \in Due
                /\ \A x \in Due : gantt.start[j] =< gantt.start[x]
  <2>1. ASSUME S # {} PROVE j \in Startable /\ ~ Absent(gantt, j)
    BY <1>1, <2>1, NextJobType, PlannedNotIn DEF Absent
  <2>2. ASSUME S # {}, NEW x \in Due PROVE gantt.start[j] =< gantt.start[x]
    BY <1>1, <2>2, NextJobFirst DEF Due
  <2>. QED
    BY <2>1, <2>2 DEF Due
<1>4. S # {} => gantt.start[j] \in Nat /\ gantt.start[j] >= clock
  BY <1>1, <1>3 DEF NoneMissed, Tables, Due, Startable
<1>. HIDE DEF S, j
<1>5. ASSUME rpc' = "wait", state' = state, TimerMatches', rmJob' # NoJob => rmWake' > clock
      PROVE  Timing' /\ Tracing' /\ StartsOnPlanStep
  <2>1. Due' = Due
    BY <1>5 DEF Due, Startable, Absent
  <2>2. TimerCurrent' /\ TimerAhead' /\ NoneMissed' /\ EndTogether'
    BY <1>1, <1>5, <2>1 DEF TimerCurrent, TimerAhead, NoneMissed, EndTogether
  <2>3. Tracing'
    BY <1>5, <2>1, QuietTracing
  <2>4. StartsOnPlanStep
    BY <1>5 DEF StartsOnPlanStep
  <2>. QED
    BY <2>2, <2>3, <2>4 DEF Timing
<1>6. CASE S = {}
  <2>1. rpc' = "wait" /\ rmJob' = NoJob /\ state' = state
    BY <1>6 DEF NextWakeup, S
  <2>2. TimerMatches'
    BY <1>2, <1>6, <2>1 DEF TimerMatches, Due, Startable, Absent
  <2>. QED
    BY <1>5, <2>1, <2>2
<1>7. CASE S # {} /\ gantt.start[j] =< clock
  <2>1. Dispatch(j, pool)
    BY <1>7 DEF NextWakeup, S, j
  <2>2. gantt.start[j] = clock
    BY <1>1, <1>4, <1>7
  <2>. QED
    BY <1>3, <1>7, <2>1, <2>2, DispatchPlan
<1>8. CASE S # {} /\ ~ (gantt.start[j] =< clock)
  <2>1. rpc' = "wait" /\ rmJob' = j /\ rmWake' = gantt.start[j] /\ state' = state
    BY <1>8 DEF NextWakeup, S, j
  <2>2. j # NoJob
    BY <1>3, <1>8, JobsAssumption DEF Due, Startable
  <2>3. TimerMatches'
    BY <1>3, <1>8, <2>1, <2>2 DEF TimerMatches, Due, Startable, Absent
  <2>4. rmWake' > clock
    BY <1>1, <1>4, <1>8, <2>1
  <2>. QED
    BY <1>5, <2>1, <2>3, <2>4
<1>. QED
  BY <1>6, <1>7, <1>8

(* The steps of the resource manager.                                      *)
LEMMA RmStepPlan ==
  ASSUME PlanInv, RmStep
  PROVE  Timing' /\ Bookings' /\ Tracing' /\ StartsOnPlanStep
<1>1. /\ UNCHANGED <<clock, desc, gantt, queues, reserved, stack, req>>
      /\ bpc' = bpc \/ (bpc = "update" /\ bpc' = "recv" /\ rpc' = "drain")
      /\ rpc # "end" /\ ~ CircularWait
  BY DEF RmStep, RmTimeout, TimerDue, ReceiveAttach, ReceiveUpdate, UpdatePending, RmDrained,
         RunTaken, RmNext, clusterVars, batchVars, CircularWait
<1>2. Bookings'
  BY <1>1, QuietBookings
<1>3. bpc # "end"
  BY <1>1 DEF PlanInv, Timing, EndTogether
<1>4. CASE RmTimeout
  <2>1. /\ rpc = "wait" /\ rmJob # NoJob /\ clock >= rmWake /\ Dispatch(rmJob, pool)
        /\ bpc' = bpc
    BY <1>4 DEF RmTimeout, TimerDue, batchVars
  <2>2. clock \in Nat /\ rmWake \in Nat
    BY DEF PlanInv, TableInv, TypeInv, TypeOK
  <2>3. rmJob \in Due /\ gantt.start[rmJob] = clock
    BY <2>1, <2>2 DEF PlanInv, Timing, TimerAhead
  <2>. QED
    BY <1>1, <1>2, <1>3, <2>1, <2>3, DispatchPlan
<1>5. CASE RmDrained \/ RmNext
  <2>1. NextWakeup(pool) /\ bpc' = bpc
    BY <1>5 DEF RmDrained, RmNext, batchVars
  <2>. QED
    BY <1>1, <1>2, <1>3, <2>1, NextWakeupPlan
<1>6. CASE (\E s \in Sups : ReceiveAttach(s)) \/ ReceiveUpdate \/ RunTaken
  <2>1. /\ rpc' = "drain" \/ (rpc' = "next" /\ bpc' = bpc)
        /\ UNCHANGED <<state, rmJob, rmWake>>
    BY <1>6 DEF ReceiveAttach, ReceiveUpdate, RunTaken, clusterVars, batchVars
  <2>2. Due' = Due
    BY <1>1, <2>1 DEF Due, Startable, Absent
  <2>3. Timing'
    <3>1. bpc' # "end"
      BY <1>1, <1>3
    <3>. QED
      BY <1>1, <2>1, <2>2, <3>1, QuietTiming
  <2>4. Tracing'
    BY <1>1, <2>1, <2>2, QuietTracing
  <2>5. StartsOnPlanStep
    BY <2>1 DEF StartsOnPlanStep
  <2>. QED
    BY <1>2, <2>3, <2>4, <2>5
<1>. QED
  BY <1>4, <1>5, <1>6 DEF RmStep

-----------------------------------------------------------------------------
(* The supervisors, the clients and time.                                  *)

(* A supervisor can only fail a job that has been started.                 *)
LEMMA SupervisePlan ==
  ASSUME PlanInv, NEW s \in Sups, Supervise(s), CircularWait => CircularWait'
  PROVE  Timing' /\ Bookings' /\ Tracing' /\ StartsOnPlanStep
<1>. DEFINE j == sjob[s]
<1>1. UNCHANGED <<clock, desc, gantt, queues, reserved, bpc, stack, req, rpc, rmJob, rmWake>>
  BY DEF Supervise, SupStart, NodeReceive, InputReceived, SupFinish, OutputReturned,
         TellBatch, SupFrame, batchVars, rmVars
<1>2. /\ spc[s] # "idle"
      /\ \E pc \in SupPcs : /\ spc' = [spc EXCEPT ![s] = pc]
                            /\ spc[s] = "told" \/ pc \notin {"told", "ack"}
  BY DEF Supervise, SupStart, NodeReceive, InputReceived, SupFinish, OutputReturned,
         TellBatch, Execute, SupPcs
<1>3. state' = state \/ state' = [state EXCEPT ![j] = "ERROR"]
  BY DEF Supervise, SupStart, NodeReceive, InputReceived, SupFinish, OutputReturned,
         TellBatch, Execute
<1>4. state \in [Jobs -> JobStates] /\ spc \in [Sups -> SupPcs]
  BY DEF PlanInv, TableInv, TypeInv, TypeOK
<1>5. j \in Jobs /\ state[j] \in Running
  BY <1>2, JobsAssumption DEF PlanInv, ExecInv, TypeInv, HoldersKnown, SupsSound
<1>. HIDE DEF j
<1>6. \A x \in Jobs : state'[x] = state[x] \/ (state[x] \in Running /\ state'[x] = "ERROR")
  BY <1>3, <1>4, <1>5
<1>7. Due' = Due
  BY <1>1, <1>6 DEF Due, Startable, Absent, Running
<1>8. AckComing' => AckComing
  BY <1>1, <1>2, <1>4 DEF AckComing, Acking
<1>9. Timing'
  <2>1. CASE rpc # "end" /\ bpc # "end"
    BY <1>1, <1>7, <1>8, <2>1, QuietTiming
  <2>2. CASE rpc = "end" \/ bpc = "end"
    <3>1. rpc = "end" /\ bpc = "end" /\ EndTogether /\ NoneMissed
      BY <2>2 DEF PlanInv, Timing, EndTogether
    <3>2. TimerCurrent' /\ TimerAhead'
      BY <1>1, <3>1 DEF TimerCurrent, TimerAhead
    <3>3. NoneMissed' /\ EndTogether'
      BY <1>1, <1>7, <3>1 DEF NoneMissed, EndTogether
    <3>. QED
      BY <3>2, <3>3 DEF Timing
  <2>. QED
    BY <2>1, <2>2
<1>10. Bookings'
  BY <1>1, QuietBookings
<1>11. Tracing'
  BY <1>1, <1>6, <1>7, QuietTracing DEF Running
<1>12. StartsOnPlanStep
  BY <1>6 DEF StartsOnPlanStep
<1>. QED
  BY <1>9, <1>10, <1>11, <1>12

(* Time passes when the servers wait for messages, or have ended.          *)
LEMMA NotBusy ==
  ASSUME PlanInv, ~ Busy, ~ CircularWait
  PROVE  /\ stack = {} /\ rpc # "run"
         /\ \/ rpc = "wait" /\ bpc = "recv" /\ ~ BatchMail /\ ~ RmMail /\ ~ TimerDue
            \/ rpc = "end" /\ bpc = "end" /\ Due = {}
<1>1. bpc \in BatchPcs /\ rpc \in RmPcs
  BY DEF PlanInv, TableInv, TypeInv, TypeOK
<1>2. EndTogether /\ StackHandled
  BY DEF PlanInv, Timing, Bookings
<1>3. bpc \in {"recv", "update", "end"} /\ (bpc = "recv" => ~ BatchMail)
  BY <1>1 DEF Busy, BatchPcs
<1>4. rpc \notin {"drain", "next"} /\ (rpc = "wait" => ~ RmMail /\ ~ TimerDue)
  BY DEF Busy
<1>5. rpc # "run"
  <2>. SUFFICES ASSUME rpc = "run" PROVE FALSE
    OBVIOUS
  <2>1. spc[rmSup] = "ack" /\ rmSup \in Sups
    BY DEF Busy, PlanInv, ExecInv, PoolSound, TypeInv, HoldersKnown
  <2>2. bpc # "update"
    BY <2>1 DEF CircularWait
  <2>3. bpc # "recv"
    BY <1>3, <2>1 DEF BatchMail, AckPending
  <2>4. bpc # "end"
    BY <1>2 DEF EndTogether
  <2>. QED
    BY <1>3, <2>2, <2>3, <2>4
<1>6. (rpc = "wait" /\ bpc = "recv") \/ (rpc = "end" /\ bpc = "end" /\ Due = {})
  BY <1>1, <1>2, <1>3, <1>4, <1>5 DEF RmPcs, RmMail, UpdatePending, EndTogether
<1>7. stack = {}
  BY <1>2, <1>6 DEF StackHandled
<1>. QED
  BY <1>3, <1>4, <1>5, <1>6, <1>7

(***************************************************************************)
(* Time passes only when the batch has nothing to receive, the resource    *)
(* manager sleeps and its timer is not over; then the timer is exact.      *)
(***************************************************************************)
LEMMA TickPlan ==
  ASSUME PlanInv, Tick, ~ CircularWait
  PROVE  Timing' /\ Bookings' /\ Tracing' /\ OnTimeStep
<1>1. /\ ~ Busy /\ clock' = clock + 1
      /\ UNCHANGED <<desc, state, gantt, queues, reserved, bpc, stack, req,
                     rpc, rmJob, rmWake, spc>>
  BY DEF Tick, clusterVars, batchVars, rmVars, supVars
<1>2. /\ clock \in Nat /\ rmWake \in Nat /\ bpc \in BatchPcs /\ rpc \in RmPcs
      /\ gantt \in Tables /\ desc \in [Jobs -> Descriptions]
  BY DEF PlanInv, TableInv, TypeInv, TypeOK
<1>3. /\ TimerCurrent /\ TimerAhead /\ EndTogether
      /\ BookingsFree /\ BookingsOpen /\ BookingsHeld /\ StackHandled
  BY DEF PlanInv, Timing, Bookings
<1>4. /\ stack = {} /\ rpc # "run"
      /\ \/ rpc = "wait" /\ bpc = "recv" /\ ~ BatchMail /\ ~ RmMail /\ ~ TimerDue
         \/ rpc = "end" /\ bpc = "end" /\ Due = {}
  BY <1>1, NotBusy
<1>9. ~ AckComing \/ rpc = "end"
  BY <1>1, <1>4 DEF AckComing, Acking, BatchMail, AckPending, Busy
<1>10. rpc = "wait" => TimerMatches /\ (rmJob # NoJob => rmWake > clock)
  BY <1>2, <1>3, <1>4 DEF TimerCurrent, TimerDue
<1>11. \A j \in Due : gantt.start[j] \in Nat
  BY <1>2 DEF Due, Startable, Tables
<1>12. \A j \in Due : gantt.start[j] >= clock + 1
  <2>1. ASSUME NEW j \in Due PROVE gantt.start[j] >= clock + 1
    <3>1. rmWake =< gantt.start[j] /\ rmWake > clock
      BY <1>4, <1>10 DEF TimerMatches
    <3>. QED
      BY <1>2, <1>11, <3>1
  <2>. QED
    BY <2>1
<1>13. Due' = Due /\ Asked' = Asked /\ (AckComing' => AckComing)
  BY <1>1 DEF Due, Startable, Absent, Asked, AckComing, Acking
<1>14. TimerMatches' <=> TimerMatches
  BY <1>1, <1>13 DEF TimerMatches
<1>15. Timing'
  <2>1. TimerCurrent'
    BY <1>1, <1>3, <1>14 DEF TimerCurrent
  <2>2. TimerAhead'
    <3>1. CASE rpc = "end"
      BY <1>1, <3>1 DEF TimerAhead
    <3>2. CASE rpc = "wait" /\ ~ AckComing
      <4>1. ~ AckComing'
        BY <1>13, <3>2
      <4>2. rmJob # NoJob => /\ rmWake > clock + 1 \/ rmWake = clock + 1
                             /\ rmJob \in Due /\ gantt.start[rmJob] = rmWake
        BY <1>2, <1>10, <3>2 DEF TimerMatches
      <4>. HIDE DEF AckComing, Due
      <4>. QED
        BY <1>1, <1>13, <4>1, <4>2 DEF TimerAhead
    <3>. QED
      BY <1>4, <1>9, <3>1, <3>2
  <2>3. NoneMissed' /\ EndTogether'
    BY <1>1, <1>3, <1>12, <1>13 DEF NoneMissed, EndTogether
  <2>. QED
    BY <2>1, <2>2, <2>3 DEF Timing
<1>16. BookingsOpen'
  <2>1. ASSUME NEW r \in Asked, req[r] # "new" PROVE FALSE
    <3>1. req[r] \in {"sent", "await"} /\ r \in Requests /\ r.name = "SB_RES"
      BY <2>1 DEF Asked
    <3>2. req[r] # "await"
      BY <1>3, <1>4, <3>1 DEF BookingsHeld
    <3>3. req[r] # "sent"
      BY <1>3, <1>4, <3>1 DEF BatchMail, RequestPending, EndTogether
    <3>. QED
      BY <3>1, <3>2, <3>3
  <2>. QED
    BY <1>1, <1>13, <2>1 DEF BookingsOpen
<1>17. BookingsFree' /\ BookingsHeld' /\ StackHandled'
  BY <1>1, <1>3, <1>13 DEF BookingsFree, BookingsHeld, StackHandled, Absent
<1>18. Tracing'
  BY <1>1, <1>13, QuietTracing
<1>19. OnTimeStep
  BY <1>1, <1>2, <1>12, DuePlanned DEF OnTimeStep
<1>. QED
  BY <1>15, <1>16, <1>17, <1>18, <1>19 DEF Bookings

(* In the circle time passes and nothing else is left of the plan.         *)
LEMMA StandingPlan ==
  ASSUME PlanInv, Tick, CircularWait, CircularWait'
  PROVE  Timing' /\ Bookings' /\ Tracing'
<1>1. UNCHANGED <<desc, state, gantt, queues, reserved, bpc, stack, req, rpc>>
  BY DEF Tick, clusterVars, batchVars, rmVars
<1>2. Due' = Due /\ Asked' = Asked
  BY <1>1 DEF Due, Startable, Absent, Asked
<1>3. Timing'
  BY DEF Timing, TimerCurrent, TimerAhead, NoneMissed, EndTogether, CircularWait
<1>4. Bookings'
  BY <1>1, <1>2 DEF PlanInv, Bookings, BookingsFree, BookingsOpen, BookingsHeld, StackHandled,
                    Absent
<1>5. Tracing'
  BY <1>1, <1>2, QuietTracing
<1>. QED
  BY <1>3, <1>4, <1>5

(* The servers end when no timer is set, hence nothing is planned.         *)
LEMMA EndOfTimePlan ==
  ASSUME PlanInv, EndOfTime
  PROVE  Timing' /\ Bookings' /\ Tracing'
<1>1. /\ ~ Busy /\ ~ Alive /\ bpc = "recv" /\ rpc = "wait" /\ bpc' = "end" /\ rpc' = "end"
      /\ UNCHANGED <<clock, desc, state, gantt, queues, reserved, stack, req>>
  BY DEF EndOfTime, clusterVars
<1>2. clock \in Nat /\ rmWake \in Nat
  BY DEF PlanInv, TableInv, TypeInv, TypeOK
<1>3. TimerMatches /\ NoneMissed /\ StackHandled
  BY <1>1 DEF PlanInv, Timing, TimerCurrent, Bookings
<1>4. rmJob = NoJob
  <2>. SUFFICES ASSUME rmJob # NoJob PROVE FALSE
    OBVIOUS
  <2>1. rmWake \in Timers
    BY <1>1 DEF Timers
  <2>2. ~ (rmWake > clock)
    BY <1>1, <2>1 DEF Alive
  <2>. QED
    BY <1>1, <1>2, <2>2 DEF Busy, TimerDue
<1>5. Due = {}
  BY <1>3, <1>4 DEF TimerMatches
<1>6. Due' = Due /\ Asked' = Asked
  BY <1>1 DEF Due, Startable, Absent, Asked
<1>7. \A r \in Requests : req[r] # "sent"
  BY <1>1 DEF Busy, BatchMail, RequestPending
<1>8. Timing'
  BY <1>1, <1>3, <1>5, <1>6, <1>7
     DEF Timing, TimerCurrent, TimerAhead, NoneMissed, EndTogether, CircularWait
<1>9. stack = {}
  BY <1>1, <1>3 DEF StackHandled
<1>10. Bookings'
  BY <1>1, <1>6, <1>9 DEF PlanInv, Bookings, BookingsFree, BookingsOpen, BookingsHeld,
                          StackHandled, Absent, CircularWait
<1>11. Tracing'
  BY <1>1, <1>6, QuietTracing
<1>. QED
  BY <1>8, <1>10, <1>11

(* A client asks for a reservation whose date is not over.                 *)
LEMMA ClientSendPlan ==
  ASSUME PlanInv, NEW r \in Requests, ClientSend(r), CircularWait => CircularWait'
  PROVE  Timing' /\ Bookings' /\ Tracing'
<1>1. /\ req[r] = "new" /\ req' = [req EXCEPT ![r] = "sent"] /\ bpc # "end"
      /\ r.name = "SB_RES" => clock =< desc[r.job].start
      /\ UNCHANGED <<clock, desc, state, gantt, queues, reserved, bpc, stack,
                     rpc, rmJob, rmWake, spc>>
  BY DEF ClientSend, clusterVars, batchVars, rmVars, supVars
<1>2. /\ req \in [Requests -> {"new", "sent", "await"} \cup Answers]
      /\ clock \in Nat /\ desc \in [Jobs -> Descriptions]
  BY DEF PlanInv, TableInv, TypeInv, TypeOK
<1>3. /\ \A o \in Requests : o # r => req'[o] = req[o]
      /\ req'[r] = "sent"
  BY <1>1, <1>2
<1>4. Due' = Due /\ (AckComing' => AckComing)
  BY <1>1 DEF Due, Startable, Absent, AckComing, Acking
<1>5. Asked' = Asked
  BY <1>1, <1>3 DEF Asked
<1>6. rpc # "end"
  BY <1>1 DEF PlanInv, Timing, EndTogether
<1>7. Timing'
  BY <1>1, <1>4, <1>6, QuietTiming
<1>8. BookingsFree'
  BY <1>1, <1>5 DEF PlanInv, Bookings, BookingsFree, Absent
<1>9. BookingsOpen'
  <2>1. ASSUME NEW o \in Asked, req'[o] # "new", ~ CircularWait
        PROVE  desc[o.job].start >= clock
    <3>1. CASE o = r
      <4>1. o.job \in Jobs /\ o.name = "SB_RES"
        BY RequestsAssumption DEF Asked
      <4>2. desc[o.job].start \in Nat
        BY <1>2, <4>1 DEF Descriptions
      <4>. QED
        BY <1>1, <1>2, <3>1, <4>1, <4>2
    <3>2. CASE o # r
      BY <1>3, <2>1, <3>2 DEF PlanInv, Bookings, BookingsOpen, Asked
    <3>. QED
      BY <3>1, <3>2
  <2>. QED
    BY <1>1, <1>5, <2>1 DEF BookingsOpen
<1>10. BookingsHeld' /\ StackHandled'
  BY <1>1, <1>3 DEF PlanInv, Bookings, BookingsHeld, StackHandled
<1>11. Tracing'
  BY <1>1, <1>4, QuietTracing
<1>. QED
  BY <1>7, <1>8, <1>9, <1>10, <1>11 DEF Bookings

(* The external load sends its next job, or nothing happens at all.        *)
LEMMA StutterPlan ==
  ASSUME PlanInv, LoadSend \/ UNCHANGED vars, CircularWait => CircularWait'
  PROVE  Timing' /\ Bookings' /\ Tracing'
<1>1. UNCHANGED <<clock, desc, state, gantt, queues, reserved, bpc, stack, req,
                  rpc, rmJob, rmWake, spc>>
  BY DEF LoadSend, vars, clusterVars, batchVars, rmVars, supVars
<1>2. Due' = Due /\ Asked' = Asked /\ (AckComing' => AckComing)
  BY <1>1 DEF Due, Startable, Absent, Asked, AckComing, Acking
<1>. HIDE DEF Due, Asked, AckComing
<1>3. Timing'
  BY <1>1, <1>2 DEF PlanInv, Timing, TimerCurrent, TimerMatches, TimerAhead, NoneMissed,
                    EndTogether
<1>4. Bookings'
  BY <1>1, <1>2 DEF PlanInv, Bookings, BookingsFree, BookingsOpen, BookingsHeld, StackHandled,
                    Absent
<1>5. Tracing'
  BY <1>1, <1>2, QuietTracing
<1>. QED
  BY <1>3, <1>4, <1>5

-----------------------------------------------------------------------------

(* At first nothing is planned, asked or traced.                           *)
LEMMA PlanInit == Init => PlanInv
<1>. SUFFICES ASSUME Init PROVE PlanInv
  OBVIOUS
<1>1. TableInv /\ ExecInv /\ NoCancelPending
  BY TableInit, ExecInit DEF Init, NoCancelPending
<1>2. desc \in [Jobs -> Descriptions] /\ gantt \in Tables
  BY <1>1 DEF TableInv, TypeInv, TypeOK
<1>3. \A x : Absent(gantt, x)
  BY DEF Init, Absent, NotIn
<1>4. Due = {}
  BY <1>3 DEF Due
<1>5. Timing
  BY <1>4 DEF Init, Timing, TimerCurrent, TimerMatches, TimerAhead, NoneMissed, EndTogether
<1>6. BookingsFree
  <2>1. \A r \in Asked : r.job \in Jobs
    BY RequestsAssumption DEF Asked
  <2>2. \A j \in Jobs : gantt.start[j] = desc[j].start
    BY DEF Init
  <2>. QED
    BY <1>3, <2>1, <2>2 DEF BookingsFree
<1>7. Bookings
  <2>1. \A r \in Asked : r \in Requests
    BY DEF Asked
  <2>2. stack = {} /\ \A r \in Requests : req[r] = "new"
    BY DEF Init
  <2>3. BookingsOpen /\ BookingsHeld /\ StackHandled
    BY <2>1, <2>2 DEF BookingsOpen, BookingsHeld, StackHandled
  <2>. QED
    BY <1>6, <2>3 DEF Bookings
<1>8. Tracing
  <2>1. \A p \in Queues : \A x : ~ Holds(queues[p], x)
    BY DEF Init, Holds
  <2>2. \A j \in Jobs : state[j] \in {"WAITING", "RESERVED"}
    BY <1>2 DEF Init, Descriptions
  <2>. QED
    BY <1>4, <2>1, <2>2 DEF Tracing, Filed, PlannedTraced, Running
<1>. QED
  BY <1>1, <1>5, <1>7, <1>8 DEF PlanInv

(* Every step keeps the invariant, and time and starts as they should be.  *)
LEMMA PlanStep ==
  ASSUME NoCancel, PlanInv, [Next]_vars
  PROVE  PlanInv' /\ OnTimeStep /\ StartsOnPlanStep
<1>1. TableInv' /\ ExecInv' /\ NoCancelPending' /\ (CircularWait => CircularWait')
  BY TableStep, ExecStep, NoCancelStep, CircleStands DEF PlanInv, ExecInv
<1>2. LifecycleStep
  BY ExecStep DEF PlanInv
<1>. DEFINE Goal == Timing' /\ Bookings' /\ Tracing' /\ OnTimeStep /\ StartsOnPlanStep
<1>3. ASSUME clock' = clock PROVE OnTimeStep
  BY <1>3 DEF OnTimeStep
<1>4. ASSUME UNCHANGED state PROVE StartsOnPlanStep
  BY <1>4 DEF StartsOnPlanStep
<1>5. ASSUME NEW j \in Jobs, HandleMessage(j) PROVE Goal
  <2>1. ~ CancelTask(j)
    BY DEF CancelTask, Handle, Message, PlanInv, NoCancelPending
  <2>2. clock' = clock /\ (state' = state \/ state' = [state EXCEPT ![j] = "DONE"])
    BY <1>5 DEF HandleMessage, ScheduleTask, ReserveSlot, CheckAck, CancelTask, Handle
  <2>3. state \in [Jobs -> JobStates]
    BY DEF PlanInv, TableInv, TypeInv, TypeOK
  <2>4. OnTimeStep /\ StartsOnPlanStep
    BY <2>2, <2>3 DEF OnTimeStep, StartsOnPlanStep
  <2>5. Timing' /\ Bookings' /\ Tracing'
    BY <1>5, <2>1, ScheduleTaskPlan, ReserveSlotPlan, CheckAckPlan DEF HandleMessage
  <2>. QED
    BY <2>4, <2>5
<1>6. ASSUME BatchStep PROVE Goal
  <2>1. clock' = clock /\ state' = state
    BY <1>6 DEF BatchStep, ReceiveAck, ReceiveTask, ReceiveRequest, SortStack, Reply,
                Resume, BatchTakes, clusterVars
  <2>2. ~ CircularWait
    BY <1>6 DEF CircularWait, BatchStep, ReceiveAck, ReceiveTask, ReceiveRequest, SortStack,
                Reply, Resume, BatchTakes
  <2>. QED
    BY <1>3, <1>4, <1>6, <2>1, <2>2, BatchStepPlan
<1>7. ASSUME RmStep PROVE Goal
  <2>1. clock' = clock
    BY <1>7 DEF RmStep, RmTimeout, ReceiveAttach, ReceiveUpdate, RmDrained, RunTaken,
                RmNext
  <2>. QED
    BY <1>3, <1>7, <2>1, RmStepPlan
<1>8. ASSUME NEW s \in Sups, Supervise(s) PROVE Goal
  <2>1. clock' = clock
    BY <1>8 DEF Supervise, SupStart, NodeReceive, InputReceived, SupFinish, OutputReturned,
                TellBatch, SupFrame
  <2>. QED
    BY <1>1, <1>3, <1>8, <2>1, SupervisePlan
<1>9. ASSUME Tick PROVE Goal
  <2>1. state' = state
    BY <1>9 DEF Tick, clusterVars
  <2>2. CASE ~ CircularWait
    BY <1>4, <1>9, <2>1, <2>2, TickPlan
  <2>3. CASE CircularWait
    BY <1>1, <1>4, <1>9, <2>1, <2>3, StandingPlan DEF OnTimeStep
  <2>. QED
    BY <2>2, <2>3
<1>10. ASSUME EndOfTime \/ \E r \in Requests : ClientSend(r) PROVE Goal
  <2>1. clock' = clock /\ state' = state
    BY <1>10 DEF EndOfTime, ClientSend, clusterVars
  <2>. QED
    BY <1>1, <1>3, <1>4, <1>10, <2>1, EndOfTimePlan, ClientSendPlan
<1>11. ASSUME LoadSend \/ UNCHANGED vars PROVE Goal
  <2>1. clock' = clock /\ state' = state
    BY <1>11 DEF LoadSend, vars, clusterVars
  <2>. QED
    BY <1>1, <1>3, <1>4, <1>11, <2>1, StutterPlan
<1>12. Goal
  BY <1>5, <1>6, <1>7, <1>8, <1>9, <1>10, <1>11 DEF Next, System, Terminated
<1>. QED
  BY <1>1, <1>12 DEF PlanInv

(***************************************************************************)
(* No planned start is missed but in the circle: as long as the servers go *)
(* on, the clock never runs past the start of a job that is still to be    *)
(* started, whatever the batch writes into the table while the resource    *)
(* manager sleeps (batch.c:226, resource_manager.c:178).                   *)
(***************************************************************************)
THEOREM NoStartMissed == NoCancel => (Spec => OnTime)
<1>. SUFFICES ASSUME NoCancel PROVE Spec => OnTime
  OBVIOUS
<1>1. PlanInv /\ [Next]_vars => PlanInv' /\ [OnTimeStep]_vars
  BY PlanStep
<1>2. OnTime <=> [][OnTimeStep]_vars
  BY PTL DEF OnTime, OnTimeStep
<1>. QED
  BY PlanInit, <1>1, <1>2, PTL DEF Spec

(***************************************************************************)
(* A job is started at its planned date and while it is in the table: the  *)
(* job and the date of the timer are never out of date when it is over     *)
(* (resource_manager.c:86-104).                                            *)
(***************************************************************************)
THEOREM StartedOnPlan == NoCancel => (Spec => StartsOnPlan)
<1>. SUFFICES ASSUME NoCancel PROVE Spec => StartsOnPlan
  OBVIOUS
<1>1. PlanInv /\ [Next]_vars => PlanInv' /\ [StartsOnPlanStep]_vars
  BY PlanStep
<1>2. StartsOnPlan <=> [][StartsOnPlanStep]_vars
  BY PTL DEF StartsOnPlan, StartsOnPlanStep
<1>. QED
  BY PlanInit, <1>1, <1>2, PTL DEF Spec

(***************************************************************************)
(* The job of an SB_ACK is traced where check_ACK looks for it, so that it *)
(* never removes the element of index -1 (batch.c:442-449).                *)
(***************************************************************************)
THEOREM AcksTraced == NoCancel => (Spec => []AckTraced)
<1>. SUFFICES ASSUME NoCancel PROVE Spec => []AckTraced
  OBVIOUS
<1>1. PlanInv /\ [Next]_vars => PlanInv'
  BY PlanStep
<1>2. PlanInv => AckTraced
  <2>. SUFFICES ASSUME PlanInv, NEW m \in stack, m.name = "SB_ACK" PROVE Traced(m.job)
    BY DEF AckTraced
  <2>1. m.job \in Jobs /\ desc \in [Jobs -> Descriptions]
    BY DEF PlanInv, TableInv, TypeInv, TypeOK, Messages
  <2>2. TracedAt(m.job)
    BY <2>1 DEF PlanInv, ExecInv, AcksSound, Tracing, PlannedTraced
  <2>3. QueueOf(m.job) \in Queues
    BY <2>1, QueueOfType
  <2>. QED
    BY <2>2, <2>3 DEF TracedAt, Traced
<1>. QED
  BY PlanInit, <1>1, <1>2, PTL DEF Spec
=============================================================================
