--------------------------- MODULE ClusterProofs ---------------------------
(***************************************************************************)
(* When everything goes as planned: no client cancels jobs, no job has a   *)
(* deadline, transfers fit into the slot, reservations are marked as such  *)
(* and the file is sorted.  Then the table, the traces of the batch and the*)
(* executions tell one story, and every date is the planned one.           *)
(*                                                                         *)
(* The invariant gives each supervisor its date: a job that runs has been  *)
(* running since its planned start, so that it leaves before its slot is   *)
(* over, when those before it in its queues have left.                     *)
(***************************************************************************)
EXTENDS ExecutionProofs

-----------------------------------------------------------------------------
(* The batch and the table.                                                *)

Walls == \A j \in Jobs : gantt.wall[j] = desc[j].wall

(* What is traced is planned as it asked, and nothing else is.             *)
InOrder(j) ==
  IF TracedAt(j)
    THEN /\ On(gantt, j) = gantt.nodes[j] /\ Cardinality(gantt.nodes[j]) = desc[j].procs
         /\ gantt.lead[j] \in gantt.nodes[j]
    ELSE On(gantt, j) = {}

Agreement == \A j \in Jobs : InOrder(j)

(* The batch forgets the jobs that are over.                               *)
Forgotten == \A j \in Jobs : state[j] = "DONE" => ~ TracedAt(j)

(* Reservations are traced once, when they have been accepted.             *)
ReservedOnce == \A i, k \in 1 .. Len(reserved) : reserved[i] = reserved[k] => i = k

ReservedAccepted == \A j \in Jobs : Holds(reserved, j) => Reserved(j)

(* And keep their date.                                                    *)
Honoured ==
  \A r \in Requests :
    /\ state[r.job] # "WAITING"
    /\ req[r] = "SB_OK" /\ r.job \in Startable =>
         TracedAt(r.job) /\ gantt.start[r.job] = desc[r.job].start

(* Jobs that have not been planned yet have not been started.              *)
Unstarted ==
  /\ \A j \in Coming : j \in Startable
  /\ \A r \in Asked : r.job \in Startable

Records ==
  Walls /\ Agreement /\ Forgotten /\ ReservedOnce /\ ReservedAccepted /\ Honoured
    /\ Unstarted

(* When all has ended nothing is left.                                     *)
Cleaned ==
  bpc = "end" => /\ \A j \in Jobs : ~ TracedAt(j)
                 /\ \A s \in Sups : spc[s] = "idle"

-----------------------------------------------------------------------------
(* The executions.                                                         *)

(* The dates at which j has its input, has run, and has left.              *)
Entered(j) == gantt.start[j] + desc[j].input
Ran(j)     == Entered(j) + Cut(desc[j])
Left(j)    == Ran(j) + desc[j].output

(* Supervisor s is as far as a job that started at its planned date.  Who  *)
(* has ended tells the servers at once, unless they wait for each other.   *)
AtPace(s) ==
  LET j == sjob[s]
  IN  /\ spc[s] \in {"start", "in"} => clock = gantt.start[j]
      /\ spc[s] = "in" => desc[j].input > 0
      /\ spc[s] = "receiving" => swake[s] = Entered(j) /\ clock =< Entered(j)
      /\ spc[s] = "run" => swake[s] = Ran(j) /\ clock =< Ran(j)
      /\ spc[s] = "out" => clock = Ran(j) /\ desc[j].output > 0
      /\ spc[s] = "returning" => swake[s] = Left(j) /\ clock =< Left(j)
      /\ spc[s] \in {"attach", "told", "ack"} =>
           Left(j) =< clock /\ (CircularWait \/ clock = Left(j))
      /\ spc[s] # "idle" => gantt.start[j] =< clock

Pace ==
  /\ rpc = "run" => gantt.start[rmJob] =< clock /\ (CircularWait \/ clock = gantt.start[rmJob])
  /\ \A s \in Sups : AtPace(s)
  /\ \A m \in stack : m.name = "SB_ACK" => clock = Left(m.job)

(* Somebody has each job that is running.                                  *)
InHands(j) ==
  \/ rpc = "run" /\ rmJob = j
  \/ \E s \in Sups : sjob[s] = j
  \/ \E m \in stack : m.name = "SB_ACK" /\ m.job = j

Execution ==
  /\ \A j \in Jobs : state[j] # "ERROR"
  /\ \A j \in Jobs : state[j] = "PROCESSING" => InHands(j)
  /\ Pace

(* Jobs arrive at their submit times.                                      *)
Punctual ==
  /\ loadPos =< Len(Load) => /\ loadWake = desc[Load[loadPos]].submit
                             /\ CircularWait \/ clock =< loadWake
  /\ lpc = "send" => loadWake =< clock
  /\ \A m \in stack : m.name = "SB_TASK" => clock = desc[m.job].submit
  /\ bpc = "end" => loadPos > Len(Load)

OrderInv == PlanInv /\ Records /\ Cleaned /\ Execution

-----------------------------------------------------------------------------
(* Consequences of the invariant.                                          *)

(* The jobs of an orderly workload.                                        *)
LEMMA OrderlyJob ==
  ASSUME Orderly, TypeInv, NEW j \in Jobs
  PROVE  /\ desc[j] \in Descriptions
         /\ desc[j].deadline = NoDeadline
         /\ desc[j].input \in Nat /\ Cut(desc[j]) \in Nat /\ desc[j].output \in Nat
         /\ desc[j].wall \in Nat /\ desc[j].procs \in Nat \ {0}
         /\ 1 =< Stay(desc[j]) /\ Stay(desc[j]) =< desc[j].wall
<1>1. desc \in Workloads /\ desc[j] \in Descriptions
  BY DEF TypeInv, TypeOK
<1>2. desc[j].deadline = NoDeadline /\ Stay(desc[j]) \in 1 .. desc[j].wall
  BY <1>1 DEF Orderly
<1>3. /\ desc[j].input \in Nat /\ desc[j].output \in Nat /\ desc[j].wall \in Nat
      /\ desc[j].run \in Nat /\ desc[j].procs \in Nat \ {0}
  BY <1>1 DEF Descriptions
<1>4. Cut(desc[j]) \in Nat
  BY <1>3 DEF Cut
<1>5. Stay(desc[j]) \in Nat
  BY <1>3, <1>4 DEF Stay
<1>. QED
  BY <1>1, <1>2, <1>3, <1>4, <1>5

(* The clients only reserve, each job once.                                *)
LEMMA OrderlyRequest ==
  ASSUME Orderly, NEW r \in Requests
  PROVE  /\ r.name = "SB_RES" /\ r.job \in Jobs /\ r = Message("SB_RES", r.job)
         /\ \A i \in 1 .. Len(Load) : Load[i] # r.job
<1>1. r \in [name : RequestKinds, job : Jobs]
  BY RequestsAssumption
<1>2. r.name = "SB_RES"
  BY <1>1 DEF RequestKinds, Orderly, NoCancel
<1>3. \A i \in 1 .. Len(Load) : Load[i] # r.job
  BY <1>2, LoadOnceAssumption
<1>. QED
  BY <1>1, <1>2, <1>3 DEF Message

(* The dates of an execution, in their order.                              *)
LEMMA Dates ==
  ASSUME Orderly, TypeInv, Walls, NEW j \in Jobs
  PROVE  /\ gantt.start[j] \in Nat /\ Entered(j) \in Nat /\ Ran(j) \in Nat /\ Left(j) \in Nat
         /\ gantt.start[j] =< Entered(j) /\ Entered(j) =< Ran(j) /\ Ran(j) =< Left(j)
         /\ gantt.start[j] < Left(j) /\ Left(j) =< End(gantt, j)
         /\ desc[j].input > 0 => gantt.start[j] < Entered(j)
         /\ desc[j].output > 0 => Ran(j) < Left(j)
         /\ Left(j) = gantt.start[j] + Stay(desc[j])
         /\ End(gantt, j) \in Nat
<1>1. gantt.start[j] \in Nat /\ gantt.wall[j] = desc[j].wall
  BY DEF TypeInv, TypeOK, Tables, Walls
<1>2. /\ desc[j].input \in Nat /\ Cut(desc[j]) \in Nat /\ desc[j].output \in Nat
      /\ desc[j].wall \in Nat /\ 1 =< Stay(desc[j]) /\ Stay(desc[j]) =< desc[j].wall
  BY OrderlyJob
<1>3. Left(j) = gantt.start[j] + Stay(desc[j])
  BY <1>1, <1>2 DEF Left, Ran, Entered, Stay
<1>4. /\ Entered(j) = gantt.start[j] + desc[j].input /\ Ran(j) = Entered(j) + Cut(desc[j])
      /\ Left(j) = Ran(j) + desc[j].output
  BY DEF Left, Ran, Entered
<1>5. Stay(desc[j]) \in Nat
  BY <1>2 DEF Stay
<1>6. End(gantt, j) = gantt.start[j] + desc[j].wall
  BY <1>1 DEF End
<1>. QED
  BY <1>1, <1>2, <1>3, <1>4, <1>5, <1>6

(* A job that runs is between its start and the end of its slot.           *)
LEMMA RunningDates ==
  ASSUME Orderly, OrderInv, ~ CircularWait, NEW j \in Jobs, state[j] = "PROCESSING"
  PROVE  gantt.start[j] =< clock /\ clock =< Left(j)
<1>1. TypeInv /\ Walls /\ Execution
  BY DEF OrderInv, PlanInv, TableInv, Records
<1>2. /\ gantt.start[j] \in Nat /\ Entered(j) \in Nat /\ Ran(j) \in Nat /\ Left(j) \in Nat
      /\ gantt.start[j] =< Entered(j) /\ Entered(j) =< Ran(j) /\ Ran(j) =< Left(j)
      /\ clock \in Nat
  BY <1>1, Dates DEF TypeInv, TypeOK
<1>3. CASE rpc = "run" /\ rmJob = j
  BY <1>1, <1>2, <1>3 DEF Execution, Pace
<1>4. ASSUME NEW s \in Sups, sjob[s] = j PROVE gantt.start[j] =< clock /\ clock =< Left(j)
  <2>1. spc[s] # "idle" /\ spc[s] \in SupPcs
    BY <1>1, <1>4, JobsAssumption DEF OrderInv, PlanInv, ExecInv, SupsSound, TypeInv, TypeOK
  <2>2. AtPace(s)
    BY <1>1 DEF Execution, Pace
  <2>3. gantt.start[j] =< clock
    BY <1>4, <2>1, <2>2 DEF AtPace
  <2>4. CASE spc[s] \in {"start", "in"}
    BY <1>2, <1>4, <2>2, <2>4 DEF AtPace
  <2>5. CASE spc[s] \in {"receiving", "run", "out"}
    BY <1>2, <1>4, <2>2, <2>5 DEF AtPace
  <2>6. CASE spc[s] \in {"returning", "attach", "told", "ack"}
    BY <1>2, <1>4, <2>2, <2>6 DEF AtPace
  <2>. QED
    BY <2>1, <2>3, <2>4, <2>5, <2>6 DEF SupPcs
<1>5. CASE \E m \in stack : m.name = "SB_ACK" /\ m.job = j
  BY <1>1, <1>2, <1>5 DEF Execution, Pace
<1>6. InHands(j)
  BY <1>1 DEF Execution
<1>. QED
  BY <1>3, <1>4, <1>5, <1>6 DEF InHands

(* A job leaves the table of a node in its turn.                           *)
LEMMA LeavesFirst ==
  ASSUME Orderly, OrderInv, NEW m \in stack, m.name = "SB_ACK",
         NEW n \in Nodes, NEW i \in 1 .. Len(gantt.chart[n]), gantt.chart[n][i] = m.job
  PROVE  i = 1
<1>. DEFINE j == m.job
            q == gantt.chart[n]
            k == q[1]
<1>. SUFFICES ASSUME i # 1 PROVE FALSE
  OBVIOUS
<1>1. /\ TypeInv /\ Walls /\ Execution /\ Agreement /\ Forgotten /\ NoneMissed /\ AllOrdered(gantt)
      /\ ~ CircularWait
  BY DEF OrderInv, PlanInv, TableInv, Records, Timing, Bookings, StackHandled, CircularWait
<1>2. /\ gantt \in Tables /\ clock \in Nat /\ q \in Seq(Jobs) /\ j \in Jobs /\ k \in Jobs
      /\ state \in [Jobs -> JobStates] /\ i \in Nat /\ i >= 1 /\ Len(q) \in Nat /\ 1 =< Len(q)
  <2>1. gantt \in Tables /\ clock \in Nat /\ state \in [Jobs -> JobStates] /\ j \in Jobs
    BY <1>1 DEF TypeInv, TypeOK, Messages
  <2>2. q \in Seq(Jobs)
    BY <2>1 DEF Tables
  <2>3. Len(q) \in Nat /\ 1 \in 1 .. Len(q)
    BY <2>2
  <2>. HIDE DEF q, j
  <2>4. q[1] \in Jobs
    BY <2>2, <2>3, ElementOfSeq
  <2>. QED
    BY <2>1, <2>2, <2>3, <2>4
<1>3. End(gantt, k) =< gantt.start[j]
  BY <1>1 DEF AllOrdered, Ordered
<1>4. clock = Left(j)
  BY <1>1 DEF Execution, Pace
<1>5. /\ gantt.start[j] \in Nat /\ gantt.start[j] < Left(j)
      /\ Left(k) =< End(gantt, k) /\ gantt.start[k] < Left(k) /\ Left(k) \in Nat
      /\ gantt.start[k] \in Nat /\ End(gantt, k) \in Nat
  BY <1>1, <1>2, Dates
<1>6. Left(k) < clock /\ gantt.start[k] < clock
  BY <1>2, <1>3, <1>4, <1>5
<1>7. ~ Absent(gantt, k)
  BY <1>2 DEF Absent, NotIn
<1>8. TracedAt(k)
  BY <1>1, <1>2, <1>7, AbsentOn DEF Agreement, InOrder
<1>. HIDE DEF j, k, q
<1>9. state[k] \in {"WAITING", "RESERVED"} => gantt.start[k] >= clock
  BY <1>1, <1>2, <1>7 DEF NoneMissed, Due, Startable
<1>10. state[k] # "PROCESSING"
  BY <1>1, <1>2, <1>5, <1>6, RunningDates
<1>11. state[k] # "DONE" /\ state[k] # "ERROR"
  BY <1>1, <1>2, <1>8 DEF Forgotten, Execution
<1>. QED
  BY <1>2, <1>5, <1>6, <1>9, <1>10, <1>11 DEF JobStates

-----------------------------------------------------------------------------
(* The handlers.                                                           *)

(* A step that leaves the table and its traces alone leaves what they say. *)
LEMMA QuietRecords ==
  ASSUME OrderInv, UNCHANGED <<gantt, queues, reserved, desc>>,
         \A j \in Jobs : state'[j] = "DONE" => state[j] = "DONE",
         \A j \in Jobs : state'[j] = "WAITING" => state[j] = "WAITING",
         \A j \in Jobs :
           state'[j] \in {"WAITING", "RESERVED"} => state[j] \in {"WAITING", "RESERVED"},
         \A r \in Requests : req'[r] = "SB_OK" <=> req[r] = "SB_OK",
         Unstarted'
  PROVE  Records'
<1>1. Walls /\ Agreement /\ Forgotten /\ ReservedOnce /\ ReservedAccepted /\ Honoured
  BY DEF OrderInv, Records
<1>2. \A x : TracedAt(x)' = TracedAt(x)
  BY DEF TracedAt, QueueOf
<1>3. Walls' /\ Forgotten' /\ ReservedOnce'
  BY <1>1, <1>2 DEF Walls, Forgotten, ReservedOnce
<1>4. Agreement'
  BY <1>1, <1>2 DEF Agreement, InOrder, On, Planned
<1>5. ReservedAccepted'
  BY <1>1 DEF ReservedAccepted, Reserved
<1>6. \A r \in Requests : r.job \in Jobs
  BY RequestsAssumption
<1>7. Honoured'
  BY <1>1, <1>2, <1>6 DEF Honoured, Startable
<1>. QED
  BY <1>3, <1>4, <1>5, <1>7 DEF Records

(* A job with a new slot is in order, and so is one that keeps its own.    *)
LEMMA GivenInOrder ==
  ASSUME NEW g, NEW h, NEW x, NEW nb, NEW t
  PROVE  /\ Given(h, x, nb, t) => /\ On(h, x) = h.nodes[x] /\ Cardinality(h.nodes[x]) = nb
                                  /\ h.lead[x] \in h.nodes[x]
         /\ Slot(h, x) = Slot(g, x) => /\ On(h, x) = On(g, x) /\ h.nodes[x] = g.nodes[x]
                                       /\ h.lead[x] = g.lead[x] /\ h.start[x] = g.start[x]
BY DEF Given, Slot

(* schedule_task plans the job it traces.                                  *)
LEMMA ScheduleTaskRecords ==
  ASSUME Orderly, OrderInv, NEW j \in Jobs, ScheduleTask(j)
  PROVE  Records' /\ \A x \in Jobs : x # j => gantt'.start[x] = gantt.start[x]
<1>. DEFINE nb == desc[j].procs
            h == gantt'
            w == QueueOf(j)
<1>1. /\ Handle("SB_TASK", j)
      /\ UNCHANGED <<state, reserved, req, clock, desc>>
  BY DEF ScheduleTask, Handle
<1>2. /\ TableInv /\ TypeInv /\ Walls /\ Agreement /\ Forgotten /\ ReservedOnce
      /\ ReservedAccepted /\ Honoured /\ Unstarted
  BY DEF OrderInv, PlanInv, TableInv, Records
<1>3. Unstarted' /\ j \in Startable /\ j \in Coming
  <2>1. Coming' \subseteq Coming /\ j \in Coming
    BY <1>1, <1>2, HandledComing
  <2>2. Asked' = Asked /\ Startable' = Startable
    BY <1>1 DEF Asked, Startable
  <2>. QED
    BY <1>2, <2>1, <2>2 DEF Unstarted
<1>4. CASE UNCHANGED <<queues, gantt>>
  BY <1>1, <1>4, <1>3, QuietRecords
<1>5. CASE ~ UNCHANGED <<queues, gantt>>
  <2>1. /\ nb =< NbNodes /\ h = Accept(gantt, j, Schedule(Plugin, gantt, j, nb, clock))
        /\ queues' = [queues EXCEPT ![w] = Append(@, j)]
    BY <1>5 DEF ScheduleTask
  <2>2. /\ gantt \in Tables /\ clock \in Nat /\ queues \in [Queues -> Seq(Jobs)] /\ w \in Queues
        /\ nb \in 1 .. NbNodes
    <3>1. nb \in Nat \ {0}
      BY <1>2, OrderlyJob
    <3>2. /\ gantt \in Tables /\ clock \in Nat /\ queues \in [Queues -> Seq(Jobs)]
          /\ desc \in [Jobs -> Descriptions]
      BY <1>2 DEF TypeInv, TypeOK
    <3>3. w \in Queues
      BY <3>2, QueueOfType
    <3>. QED
      BY <2>1, <3>1, <3>2, <3>3, NbNodesAssumption
  <2>3. Absent(gantt, j) /\ Untraced(queues, j)
    BY <1>1, <1>2, HandledComing DEF TableInv, Fresh
  <2>. HIDE DEF nb, w, h
  <2>4. /\ h.wall = gantt.wall /\ Given(h, j, nb, clock)
        /\ \A x \in Jobs : x # j => Slot(h, x) = Slot(gantt, x)
    <3>1. h = Accept(gantt, j, Schedule(Plugin, gantt, j, nb, clock))
      BY <2>1
    <3>2. gantt \in Tables /\ clock \in Nat /\ nb \in 1 .. NbNodes
      BY <2>2
    <3>. QED
      BY <2>3, <3>1, <3>2, ScheduleSlots
  <2>5. \A x : TracedAt(x)' <=> x = j \/ TracedAt(x)
    <3>1. ASSUME NEW x PROVE Holds(queues'[QueueOf(x)], x) <=> x = j \/ Holds(queues[QueueOf(x)], x)
      <4>1. queues[w] \in Seq(Jobs) /\ queues'[w] = Append(queues[w], j)
        BY <2>1, <2>2
      <4>2. Holds(queues'[w], x) <=> x = j \/ Holds(queues[w], x)
        BY <4>1, AppendHolds
      <4>3. QueueOf(x) # w => queues'[QueueOf(x)] = queues[QueueOf(x)]
        <5>1. QueueOf(x) \in Queues \/ QueueOf(x) \notin Queues
          OBVIOUS
        <5>2. \A p : p # w => queues'[p] = queues[p]
          BY <2>1, <2>2
        <5>. QED
          BY <5>2
      <4>. QED
        BY <4>2, <4>3 DEF w
    <3>. QED
      BY <1>1, <3>1 DEF TracedAt, QueueOf
  <2>6. Agreement'
    <3>1. ASSUME NEW x \in Jobs
          PROVE  IF TracedAt(x)'
                   THEN /\ On(h, x) = h.nodes[x] /\ Cardinality(h.nodes[x]) = desc[x].procs
                        /\ h.lead[x] \in h.nodes[x]
                   ELSE On(h, x) = {}
      <4>1. CASE x = j
        <5>1. Given(h, x, nb, clock)
          BY <2>4, <4>1
        <5>2. nb = desc[x].procs
          BY <4>1 DEF nb
        <5>3. TracedAt(x)'
          BY <2>5, <4>1
        <5>. HIDE DEF h, nb, TracedAt
        <5>. QED
          BY <5>1, <5>2, <5>3 DEF Given
      <4>2. CASE x # j
        <5>1. Slot(h, x) = Slot(gantt, x) /\ InOrder(x)
          BY <1>2, <2>4, <4>2 DEF Agreement
        <5>. HIDE DEF TracedAt
        <5>. QED
          BY <2>5, <4>2, <5>1, GivenInOrder DEF InOrder
      <4>. QED
        BY <4>1, <4>2
    <3>. QED
      BY <1>1, <3>1 DEF Agreement, InOrder, On, Planned, h
  <2>7. Walls' /\ ReservedOnce' /\ ReservedAccepted'
    BY <1>1, <1>2, <2>4 DEF Walls, ReservedOnce, ReservedAccepted, Reserved, h
  <2>8. Forgotten'
    <3>1. state[j] # "DONE"
      BY <1>3 DEF Startable
    <3>. QED
      BY <1>1, <1>2, <2>5, <3>1 DEF Forgotten
  <2>9. \A x \in Jobs : x # j => h.start[x] = gantt.start[x]
    BY <2>4 DEF Slot
  <2>10. Honoured'
    <3>1. ASSUME NEW r \in Requests PROVE r.job \in Jobs /\ r.job # j
      <4>1. \E i \in 1 .. Len(Load) : Load[i] = j
        <5>1. Message("SB_TASK", j) \in stack
          BY <1>1 DEF Handle
        <5>. QED
          BY <1>2, <5>1 DEF TableInv, StackLoaded, Message
      <4>. QED
        BY <4>1, OrderlyRequest
    <3>. QED
      BY <1>1, <1>2, <2>5, <2>9, <3>1 DEF Honoured, Startable, h
  <2>. QED
    BY <1>3, <2>6, <2>7, <2>8, <2>9, <2>10 DEF Records, h
<1>. QED
  BY <1>4, <1>5

(* reserve_slot accepts j at the date it asked for.                        *)
Accepted(j) ==
  /\ reserved' = Append(reserved, j)
  /\ req' = [req EXCEPT ![Message("SB_RES", j)] = "SB_OK"]
  /\ gantt'.wall = gantt.wall
  /\ \A x \in Jobs : x # j => Slot(gantt', x) = Slot(gantt, x)
  /\ Given(gantt', j, desc[j].procs, desc[j].start) /\ gantt'.start[j] = desc[j].start

(* Or refuses it.                                                          *)
Refused(j) ==
  /\ UNCHANGED <<gantt, reserved>>
  /\ req' = [req EXCEPT ![Message("SB_RES", j)] = "SB_KO"]

(* It does nothing else.                                                   *)
LEMMA ReserveSlotSlots ==
  ASSUME PlanInv, NEW j \in Jobs, ReserveSlot(j)
  PROVE  /\ Message("SB_RES", j) \in Asked /\ req[Message("SB_RES", j)] = "await"
         /\ Accepted(j) \/ Refused(j)
<1>. DEFINE r == Message("SB_RES", j)
            nb == desc[j].procs
            date == EarliestStart(gantt, nb, gantt.start[j], gantt.wall[j])
            bid == CbfBid(gantt, nb, date, gantt.wall[j])
            h == gantt'
<1>1. Handle("SB_RES", j)
  BY DEF ReserveSlot
<1>2. /\ gantt \in Tables /\ desc \in [Jobs -> Descriptions] /\ desc \in Workloads
  BY DEF PlanInv, TableInv, TypeInv, TypeOK
<1>3. TableInv /\ TypeInv /\ BookingsFree /\ BookingsHeld
  BY DEF PlanInv, TableInv, Bookings
<1>4. r \in Requests /\ r \in stack /\ r.name = "SB_RES" /\ r.job = j
  <2>1. r \in Requests
    BY <1>1, <1>3, HandleTyped DEF RequestKinds
  <2>. QED
    BY <1>1, <2>1 DEF Handle, Message
<1>5. r \in Asked /\ req[r] = "await"
  BY <1>3, <1>4 DEF Asked, BookingsHeld
<1>6. Absent(gantt, j) /\ gantt.start[j] = desc[j].start
  BY <1>3, <1>4, <1>5 DEF BookingsFree
<1>7. CASE date # gantt.start[j]
  BY <1>5, <1>7 DEF ReserveSlot, Refused
<1>8. CASE date = gantt.start[j]
  <2>1. /\ h = Accept(gantt, j, bid) /\ reserved' = Append(reserved, j)
        /\ req' = [req EXCEPT ![r] = "SB_OK"]
    BY <1>8 DEF ReserveSlot
  <2>2. nb \in 1 .. NbNodes
    <3>1. nb =< NbNodes
      BY <1>2, <1>4, ReservationAssumption
    <3>2. nb \in Nat \ {0}
      BY <1>2 DEF Descriptions
    <3>. QED
      BY <3>1, <3>2, NbNodesAssumption
  <2>3. date \in Nat /\ bid.start = EarliestStart(gantt, nb, date, gantt.wall[j])
    BY <1>2, <1>8 DEF Tables, CbfBid
  <2>4. bid.start = date /\ date = desc[j].start
    BY <1>6, <1>8, <2>3
  <2>. HIDE DEF nb, date, h
  <2>5. BidFits(gantt, bid) /\ BidRight(bid, nb, date)
    BY <1>2, <2>2, <2>3, CbfBidFits, CbfBidRight
  <2>. HIDE DEF bid
  <2>6. /\ h.wall = gantt.wall
        /\ \A x \in Jobs : x # j => Slot(h, x) = Slot(gantt, x)
        /\ On(h, j) = bid.nodes \cup On(gantt, j)
        /\ h.start[j] = bid.start /\ h.nodes[j] = bid.nodes /\ h.lead[j] = bid.lead
    BY <1>2, <2>1, <2>5, AcceptSlots
  <2>7. On(gantt, j) = {}
    BY <1>2, <1>6, AbsentOn
  <2>8. Given(h, j, nb, date)
    BY <2>5, <2>6, <2>7 DEF Given, BidRight
  <2>9. Accepted(j)
    BY <2>1, <2>4, <2>6, <2>8 DEF Accepted, h, nb
  <2>. QED
    BY <1>5, <2>9
<1>. QED
  BY <1>7, <1>8

(* A sequence of different jobs, one of which is added.                    *)
LEMMA AppendDifferent ==
  ASSUME NEW q \in Seq(Jobs), NEW j \in Jobs, ~ Holds(q, j),
         \A i, k \in 1 .. Len(q) : q[i] = q[k] => i = k
  PROVE  LET r == Append(q, j) IN \A i, k \in 1 .. Len(r) : r[i] = r[k] => i = k
<1>. DEFINE r == Append(q, j)
            n == Len(q)
<1>1. /\ n \in Nat /\ DOMAIN q = 1 .. n /\ Len(r) = n + 1
      /\ r[n + 1] = j /\ \A i \in 1 .. n : r[i] = q[i]
  BY AppendProperties
<1>. HIDE DEF r
<1>2. \A i \in 1 .. n : r[i] # j
  BY <1>1 DEF Holds
<1>3. \A i \in 1 .. n + 1 : i = n + 1 \/ i \in 1 .. n
  BY <1>1
<1>. QED
  BY <1>1, <1>2, <1>3 DEF r

(* reserve_slot plans the reservation it traces.                           *)
LEMMA ReserveSlotRecords ==
  ASSUME Orderly, OrderInv, NEW j \in Jobs, ReserveSlot(j)
  PROVE  Records' /\ \A x \in Jobs : x # j => gantt'.start[x] = gantt.start[x]
<1>. DEFINE r == Message("SB_RES", j)
<1>1. /\ Handle("SB_RES", j)
      /\ UNCHANGED <<state, queues, clock, desc>>
  BY DEF ReserveSlot, Handle
<1>2. /\ TableInv /\ TypeInv /\ Walls /\ Agreement /\ Forgotten /\ ReservedOnce
      /\ ReservedAccepted /\ Honoured /\ Unstarted /\ PlanInv
  BY DEF OrderInv, PlanInv, TableInv, Records
<1>3. /\ gantt \in Tables /\ reserved \in Seq(Jobs) /\ desc \in [Jobs -> Descriptions]
      /\ req \in [Requests -> {"new", "sent", "await"} \cup Answers]
  BY <1>2 DEF TypeInv, TypeOK
<1>4. r \in Asked /\ req[r] = "await" /\ (Accepted(j) \/ Refused(j))
  BY <1>2, ReserveSlotSlots
<1>5. r \in Requests /\ r.job = j /\ j \in Startable
  BY <1>2, <1>4 DEF Asked, Message, Unstarted
<1>. HIDE DEF r
<1>6. \A q \in Requests : q # r => req'[q] = req[q] /\ q.job # j
  <2>1. ASSUME NEW q \in Requests, q # r PROVE req'[q] = req[q]
    BY <1>3, <1>4, <2>1 DEF Accepted, Refused, r
  <2>2. ASSUME NEW q \in Requests, q # r PROVE q.job # j
    BY <2>2, OrderlyRequest DEF r
  <2>. QED
    BY <2>1, <2>2
<1>7. Unstarted'
  <2>1. Coming' \subseteq Coming /\ Startable' = Startable
    BY <1>1, <1>2, HandledComing DEF Startable
  <2>2. Asked' \subseteq Asked
    <3>1. ASSUME NEW q \in Asked' PROVE q \in Asked
      <4>1. q \in Requests /\ q.name = "SB_RES"
        BY DEF Asked
      <4>2. CASE q = r
        BY <1>4, <4>2
      <4>3. CASE q # r
        BY <1>6, <4>1, <4>3 DEF Asked
      <4>. QED
        BY <4>2, <4>3
    <3>. QED
      BY <3>1
  <2>. QED
    BY <1>2, <2>1, <2>2 DEF Unstarted
<1>8. CASE Refused(j)
  <2>1. req'[r] = "SB_KO"
    BY <1>3, <1>5, <1>8 DEF Refused, r
  <2>2. \A q \in Requests : req'[q] = "SB_OK" <=> req[q] = "SB_OK"
    BY <1>4, <1>6, <2>1
  <2>3. UNCHANGED <<gantt, reserved>>
    BY <1>8 DEF Refused
  <2>. QED
    BY <1>1, <1>7, <2>2, <2>3, QuietRecords
<1>9. CASE Accepted(j)
  <2>. DEFINE h == gantt'
  <2>1. /\ reserved' = Append(reserved, j) /\ h.wall = gantt.wall
        /\ \A x \in Jobs : x # j => Slot(h, x) = Slot(gantt, x)
        /\ Given(h, j, desc[j].procs, desc[j].start) /\ h.start[j] = desc[j].start
    BY <1>9 DEF Accepted
  <2>2. req'[r] = "SB_OK"
    BY <1>3, <1>5, <1>9 DEF Accepted, r
  <2>. HIDE DEF h
  <2>3. \A x : Holds(reserved', x) <=> x = j \/ Holds(reserved, x)
    BY <1>3, <2>1, AppendHolds
  <2>4. \A x : TracedAt(x)' <=> x = j \/ TracedAt(x)
    BY <1>1, <2>3 DEF TracedAt, QueueOf
  <2>5. ~ Holds(reserved, j)
    <3>1. ASSUME Reserved(j) PROVE FALSE
      BY <1>4, <3>1 DEF Reserved, r
    <3>. QED
      BY <1>2, <3>1 DEF ReservedAccepted
  <2>6. ReservedOnce'
    BY <1>2, <1>3, <2>1, <2>5, AppendDifferent DEF ReservedOnce
  <2>7. Agreement'
    <3>1. ASSUME NEW x \in Jobs
          PROVE  IF TracedAt(x)'
                   THEN /\ On(h, x) = h.nodes[x] /\ Cardinality(h.nodes[x]) = desc[x].procs
                        /\ h.lead[x] \in h.nodes[x]
                   ELSE On(h, x) = {}
      <4>1. CASE x = j
        <5>1. /\ On(h, j) = h.nodes[j] /\ Cardinality(h.nodes[j]) = desc[j].procs
              /\ h.lead[j] \in h.nodes[j]
          BY <2>1 DEF Given
        <5>2. TracedAt(x)'
          BY <2>4, <4>1
        <5>. QED
          BY <4>1, <5>1, <5>2
      <4>2. CASE x # j
        <5>1. Slot(h, x) = Slot(gantt, x) /\ InOrder(x)
          BY <1>2, <2>1, <4>2 DEF Agreement
        <5>. HIDE DEF TracedAt
        <5>. QED
          BY <2>4, <4>2, <5>1, GivenInOrder DEF InOrder
      <4>. QED
        BY <4>1, <4>2
    <3>. QED
      BY <1>1, <3>1 DEF Agreement, InOrder, On, Planned, h
  <2>8. \A x \in Jobs : x # j => h.start[x] = gantt.start[x]
    BY <2>1 DEF Slot
  <2>9. Walls'
    BY <1>1, <1>2, <2>1 DEF Walls, h
  <2>10. Forgotten'
    <3>1. state[j] # "DONE"
      BY <1>5 DEF Startable
    <3>. QED
      BY <1>1, <1>2, <2>4, <3>1 DEF Forgotten
  <2>11. ReservedAccepted'
    <3>1. ASSUME NEW x \in Jobs, Holds(reserved', x)
          PROVE  \E q \in Requests : q = Message("SB_RES", x) /\ req'[q] = "SB_OK"
      <4>1. CASE x = j
        BY <1>5, <2>2, <4>1 DEF r
      <4>2. CASE x # j
        <5>1. Reserved(x)
          BY <1>2, <2>3, <3>1, <4>2 DEF ReservedAccepted
        <5>2. PICK q \in Requests : q = Message("SB_RES", x) /\ req[q] = "SB_OK"
          BY <5>1 DEF Reserved
        <5>. QED
          BY <1>4, <1>6, <5>2
      <4>. QED
        BY <4>1, <4>2
    <3>. QED
      BY <3>1 DEF ReservedAccepted, Reserved
  <2>12. Honoured'
    <3>1. ASSUME NEW q \in Requests
          PROVE  /\ state[q.job] # "WAITING"
                 /\ req'[q] = "SB_OK" /\ q.job \in Startable =>
                      TracedAt(q.job)' /\ h.start[q.job] = desc[q.job].start
      <4>1. q.job \in Jobs /\ state[q.job] # "WAITING"
        BY <1>2, OrderlyRequest DEF Honoured
      <4>2. CASE q = r
        BY <1>5, <2>1, <2>4, <4>1, <4>2
      <4>3. CASE q # r
        BY <1>2, <1>6, <2>4, <2>8, <4>1, <4>3 DEF Honoured
      <4>. QED
        BY <4>2, <4>3
    <3>2. Startable' = Startable
      BY <1>1 DEF Startable
    <3>. QED
      BY <1>1, <3>1, <3>2 DEF Honoured, h
  <2>. QED
    BY <1>7, <2>6, <2>7, <2>8, <2>9, <2>10, <2>11, <2>12 DEF Records, h
<1>. QED
  BY <1>4, <1>8, <1>9

(* A sequence of different jobs, one of which is removed.                  *)
LEMMA RemovedDifferent ==
  ASSUME NEW q \in Seq(Jobs), NEW j, Holds(q, j),
         \A i, k \in 1 .. Len(q) : q[i] = q[k] => i = k
  PROVE  LET r == Removed(q, j)
         IN  ~ Holds(r, j) /\ \A i, k \in 1 .. Len(r) : r[i] = r[k] => i = k
<1>. DEFINE r == Removed(q, j)
            n == Len(q)
<1>1. PICK h : Without(r, q, h, j)
  BY RemovedProperties
<1>. HIDE DEF r
<1>2. /\ h \in 1 .. n /\ q[h] = j /\ n \in Nat /\ r \in Seq(Jobs) /\ Len(r) = n - 1
      /\ \A i \in 1 .. n - 1 : r[i] = IF i < h THEN q[i] ELSE q[i + 1]
  BY <1>1 DEF Without
<1>3. DOMAIN r = 1 .. n - 1
  BY <1>2
<1>. DEFINE at(i) == IF i < h THEN i ELSE i + 1
<1>4. \A i \in 1 .. n - 1 : at(i) \in 1 .. n /\ at(i) # h /\ r[i] = q[at(i)]
  BY <1>2
<1>5. \A i, k \in 1 .. n - 1 : at(i) = at(k) => i = k
  BY <1>2
<1>. HIDE DEF at
<1>6. \A i \in 1 .. n - 1 : r[i] # j
  BY <1>2, <1>4
<1>7. \A i, k \in 1 .. n - 1 : r[i] = r[k] => i = k
  BY <1>4, <1>5
<1>. QED
  BY <1>2, <1>3, <1>6, <1>7 DEF Holds, r

(* check_ACK removes the only trace of the job.                            *)
LEMMA UntraceForgets ==
  ASSUME Orderly, OrderInv, NEW j \in Jobs, Untrace(j)
  PROVE  ~ Holds(reserved', j) /\ ~ Holds(queues'[QueueOf(j)], j) /\ ReservedOnce'
<1>. DEFINE w == QueueOf(j)
<1>1. TypeInv /\ ReservedOnce /\ ReservedAccepted /\ Filed /\ Once(queues)
  BY DEF OrderInv, PlanInv, TableInv, Records, Tracing
<1>2. /\ reserved \in Seq(Jobs) /\ queues \in [Queues -> Seq(Jobs)] /\ w \in Queues
  BY <1>1, QueueOfType DEF TypeInv, TypeOK
<1>. HIDE DEF w
<1>3. CASE Holds(reserved, j)
  <2>1. reserved' = Removed(reserved, j) /\ queues' = queues
    BY <1>3 DEF Untrace
  <2>2. ~ Holds(reserved', j) /\ ReservedOnce'
    BY <1>1, <1>2, <1>3, <2>1, RemovedDifferent DEF ReservedOnce
  <2>3. PICK r \in Requests : r = Message("SB_RES", j)
    BY <1>1, <1>3 DEF ReservedAccepted, Reserved
  <2>4. \A i \in 1 .. Len(Load) : Load[i] # j
    BY <2>3, OrderlyRequest DEF Message
  <2>5. ~ Holds(queues[w], j)
    BY <1>1, <1>2, <2>4 DEF Filed
  <2>. QED
    BY <2>1, <2>2, <2>5 DEF w
<1>4. CASE ~ Holds(reserved, j)
  <2>1. /\ Holds(queues[w], j) /\ reserved' = reserved
        /\ queues' = [queues EXCEPT ![w] = Removed(queues[w], j)]
    BY <1>4 DEF Untrace, w
  <2>2. queues[w] \in Seq(Jobs)
    BY <1>2
  <2>3. \A i, k \in 1 .. Len(queues[w]) : queues[w][i] = queues[w][k] => i = k
    <3>1. w \in 1 .. Len(queues)
      BY <1>2, QueuesLen
    <3>. QED
      BY <1>1, <3>1 DEF Once
  <2>4. ~ Holds(Removed(queues[w], j), j)
    BY <2>1, <2>2, <2>3, RemovedDifferent
  <2>5. queues'[w] = Removed(queues[w], j)
    BY <1>2, <2>1
  <2>. QED
    BY <1>1, <1>4, <2>1, <2>4, <2>5 DEF ReservedOnce, w
<1>. QED
  BY <1>3, <1>4

(* The job that is over leaves every queue of the table.                   *)
LEMMA DoneLeaves ==
  ASSUME Orderly, OrderInv, NEW m \in stack, m.name = "SB_ACK"
  PROVE  On(DeleteDone(gantt, m.job), m.job) = {}
<1>. DEFINE j == m.job
            g == DeleteDone(gantt, j)
<1>1. gantt \in Tables /\ AllOrdered(gantt) /\ j \in Jobs
  BY DEF OrderInv, PlanInv, TableInv, TypeInv, TypeOK, Messages
<1>2. /\ g.chart = [n \in Nodes |-> IF gantt.chart[n] # <<>> /\ gantt.chart[n][1] = j
                                     THEN Tail(gantt.chart[n]) ELSE gantt.chart[n]]
      /\ g \in Tables
  <2>1. g \in Tables
    BY <1>1, DeleteDoneTyped
  <2>. QED
    BY <1>1, <2>1 DEF DeleteDone, Tables
<1>3. \A n \in Nodes : \A i \in 1 .. Len(gantt.chart[n]) : gantt.chart[n][i] = j => i = 1
  BY LeavesFirst
<1>. HIDE DEF j, g
<1>4. ASSUME NEW n \in Nodes PROVE NotIn(g.chart[n], j)
  <2>. DEFINE q == gantt.chart[n]
  <2>1. q \in Seq(Jobs) /\ \A i \in 1 .. Len(q) : q[i] = j => i = 1
    BY <1>1, <1>3 DEF Tables
  <2>2. g.chart[n] = IF q # <<>> /\ q[1] = j THEN Tail(q) ELSE q
    BY <1>2
  <2>. HIDE DEF q
  <2>3. CASE q # <<>> /\ q[1] = j
    <3>1. Len(Tail(q)) = Len(q) - 1 /\ \A i \in 1 .. Len(Tail(q)) : Tail(q)[i] = q[i + 1]
      BY <2>1, <2>3, HeadTailProperties
    <3>2. Len(q) \in Nat
      BY <2>1
    <3>3. \A i \in 1 .. Len(Tail(q)) : i + 1 \in 1 .. Len(q) /\ i + 1 # 1
      BY <3>1, <3>2
    <3>4. NotIn(Tail(q), j)
      BY <2>1, <3>1, <3>3 DEF NotIn
    <3>. QED
      BY <2>2, <2>3, <3>4
  <2>4. CASE q = <<>>
    BY <2>2, <2>4 DEF NotIn
  <2>5. CASE q # <<>> /\ q[1] # j
    <3>1. NotIn(q, j)
      BY <2>1, <2>5 DEF NotIn
    <3>. QED
      BY <2>2, <2>5, <3>1
  <2>. QED
    BY <2>3, <2>4, <2>5
<1>. QED
  BY <1>2, <1>4, AbsentOn DEF Absent, g, j

(* check_ACK forgets the job that is over and plans the waiting ones again.*)
LEMMA CheckAckRecords ==
  ASSUME Orderly, OrderInv, NEW j \in Jobs, CheckAck(j)
  PROVE  /\ Records'
         /\ \A x \in Jobs : state[x] = "PROCESSING" => gantt'.start[x] = gantt.start[x]
<1>. DEFINE waiting == {x \in Jobs : state'[x] = "WAITING"}
            movable == {x \in waiting : DeadlineOpen(x)}
            S == {x \in movable : ~ Untraced(queues', x)}
            g == DeleteDone(gantt, j)
            h == gantt'
            m == Message("SB_ACK", j)
<1>1. /\ Handle("SB_ACK", j) /\ Untrace(j)
      /\ state' = [state EXCEPT ![j] = "DONE"]
      /\ UNCHANGED <<req, clock, desc>>
  BY DEF CheckAck, Handle
<1>2. /\ TableInv /\ TypeInv /\ Walls /\ Agreement /\ Forgotten /\ ReservedOnce
      /\ ReservedAccepted /\ Honoured /\ Unstarted /\ Filed
  BY DEF OrderInv, PlanInv, TableInv, Records, Tracing
<1>3. TypeInv' /\ PlanInv
  BY <1>2, CheckAckTyped DEF OrderInv
<1>4. /\ gantt \in Tables /\ state \in [Jobs -> JobStates] /\ h \in Tables
      /\ desc \in [Jobs -> Descriptions]
      /\ queues \in [Queues -> Seq(Jobs)] /\ queues' \in [Queues -> Seq(Jobs)]
  BY <1>2, <1>3 DEF TypeInv, TypeOK
<1>5. Replanned(h, g, waiting, S, Procs, clock)
  BY <1>2, CheckAckSlots
<1>6. g \in Tables /\ g.wall = gantt.wall /\ \A x \in Jobs : x # j => Slot(g, x) = Slot(gantt, x)
  BY <1>4, DeleteDoneSlots, DeleteDoneTyped
<1>7. \A x \in Jobs : state'[x] = IF x = j THEN "DONE" ELSE state[x]
  BY <1>1, <1>4
<1>8. m \in stack /\ m.name = "SB_ACK" /\ m.job = j
  BY <1>1 DEF Handle, Message
<1>9. On(g, j) = {}
  BY <1>8, DoneLeaves
<1>10. \A x : x \in waiting <=> x \in Jobs /\ x # j /\ state[x] = "WAITING"
  BY <1>7
<1>11. \A x : x \in S <=> x \in waiting /\ ~ Untraced(queues', x)
  <2>1. \A x \in Jobs : DeadlineOpen(x)
    BY <1>2, OrderlyJob DEF DeadlineOpen
  <2>. QED
    BY <2>1
<1>12. state[j] = "PROCESSING"
  BY <1>2, <1>3, <1>8 DEF ExecInv, AcksSound, Running, PlanInv, OrderInv, Execution
<1>. HIDE DEF waiting, S, g, h, m
<1>13. \A x \in S : Given(h, x, desc[x].procs, clock)
  BY <1>5, <1>10, <1>11 DEF Replanned, Procs
<1>14. \A x \in waiting : x \notin S => On(h, x) = {}
  BY <1>4, <1>5, <1>10, AbsentOn DEF Replanned
<1>15. \A x \in Jobs : x \notin waiting /\ x # j => Slot(h, x) = Slot(gantt, x)
  BY <1>5, <1>6 DEF Replanned
<1>16. On(h, j) = {} /\ h.start[j] = gantt.start[j]
  <2>1. Slot(h, j) = Slot(g, j)
    BY <1>5, <1>10 DEF Replanned
  <2>2. g.start = gantt.start
    BY <1>4 DEF g, DeleteDone
  <2>. QED
    BY <1>9, <2>1, <2>2 DEF Slot
<1>17. /\ \A p \in Queues : \A x : Holds(queues'[p], x) => Holds(queues[p], x)
       /\ \A p \in Queues : \A x : x # j /\ Holds(queues[p], x) => Holds(queues'[p], x)
       /\ \A x : x # j /\ Holds(reserved, x) => Holds(reserved', x)
       /\ \A x : Holds(reserved', x) => Holds(reserved, x)
  <2>1. \A x : Holds(reserved', x) => Holds(reserved, x)
    <3>1. reserved \in Seq(Jobs)
      BY <1>2 DEF TypeInv, TypeOK
    <3>. QED
      BY <1>1, <3>1, RemovedHolds DEF Untrace
  <2>. QED
    BY <1>1, <1>2, <2>1, UntraceHolds
<1>18. ~ TracedAt(j)' /\ ReservedOnce'
  BY <1>1, UntraceForgets DEF TracedAt, QueueOf
<1>19. \A x : QueueOf(x)' = QueueOf(x)
  BY <1>1 DEF QueueOf
<1>20. \A x \in Jobs : x # j => (TracedAt(x)' <=> TracedAt(x))
  <2>1. \A x \in Jobs : QueueOf(x) \in Queues
    BY <1>4, QueueOfType
  <2>. QED
    BY <1>17, <1>19, <2>1 DEF TracedAt
<1>21. ASSUME NEW x \in waiting PROVE TracedAt(x)' <=> x \in S
  <2>1. x \in Jobs /\ x # j /\ state[x] = "WAITING" /\ QueueOf(x) \in Queues
    BY <1>4, <1>10, QueueOfType
  <2>2. ~ Holds(reserved', x)
    <3>1. ~ Reserved(x)
      BY <1>2, <2>1 DEF Reserved, Honoured, Message
    <3>. QED
      BY <1>2, <1>17, <2>1, <3>1 DEF ReservedAccepted
  <2>3. TracedAt(x)' <=> Holds(queues'[QueueOf(x)], x)
    BY <1>19, <2>2 DEF TracedAt
  <2>4. Untraced(queues', x) <=> \A p \in Queues : ~ Holds(queues'[p], x)
    BY <1>4, UntracedHolds
  <2>5. \A p \in Queues : Holds(queues'[p], x) => p = QueueOf(x)
    BY <1>2, <1>17, <2>1 DEF Filed
  <2>. QED
    BY <1>11, <2>1, <2>3, <2>4, <2>5
<1>22. Agreement'
  <2>1. ASSUME NEW x \in Jobs
        PROVE  IF TracedAt(x)'
                 THEN /\ On(h, x) = h.nodes[x] /\ Cardinality(h.nodes[x]) = desc[x].procs
                      /\ h.lead[x] \in h.nodes[x]
                 ELSE On(h, x) = {}
    <3>1. CASE x = j
      BY <1>16, <1>18, <3>1
    <3>2. CASE x \in S
      <4>1. x \in waiting /\ TracedAt(x)'
        BY <1>11, <1>21, <3>2
      <4>. QED
        BY <1>13, <3>2, <4>1 DEF Given
    <3>3. CASE x \in waiting /\ x \notin S
      BY <1>14, <1>21, <3>3
    <3>4. CASE x # j /\ x \notin waiting
      <4>1. Slot(h, x) = Slot(gantt, x) /\ InOrder(x) /\ (TracedAt(x)' <=> TracedAt(x))
        BY <1>2, <1>15, <1>20, <3>4 DEF Agreement
      <4>. HIDE DEF TracedAt
      <4>. QED
        BY <4>1, GivenInOrder DEF InOrder
    <3>. QED
      BY <3>1, <3>2, <3>3, <3>4
  <2>. QED
    BY <1>1, <2>1 DEF Agreement, InOrder, On, Planned, h
<1>23. \A x \in Jobs : x \notin waiting => h.start[x] = gantt.start[x]
  BY <1>15, <1>16 DEF Slot
<1>24. Walls'
  BY <1>1, <1>2, <1>5, <1>6 DEF Walls, Replanned, h
<1>25. Forgotten'
  BY <1>2, <1>7, <1>18, <1>20 DEF Forgotten
<1>26. ReservedAccepted'
  BY <1>1, <1>2, <1>17 DEF ReservedAccepted, Reserved
<1>27. Unstarted'
  <2>1. Coming' \subseteq Coming /\ Asked' = Asked
    BY <1>1, <1>2, HandledComing DEF Asked
  <2>2. j \notin Startable /\ \A x \in Startable : x \in Startable'
    BY <1>7, <1>12 DEF Startable
  <2>. QED
    BY <1>2, <2>1, <2>2 DEF Unstarted
<1>28. Honoured'
  <2>1. ASSUME NEW r \in Requests
        PROVE  /\ state'[r.job] # "WAITING"
               /\ req[r] = "SB_OK" /\ r.job \in Startable' =>
                    TracedAt(r.job)' /\ h.start[r.job] = desc[r.job].start
    <3>1. r.job \in Jobs /\ state[r.job] # "WAITING" /\ r.job \notin waiting
      BY <1>2, <1>10, OrderlyRequest DEF Honoured
    <3>2. r.job \in Startable' => r.job # j /\ r.job \in Startable
      BY <1>7, <3>1 DEF Startable
    <3>. QED
      BY <1>2, <1>7, <1>20, <1>23, <3>1, <3>2 DEF Honoured
  <2>. QED
    BY <1>1, <2>1 DEF Honoured, h
<1>29. \A x \in Jobs : state[x] = "PROCESSING" => h.start[x] = gantt.start[x]
  BY <1>10, <1>23
<1>. QED
  BY <1>18, <1>22, <1>24, <1>25, <1>26, <1>27, <1>28, <1>29 DEF Records, h

-----------------------------------------------------------------------------
(* The executions.                                                         *)

(* A supervisor that does nothing keeps its pace, if its job does.         *)
LEMMA SamePace ==
  ASSUME NEW s, AtPace(s), UNCHANGED <<clock, desc>>, CircularWait => CircularWait',
         spc'[s] = spc[s], sjob'[s] = sjob[s], swake'[s] = swake[s],
         spc[s] # "idle" => gantt'.start[sjob[s]] = gantt.start[sjob[s]]
  PROVE  AtPace(s)'
BY DEF AtPace, Entered, Ran, Left

(* The jobs in the hands of somebody are running.                          *)
LEMMA InHandsRunning ==
  ASSUME OrderInv
  PROVE  /\ rpc = "run" => state[rmJob] = "PROCESSING"
         /\ \A s \in Sups : spc[s] # "idle" => sjob[s] \in Jobs /\ state[sjob[s]] = "PROCESSING"
         /\ \A m \in stack : m.name = "SB_ACK" => m.job \in Jobs /\ state[m.job] = "PROCESSING"
<1>1. TypeInv /\ SupsSound /\ TimerSound /\ AcksSound /\ \A j \in Jobs : state[j] # "ERROR"
  BY DEF OrderInv, PlanInv, ExecInv, Execution
<1>2. \A s \in Sups : spc[s] # "idle" => sjob[s] \in Jobs
  BY <1>1 DEF TypeInv, HoldersKnown
<1>3. \A m \in stack : m.job \in Jobs
  BY <1>1 DEF TypeInv, TypeOK, Messages
<1>4. \A s \in Sups : spc[s] # "idle" => state[sjob[s]] \in Running
  BY <1>1, <1>2, JobsAssumption DEF SupsSound
<1>. QED
  BY <1>1, <1>2, <1>3, <1>4 DEF TimerSound, AcksSound, Running

(* A step of others: the jobs that run keep their start and their place.   *)
LEMMA QuietExecution ==
  ASSUME OrderInv, UNCHANGED <<clock, desc, rmJob, spc, sjob, swake>>,
         CircularWait => CircularWait',
         rpc' = rpc \/ (rpc # "run" /\ rpc' # "run"),
         \A m : m.name = "SB_ACK" /\ m \in stack' => m \in stack,
         \A m : m.name = "SB_ACK" /\ m \in stack => m \in stack' \/ state'[m.job] # "PROCESSING",
         \A x \in Jobs : state'[x] # "ERROR",
         \A x \in Jobs : state'[x] = "PROCESSING" => state[x] = "PROCESSING",
         \A x \in Jobs : state[x] = "PROCESSING" => gantt'.start[x] = gantt.start[x]
  PROVE  Execution'
<1>1. Execution
  BY DEF OrderInv
<1>2. /\ rpc = "run" => state[rmJob] = "PROCESSING" /\ rmJob \in Jobs
      /\ \A s \in Sups : spc[s] # "idle" => sjob[s] \in Jobs /\ state[sjob[s]] = "PROCESSING"
      /\ \A m \in stack : m.name = "SB_ACK" => m.job \in Jobs /\ state[m.job] = "PROCESSING"
  BY InHandsRunning DEF OrderInv, PlanInv, ExecInv, TypeInv, HoldersKnown
<1>3. \A j \in Jobs : state'[j] = "PROCESSING" => InHands(j)'
  BY <1>1 DEF Execution, InHands
<1>4. \A s \in Sups : AtPace(s)'
  BY <1>1, <1>2, SamePace DEF Execution, Pace
<1>5. rpc' = "run" => /\ gantt'.start[rmJob'] =< clock'
                      /\ CircularWait' \/ clock' = gantt'.start[rmJob']
  BY <1>1, <1>2 DEF Execution, Pace
<1>6. \A m \in stack' : m.name = "SB_ACK" => clock' = Left(m.job)'
  BY <1>1, <1>2 DEF Execution, Pace, Left, Ran, Entered
<1>. QED
  BY <1>3, <1>4, <1>5, <1>6 DEF Execution, Pace

(* The handlers, by what they do to the states and the starts.             *)
LEMMA HandledExecution ==
  ASSUME OrderInv, NEW STATE name, NEW STATE j, Handle(name, j), j \in Jobs,
         name # "SB_ACK" => state' = state,
         name = "SB_ACK" => state' = [state EXCEPT ![j] = "DONE"],
         \A x \in Jobs : state[x] = "PROCESSING" => gantt'.start[x] = gantt.start[x]
  PROVE  Execution'
<1>. DEFINE m == Message(name, j)
<1>1. /\ m \in stack /\ stack' = stack \ {m} /\ m.name = name /\ m.job = j
      /\ UNCHANGED <<clock, desc, rpc, rmJob, spc, sjob, swake>> /\ ~ CircularWait
  BY DEF Handle, Message, rmVars, supVars, CircularWait
<1>2. state \in [Jobs -> JobStates] /\ \A x \in Jobs : state[x] # "ERROR"
  BY DEF OrderInv, Execution, PlanInv, TableInv, TypeInv, TypeOK
<1>3. \A x \in Jobs : state'[x] = IF name = "SB_ACK" /\ x = j THEN "DONE" ELSE state[x]
  BY <1>2
<1>. HIDE DEF m
<1>. QED
  BY <1>1, <1>2, <1>3, QuietExecution

(* The handlers of the batch.                                              *)
LEMMA HandledOrder ==
  ASSUME Orderly, OrderInv, NEW j \in Jobs, HandleMessage(j)
  PROVE  Records' /\ Cleaned' /\ Execution'
<1>. DEFINE Goal == Records' /\ Execution'
<1>1. bpc' # "end"
  BY DEF HandleMessage, ScheduleTask, ReserveSlot, CheckAck, CancelTask, NextPc
<1>2. ASSUME ScheduleTask(j) PROVE Goal
  <2>1. Handle("SB_TASK", j) /\ state' = state /\ j \in Coming
    BY <1>2, HandledComing DEF ScheduleTask, OrderInv, PlanInv
  <2>2. Records' /\ \A x \in Jobs : x # j => gantt'.start[x] = gantt.start[x]
    BY <1>2, ScheduleTaskRecords
  <2>3. state[j] # "PROCESSING"
    BY <2>1 DEF OrderInv, Records, Unstarted, Startable
  <2>. QED
    BY <2>1, <2>2, <2>3, HandledExecution
<1>3. ASSUME ReserveSlot(j) PROVE Goal
  <2>1. Handle("SB_RES", j) /\ state' = state /\ Message("SB_RES", j) \in Asked
    BY <1>3, ReserveSlotSlots DEF ReserveSlot, OrderInv
  <2>2. Records' /\ \A x \in Jobs : x # j => gantt'.start[x] = gantt.start[x]
    BY <1>3, ReserveSlotRecords
  <2>3. state[j] # "PROCESSING"
    BY <2>1 DEF OrderInv, Records, Unstarted, Startable, Message
  <2>. QED
    BY <2>1, <2>2, <2>3, HandledExecution
<1>4. ASSUME CheckAck(j) PROVE Goal
  <2>1. Handle("SB_ACK", j) /\ state' = [state EXCEPT ![j] = "DONE"]
    BY <1>4 DEF CheckAck
  <2>2. Records' /\ \A x \in Jobs : state[x] = "PROCESSING" => gantt'.start[x] = gantt.start[x]
    BY <1>4, CheckAckRecords
  <2>. QED
    BY <2>1, <2>2, HandledExecution
<1>5. ~ CancelTask(j)
  BY DEF CancelTask, Handle, Message, OrderInv, PlanInv, NoCancelPending
<1>6. Goal
  BY <1>2, <1>3, <1>4, <1>5 DEF HandleMessage
<1>. QED
  BY <1>1, <1>6 DEF Cleaned

-----------------------------------------------------------------------------
(* The other steps.                                                        *)

(* They only take from the jobs that have not been planned yet.            *)
LEMMA QuietUnstarted ==
  ASSUME OrderInv, Coming' \subseteq Coming, Asked' \subseteq Asked,
         \A x \in Startable : x \in Coming' \/ (\E r \in Asked' : r.job = x) => x \in Startable'
  PROVE  Unstarted'
BY DEF OrderInv, Records, Unstarted

(* Nobody but the batch makes a request wait for its answer, or has jobs   *)
(* come.                                                                   *)
LEMMA SameAsked ==
  ASSUME UNCHANGED <<stack, loadPos, req>>
  PROVE  Coming' = Coming /\ Asked' = Asked
BY DEF Coming, Asked

(* The servers do not end in this step, and nothing is left if they have.  *)
LEMMA QuietCleaned ==
  ASSUME OrderInv, bpc' = "end" => bpc = "end" /\ UNCHANGED <<queues, reserved, desc, spc>>
  PROVE  Cleaned'
BY DEF OrderInv, Cleaned, TracedAt, QueueOf

(* get_task: a supervisor that has sent its SB_ACK forgets the job.        *)
LEMMA ReceiveAckExecution ==
  ASSUME OrderInv, NEW s \in Sups, ReceiveAck(s)
  PROVE  Execution'
<1>. DEFINE m == Message("SB_ACK", sjob[s])
<1>1. /\ spc[s] = "ack" /\ spc' = [spc EXCEPT ![s] = "idle"]
      /\ sjob' = [sjob EXCEPT ![s] = NoJob] /\ stack' = stack \cup {m}
      /\ m.name = "SB_ACK" /\ m.job = sjob[s]
      /\ UNCHANGED <<clock, desc, state, gantt, rpc, rmJob, swake>>
      /\ ~ CircularWait
  BY DEF ReceiveAck, AckPending, BatchTakes, Message, clusterVars, rmVars, CircularWait
<1>2. /\ spc \in [Sups -> SupPcs] /\ sjob \in [Sups -> Jobs \cup {NoJob}] /\ Execution
  BY DEF OrderInv, PlanInv, TableInv, TypeInv, TypeOK
<1>. HIDE DEF m
<1>3. \A t \in Sups : t # s => spc'[t] = spc[t] /\ sjob'[t] = sjob[t] /\ swake'[t] = swake[t]
  BY <1>1, <1>2
<1>4. ASSUME NEW t \in Sups PROVE AtPace(t)'
  <2>1. CASE t = s
    BY <1>1, <1>2, <2>1 DEF AtPace
  <2>2. CASE t # s
    BY <1>1, <1>2, <1>3, <2>2, SamePace DEF Execution, Pace
  <2>. QED
    BY <2>1, <2>2
<1>5. clock = Left(sjob[s])
  BY <1>1, <1>2 DEF Execution, Pace, AtPace
<1>6. \A o \in stack' : o.name = "SB_ACK" => clock' = Left(o.job)'
  BY <1>1, <1>2, <1>5 DEF Execution, Pace, Left, Ran, Entered
<1>7. ASSUME NEW j \in Jobs, state'[j] = "PROCESSING" PROVE InHands(j)'
  <2>1. InHands(j)
    BY <1>1, <1>2, <1>7 DEF Execution
  <2>2. CASE j = sjob[s]
    BY <1>1, <2>2 DEF InHands
  <2>3. CASE j # sjob[s]
    BY <1>1, <1>3, <2>1, <2>3 DEF InHands
  <2>. QED
    BY <2>2, <2>3
<1>. QED
  BY <1>1, <1>2, <1>4, <1>6, <1>7 DEF Execution, Pace

(* The batch receives.                                                     *)
LEMMA BatchStepOrder ==
  ASSUME OrderInv, BatchStep
  PROVE  Records' /\ Cleaned' /\ Execution'
<1>1. /\ UNCHANGED <<gantt, queues, reserved, desc, state, clock, rpc, rmJob, swake>>
  BY DEF BatchStep, ReceiveAck, ReceiveTask, ReceiveRequest, SortStack, Reply, Resume,
         BatchTakes, clusterVars, rmVars, supVars
<1>2. ~ Reply /\ ~ CircularWait
  BY DEF Reply, OrderInv, PlanInv, NoCancelPending, CircularWait, BatchStep, ReceiveAck,
         ReceiveTask, ReceiveRequest, SortStack, Resume, BatchTakes
<1>3. Coming' \subseteq Coming
  BY BatchStepComing DEF OrderInv, PlanInv
<1>4. req \in [Requests -> {"new", "sent", "await"} \cup Answers]
  BY DEF OrderInv, PlanInv, TableInv, TypeInv, TypeOK
<1>5. req' = req \/ \E r \in Requests : req[r] = "sent" /\ req' = [req EXCEPT ![r] = "await"]
  BY <1>2 DEF BatchStep, ReceiveAck, ReceiveTask, ReceiveRequest, RequestPending, SortStack,
              Resume
<1>6. \A r \in Requests : \/ req'[r] = req[r]
                          \/ req[r] = "sent" /\ req'[r] = "await"
  BY <1>4, <1>5
<1>7. Asked' \subseteq Asked /\ \A r \in Requests : req'[r] = "SB_OK" <=> req[r] = "SB_OK"
  BY <1>6 DEF Asked
<1>8. Unstarted'
  BY <1>1, <1>3, <1>7, QuietUnstarted DEF Startable
<1>9. Records'
  BY <1>1, <1>7, <1>8, QuietRecords
<1>10. Cleaned'
  <2>1. bpc' # "end"
    BY <1>2 DEF BatchStep, ReceiveAck, ReceiveTask, ReceiveRequest, SortStack, Resume, NextPc,
                BatchTakes
  <2>. QED
    BY <2>1, QuietCleaned
<1>11. CASE \E s \in Sups : ReceiveAck(s)
  BY <1>9, <1>10, <1>11, ReceiveAckExecution
<1>12. CASE ReceiveTask \/ (\E r \in Requests : ReceiveRequest(r)) \/ SortStack \/ Resume
  <2>1. UNCHANGED <<spc, sjob>>
    BY <1>12 DEF ReceiveTask, ReceiveRequest, SortStack, Resume, supVars
  <2>2. \/ stack' = stack
        \/ \E name \in RequestKinds \cup {"SB_TASK"} : \E j : stack' = stack \cup {Message(name, j)}
    <3>1. \A r \in Requests : r.name \in RequestKinds
      BY RequestsAssumption
    <3>. QED
      BY <1>12, <3>1 DEF ReceiveTask, ReceiveRequest, SortStack, Resume, BatchTakes
  <2>3. \A m : m.name = "SB_ACK" => (m \in stack' <=> m \in stack)
    BY <2>2 DEF Message, RequestKinds
  <2>4. Execution'
    BY <1>1, <1>2, <2>1, <2>3, QuietExecution DEF OrderInv, Execution
  <2>. QED
    BY <1>9, <1>10, <2>4
<1>. QED
  BY <1>2, <1>11, <1>12 DEF BatchStep

(* A job is started, or none is; those that run are held by somebody else. *)
LEMMA StartOrder ==
  ASSUME OrderInv, StartsOnPlanStep, bpc # "end",
         UNCHANGED <<clock, desc, gantt, queues, reserved, stack, loadPos, req, bpc>>,
         \/ rpc' = "wait" /\ state' = state
         \/ /\ rpc' = "run" /\ rmJob' \in Startable
            /\ state' = [state EXCEPT ![rmJob'] = "PROCESSING"],
         \A s \in Sups : AtPace(s)',
         \A j \in Jobs : state[j] = "PROCESSING" =>
           \/ \E s \in Sups : sjob'[s] = j
           \/ \E m \in stack : m.name = "SB_ACK" /\ m.job = j
  PROVE  Records' /\ Cleaned' /\ Execution'
<1>1. /\ state \in [Jobs -> JobStates] /\ gantt \in Tables
      /\ Execution /\ PlanInv /\ TableInv /\ BookingsFree /\ Fresh
  BY DEF OrderInv, PlanInv, TableInv, TypeInv, TypeOK, Bookings
<1>2. \A x \in Jobs : state'[x] = IF rpc' = "run" /\ x = rmJob' THEN "PROCESSING" ELSE state[x]
  BY <1>1
<1>3. rpc' = "run" => /\ rmJob' \in Jobs /\ state[rmJob'] # "PROCESSING"
                      /\ clock = gantt.start[rmJob'] /\ ~ Absent(gantt, rmJob')
  <2>. SUFFICES ASSUME rpc' = "run"
                PROVE  /\ rmJob' \in Jobs /\ state[rmJob'] # "PROCESSING"
                       /\ clock = gantt.start[rmJob'] /\ ~ Absent(gantt, rmJob')
    OBVIOUS
  <2>1. rmJob' \in Jobs /\ state[rmJob'] # "PROCESSING" /\ state'[rmJob'] = "PROCESSING"
    BY <1>2 DEF Startable
  <2>2. clock = gantt.start[rmJob'] /\ NodesOf(rmJob') # {}
    BY <2>1 DEF StartsOnPlanStep
  <2>3. ~ Absent(gantt, rmJob')
    BY <1>1, <2>2, PlannedNotIn DEF NodesOf, Absent
  <2>. QED
    BY <2>1, <2>2, <2>3
<1>4. Coming' = Coming /\ Asked' = Asked
  BY SameAsked
<1>5. Unstarted'
  <2>1. ASSUME NEW x \in Startable, x \in Coming \/ \E r \in Asked : r.job = x
        PROVE  x \in Startable'
    <3>1. Absent(gantt, x) /\ x \in Jobs
      BY <1>1, <2>1 DEF Fresh, BookingsFree, Startable
    <3>. QED
      BY <1>2, <1>3, <2>1, <3>1 DEF Startable
  <2>. QED
    BY <1>4, <2>1, QuietUnstarted
<1>6. Records'
  BY <1>2, <1>3, <1>5, QuietRecords
<1>7. Cleaned'
  BY QuietCleaned
<1>8. \A x \in Jobs : state'[x] # "ERROR"
  BY <1>1, <1>2 DEF Execution
<1>9. \A x \in Jobs : state'[x] = "PROCESSING" => InHands(x)'
  BY <1>2 DEF InHands
<1>10. Pace'
  <2>1. rpc' = "run" => gantt'.start[rmJob'] =< clock' /\ clock' = gantt'.start[rmJob']
    BY <1>1, <1>3 DEF Tables
  <2>2. \A m \in stack' : m.name = "SB_ACK" => clock' = Left(m.job)'
    BY <1>1 DEF Execution, Pace, Left, Ran, Entered
  <2>. QED
    BY <2>1, <2>2 DEF Pace
<1>. QED
  BY <1>6, <1>7, <1>8, <1>9, <1>10 DEF Execution

(* get_next_wakeup_time starts a job that is still to be started, or none. *)
LEMMA NextWakeupStarts ==
  ASSUME TypeInv, NextWakeup(pool)
  PROVE  \/ rpc' = "wait" /\ state' = state
         \/ /\ rpc' = "run" /\ rmJob' \in Startable
            /\ state' = [state EXCEPT ![rmJob'] = "PROCESSING"]
<1>1. gantt \in Tables
  BY DEF TypeInv, TypeOK
<1>2. NodesToStart(gantt, Startable) # {} => NextJob(gantt, Startable) \in Startable
  BY <1>1, NextJobType
<1>. QED
  BY <1>2 DEF NextWakeup, Dispatch

(* The supervisor takes RUN: the job is at its start.                      *)
LEMMA RunTakenPace ==
  ASSUME OrderInv, RunTaken
  PROVE  /\ \A s \in Sups : AtPace(s)'
         /\ \A j \in Jobs : state[j] = "PROCESSING" =>
              \/ \E s \in Sups : sjob'[s] = j
              \/ \E m \in stack : m.name = "SB_ACK" /\ m.job = j
<1>1. /\ rpc = "run" /\ spc[rmSup] = "idle"
      /\ spc' = [spc EXCEPT ![rmSup] = "start"] /\ sjob' = [sjob EXCEPT ![rmSup] = rmJob]
      /\ UNCHANGED <<clock, desc, gantt, swake, stack>>
  BY DEF RunTaken, clusterVars, batchVars
<1>2. ~ CircularWait
  BY <1>1 DEF CircularWait
<1>3. /\ spc \in [Sups -> SupPcs] /\ sjob \in [Sups -> Jobs \cup {NoJob}]
      /\ rmSup \in Sups /\ Execution /\ SupsSound /\ gantt \in Tables /\ rmJob \in Jobs
  BY <1>1 DEF OrderInv, PlanInv, TableInv, TypeInv, TypeOK, HoldersKnown, ExecInv
<1>4. \A s \in Sups : s # rmSup => spc'[s] = spc[s] /\ sjob'[s] = sjob[s] /\ swake'[s] = swake[s]
  BY <1>1, <1>3
<1>5. spc'[rmSup] = "start" /\ sjob'[rmSup] = rmJob
  BY <1>1, <1>3
<1>6. ASSUME NEW s \in Sups PROVE AtPace(s)'
  <2>1. CASE s = rmSup
    <3>1. clock = gantt.start[rmJob] /\ gantt.start[rmJob] \in Nat
      BY <1>2, <1>1, <1>3 DEF Execution, Pace, Tables
    <3>. QED
      BY <1>1, <1>5, <2>1, <3>1 DEF AtPace
  <2>2. CASE s # rmSup
    BY <1>2, <1>1, <1>3, <1>4, <2>2, SamePace DEF Execution, Pace
  <2>. QED
    BY <2>1, <2>2
<1>7. ASSUME NEW j \in Jobs, state[j] = "PROCESSING"
      PROVE  \/ \E s \in Sups : sjob'[s] = j
             \/ \E m \in stack : m.name = "SB_ACK" /\ m.job = j
  <2>1. InHands(j)
    BY <1>3, <1>7 DEF Execution
  <2>2. ASSUME rmJob = j PROVE \E s \in Sups : sjob'[s] = j
    BY <1>3, <1>5, <2>2
  <2>3. ASSUME NEW s \in Sups, sjob[s] = j PROVE sjob'[s] = j
    <3>1. s # rmSup
      BY <1>1, <1>3, <2>3, JobsAssumption DEF SupsSound
    <3>. QED
      BY <1>4, <2>3, <3>1
  <2>. QED
    BY <2>1, <2>2, <2>3 DEF InHands
<1>. QED
  BY <1>6, <1>7

(* RM_ATTACH: the job is over, and stays in the hands of its supervisor.   *)
LEMMA ReceiveAttachExecution ==
  ASSUME OrderInv, NEW s \in Sups, ReceiveAttach(s)
  PROVE  Execution'
<1>1. /\ rpc \in {"wait", "drain"} /\ rpc' = "drain"
      /\ spc[s] = "attach" /\ spc' = [spc EXCEPT ![s] = "told"]
      /\ UNCHANGED <<clock, desc, state, gantt, stack, sjob, swake>>
      /\ ~ CircularWait
  BY DEF ReceiveAttach, AttachPending, clusterVars, batchVars, CircularWait
<1>2. spc \in [Sups -> SupPcs] /\ Execution
  BY DEF OrderInv, PlanInv, TableInv, TypeInv, TypeOK
<1>3. ASSUME NEW t \in Sups PROVE AtPace(t)'
  <2>1. CASE t = s
    BY <1>1, <1>2, <2>1 DEF Execution, Pace, AtPace, Left, Ran, Entered
  <2>2. CASE t # s
    <3>1. spc'[t] = spc[t]
      BY <1>1, <1>2, <2>2
    <3>. QED
      BY <1>1, <1>2, <3>1, SamePace DEF Execution, Pace
  <2>. QED
    BY <2>1, <2>2
<1>4. \A m \in stack' : m.name = "SB_ACK" => clock' = Left(m.job)'
  BY <1>1, <1>2 DEF Execution, Pace, Left, Ran, Entered
<1>5. \A j \in Jobs : state'[j] = "PROCESSING" => InHands(j)'
  BY <1>1, <1>2 DEF Execution, InHands
<1>. QED
  BY <1>1, <1>2, <1>3, <1>4, <1>5 DEF Execution, Pace

(* The resource manager.                                                   *)
LEMMA RmStepOrder ==
  ASSUME OrderInv, StartsOnPlanStep, RmStep
  PROVE  Records' /\ Cleaned' /\ Execution'
<1>1. /\ UNCHANGED <<clock, desc, gantt, queues, reserved, stack, req, loadPos, swake>>
      /\ rpc # "end"
  BY DEF RmStep, RmTimeout, TimerDue, ReceiveAttach, ReceiveUpdate, RmDrained, RunTaken,
         RmNext, clusterVars, batchVars, supVars, loadVars
<1>2. ~ CircularWait
  BY DEF CircularWait, RmStep, RmTimeout, TimerDue, ReceiveAttach, ReceiveUpdate, RmDrained,
         RunTaken, RmNext
<1>3. bpc # "end"
  BY <1>1 DEF OrderInv, PlanInv, Timing, EndTogether
<1>4. Execution /\ TypeInv
  BY DEF OrderInv, PlanInv, TableInv
<1>5. ASSUME UNCHANGED <<spc, sjob>>, rpc # "run"
      PROVE  /\ \A s \in Sups : AtPace(s)'
             /\ \A j \in Jobs : state[j] = "PROCESSING" =>
                  \/ \E s \in Sups : sjob'[s] = j
                  \/ \E m \in stack : m.name = "SB_ACK" /\ m.job = j
  <2>1. \A s \in Sups : AtPace(s)'
    BY <1>2, <1>1, <1>4, <1>5, SamePace DEF Execution, Pace
  <2>. QED
    BY <1>4, <1>5, <2>1 DEF Execution, InHands
<1>6. CASE RmTimeout
  <2>1. /\ rpc = "wait" /\ rmJob # NoJob /\ Dispatch(rmJob, pool)
        /\ UNCHANGED <<bpc, spc, sjob>>
    BY <1>6 DEF RmTimeout, TimerDue, batchVars, supVars
  <2>2. rmJob \in Startable
    BY <1>4, <2>1 DEF OrderInv, PlanInv, ExecInv, TimerSound, Startable, TypeInv, TypeOK
  <2>3. rpc' = "run" /\ rmJob' = rmJob /\ state' = [state EXCEPT ![rmJob'] = "PROCESSING"]
    BY <2>1 DEF Dispatch
  <2>. QED
    BY <1>1, <1>3, <1>5, <2>1, <2>2, <2>3, StartOrder
<1>7. CASE RmDrained \/ RmNext
  <2>1. rpc \in {"drain", "next"} /\ NextWakeup(pool) /\ UNCHANGED <<bpc, spc, sjob>>
    BY <1>7 DEF RmDrained, RmNext, batchVars, supVars
  <2>. QED
    BY <1>1, <1>3, <1>4, <1>5, <2>1, NextWakeupStarts, StartOrder
<1>8. ASSUME UNCHANGED state, bpc' # "end", Execution' PROVE Records' /\ Cleaned' /\ Execution'
  <2>1. Unstarted'
    BY <1>1, <1>8, SameAsked, QuietUnstarted DEF Startable
  <2>2. Records'
    BY <1>1, <1>8, <2>1, QuietRecords
  <2>. QED
    BY <1>8, <2>2, QuietCleaned
<1>9. CASE RunTaken
  <2>1. UNCHANGED <<state, bpc>> /\ rpc' = "next"
    BY <1>9 DEF RunTaken, clusterVars, batchVars
  <2>2. Pace'
    BY <1>2, <1>1, <1>4, <1>9, <2>1, RunTakenPace DEF Execution, Pace, Left, Ran, Entered
  <2>3. Execution'
    BY <1>1, <1>4, <1>9, <2>1, <2>2, RunTakenPace DEF Execution, InHands
  <2>. QED
    BY <1>3, <1>8, <2>1, <2>3
<1>10. ASSUME NEW s \in Sups, ReceiveAttach(s) PROVE Records' /\ Cleaned' /\ Execution'
  <2>1. UNCHANGED <<state, bpc>>
    BY <1>10 DEF ReceiveAttach, clusterVars, batchVars
  <2>. QED
    BY <1>3, <1>8, <1>10, <2>1, ReceiveAttachExecution
<1>11. CASE ReceiveUpdate
  <2>1. UNCHANGED <<state, rmJob, spc, sjob>> /\ bpc' = "recv" /\ rpc # "run" /\ rpc' = "drain"
    BY <1>11 DEF ReceiveUpdate, clusterVars, supVars
  <2>2. Execution'
    BY <1>2, <1>1, <1>4, <2>1, QuietExecution DEF Execution
  <2>. QED
    BY <1>8, <2>1, <2>2
<1>. QED
  BY <1>6, <1>7, <1>9, <1>10, <1>11 DEF RmStep

-----------------------------------------------------------------------------
(* The supervisors.                                                        *)

(* Without deadline a job runs from now on for its run or wall time.       *)
LEMMA ExecuteRuns ==
  ASSUME Orderly, OrderInv, NEW s \in Sups, spc[s] # "idle", Execute(s)
  PROVE  /\ state' = state
         /\ spc' = [spc EXCEPT ![s] = "run"]
         /\ swake' = [swake EXCEPT ![s] = clock + Cut(desc[sjob[s]])]
<1>. DEFINE j == sjob[s]
<1>1. TypeInv /\ Walls
  BY DEF OrderInv, PlanInv, TableInv, Records
<1>2. j \in Jobs
  BY <1>1 DEF TypeInv, HoldersKnown
<1>3. desc[j].deadline = NoDeadline /\ gantt.wall[j] = desc[j].wall
  BY <1>1, <1>2, OrderlyJob DEF Walls
<1>4. DeadlineOpen(j)
  BY <1>3 DEF DeadlineOpen
<1>. QED
  BY <1>3, <1>4 DEF Execute, Cut

(* Each step of a supervisor comes at its date.                            *)
LEMMA SuperviseOrder ==
  ASSUME Orderly, OrderInv, NEW s \in Sups, Supervise(s), CircularWait => CircularWait'
  PROVE  Records' /\ Cleaned' /\ Execution'
<1>. DEFINE j == sjob[s]
<1>1. /\ UNCHANGED <<clock, desc, gantt, queues, reserved, bpc, stack, req, rpc, rmJob, sjob,
                     loadPos>>
      /\ spc[s] # "idle"
  BY DEF Supervise, SupStart, NodeReceive, InputReceived, SupFinish, OutputReturned,
         TellBatch, SupFrame, batchVars, rmVars, loadVars
<1>2. /\ TypeInv /\ Walls /\ Execution /\ AtPace(s) /\ bpc # "end"
      /\ spc \in [Sups -> SupPcs] /\ swake \in [Sups -> Nat] /\ clock \in Nat
  BY <1>1 DEF OrderInv, PlanInv, TableInv, Records, TypeInv, TypeOK, Execution, Pace, Cleaned
<1>3. j \in Jobs
  BY <1>1, <1>2 DEF TypeInv, HoldersKnown
<1>4. /\ gantt.start[j] \in Nat /\ Entered(j) \in Nat /\ Ran(j) \in Nat /\ Left(j) \in Nat
      /\ gantt.start[j] =< Entered(j) /\ Entered(j) =< Ran(j) /\ Ran(j) =< Left(j)
      /\ Entered(j) = gantt.start[j] + desc[j].input
      /\ Ran(j) = Entered(j) + Cut(desc[j])
      /\ Left(j) = Ran(j) + desc[j].output
      /\ desc[j].input \in Nat /\ Cut(desc[j]) \in Nat /\ desc[j].output \in Nat
  BY <1>2, <1>3, Dates, OrderlyJob DEF Entered, Ran, Left
<1>5. Entered(j)' = Entered(j) /\ Ran(j)' = Ran(j) /\ Left(j)' = Left(j)
  BY <1>1 DEF Entered, Ran, Left
<1>6. ASSUME NEW pc \in SupPcs, NEW t \in Nat,
             spc' = [spc EXCEPT ![s] = pc], swake'[s] = t,
             \A u \in Sups : u # s => swake'[u] = swake[u],
             UNCHANGED state, AtPace(s)'
      PROVE  Execution'
  <2>1. ASSUME NEW u \in Sups PROVE AtPace(u)'
    <3>1. CASE u # s
      <4>1. spc'[u] = spc[u]
        BY <1>2, <1>6, <3>1
      <4>. QED
        BY <1>1, <1>2, <1>6, <3>1, <4>1, SamePace DEF Execution, Pace
    <3>. QED
      BY <1>6, <3>1
  <2>2. \A m \in stack' : m.name = "SB_ACK" => clock' = Left(m.job)'
    BY <1>1, <1>2 DEF Execution, Pace, Left, Ran, Entered
  <2>3. \A x \in Jobs : state'[x] = "PROCESSING" => InHands(x)'
    BY <1>1, <1>2, <1>6 DEF Execution, InHands
  <2>. QED
    BY <1>1, <1>2, <1>6, <2>1, <2>2, <2>3 DEF Execution, Pace
<1>7. ASSUME SupStart(s) /\ desc[j].input > 0 PROVE Execution'
  <2>1. spc[s] = "start" /\ spc' = [spc EXCEPT ![s] = "in"] /\ UNCHANGED <<state, swake>>
    BY <1>7 DEF SupStart
  <2>2. spc'[s] = "in" /\ clock = gantt.start[j]
    BY <1>2, <2>1 DEF AtPace
  <2>3. AtPace(s)'
    BY <1>1, <1>4, <1>7, <2>2 DEF AtPace
  <2>. QED
    BY <1>2, <1>6, <2>1, <2>3 DEF SupPcs
<1>8. ASSUME (SupStart(s) /\ ~ (desc[j].input > 0)) \/ InputReceived(s) PROVE Execution'
  <2>1. Execute(s)
    BY <1>8 DEF SupStart, InputReceived
  <2>2. /\ state' = state /\ spc' = [spc EXCEPT ![s] = "run"]
        /\ swake' = [swake EXCEPT ![s] = clock + Cut(desc[j])]
    BY <1>1, <2>1, ExecuteRuns
  <2>3. clock = Entered(j)
    <3>1. CASE SupStart(s) /\ ~ (desc[j].input > 0)
      <4>1. spc[s] = "start" /\ desc[j].input = 0
        BY <1>4, <3>1 DEF SupStart
      <4>. QED
        BY <1>2, <1>4, <4>1 DEF AtPace
    <3>2. CASE InputReceived(s)
      <4>1. spc[s] = "receiving" /\ clock >= swake[s]
        BY <3>2 DEF InputReceived, Over
      <4>. QED
        BY <1>2, <1>4, <4>1 DEF AtPace
    <3>. QED
      BY <1>8, <3>1, <3>2
  <2>4. spc'[s] = "run" /\ swake'[s] = Ran(j) /\ \A u \in Sups : u # s => swake'[u] = swake[u]
    BY <1>2, <1>4, <2>2, <2>3
  <2>5. AtPace(s)'
    BY <1>1, <1>4, <1>5, <2>3, <2>4 DEF AtPace
  <2>. QED
    BY <1>4, <1>6, <2>2, <2>4, <2>5 DEF SupPcs
<1>9. ASSUME NodeReceive(s) /\ spc[s] = "in" PROVE Execution'
  <2>1. /\ spc' = [spc EXCEPT ![s] = "receiving"] /\ state' = state
        /\ swake' = [swake EXCEPT ![s] = clock + desc[j].input]
    BY <1>9 DEF NodeReceive
  <2>2. clock = gantt.start[j]
    BY <1>2, <1>9 DEF AtPace
  <2>3. /\ spc'[s] = "receiving" /\ swake'[s] = Entered(j)
        /\ \A u \in Sups : u # s => swake'[u] = swake[u]
    BY <1>2, <1>4, <2>1, <2>2
  <2>4. AtPace(s)'
    BY <1>1, <1>4, <1>5, <2>2, <2>3 DEF AtPace
  <2>. QED
    BY <1>4, <1>6, <2>1, <2>3, <2>4 DEF SupPcs
<1>10. ASSUME NodeReceive(s) /\ spc[s] # "in" PROVE Execution'
  <2>1. /\ spc[s] = "out" /\ spc' = [spc EXCEPT ![s] = "returning"] /\ state' = state
        /\ swake' = [swake EXCEPT ![s] = clock + desc[j].output]
    BY <1>10 DEF NodeReceive
  <2>2. clock = Ran(j)
    BY <1>2, <2>1 DEF AtPace
  <2>3. /\ spc'[s] = "returning" /\ swake'[s] = Left(j)
        /\ \A u \in Sups : u # s => swake'[u] = swake[u]
    BY <1>2, <1>4, <2>1, <2>2
  <2>4. AtPace(s)'
    BY <1>1, <1>4, <1>5, <2>2, <2>3 DEF AtPace
  <2>. QED
    BY <1>4, <1>6, <2>1, <2>3, <2>4 DEF SupPcs
<1>11. ASSUME SupFinish(s) PROVE Execution'
  <2>1. /\ spc[s] = "run" /\ clock >= swake[s] /\ UNCHANGED <<state, swake>>
        /\ spc' = [spc EXCEPT ![s] = IF desc[j].output > 0 THEN "out" ELSE "attach"]
    BY <1>11 DEF SupFinish, Over
  <2>2. swake[s] = Ran(j) /\ clock =< Ran(j)
    BY <1>2, <2>1 DEF AtPace
  <2>3. clock = Ran(j)
    <3>1. clock \in Nat /\ Ran(j) \in Nat /\ clock >= swake[s]
      BY <1>2, <1>4, <2>1
    <3>. QED
      BY <2>2, <3>1
  <2>4. spc'[s] = IF desc[j].output > 0 THEN "out" ELSE "attach"
    BY <1>2, <2>1
  <2>5. AtPace(s)'
    BY <1>1, <1>4, <1>5, <2>3, <2>4 DEF AtPace
  <2>. QED
    BY <1>2, <1>6, <2>1, <2>5 DEF SupPcs
<1>12. ASSUME OutputReturned(s) PROVE Execution'
  <2>1. /\ spc[s] = "returning" /\ clock >= swake[s] /\ UNCHANGED <<state, swake>>
        /\ spc' = [spc EXCEPT ![s] = "attach"]
    BY <1>12 DEF OutputReturned, Over
  <2>2. clock = Left(j)
    BY <1>2, <1>4, <2>1 DEF AtPace
  <2>3. spc'[s] = "attach"
    BY <1>2, <2>1
  <2>4. AtPace(s)'
    BY <1>1, <1>4, <1>5, <2>2, <2>3 DEF AtPace
  <2>. QED
    BY <1>2, <1>6, <2>1, <2>4 DEF SupPcs
<1>13. ASSUME TellBatch(s) PROVE Execution'
  <2>1. /\ spc[s] = "told" /\ UNCHANGED <<state, swake>>
        /\ spc' = [spc EXCEPT ![s] = "ack"] /\ spc'[s] = "ack"
    BY <1>2, <1>13 DEF TellBatch
  <2>2. AtPace(s)'
    BY <1>1, <1>2, <1>5, <2>1 DEF AtPace
  <2>. QED
    BY <1>2, <1>6, <2>1, <2>2 DEF SupPcs
<1>14. Execution'
  BY <1>7, <1>8, <1>9, <1>10, <1>11, <1>12, <1>13 DEF Supervise
<1>15. UNCHANGED state
  BY <1>1, ExecuteRuns DEF Supervise, SupStart, NodeReceive, InputReceived, SupFinish,
                           OutputReturned, TellBatch
<1>16. Unstarted'
  BY <1>1, <1>15, SameAsked, QuietUnstarted DEF Startable
<1>17. Records'
  BY <1>1, <1>15, <1>16, QuietRecords
<1>18. Cleaned'
  BY <1>1, <1>2, QuietCleaned
<1>. QED
  BY <1>14, <1>17, <1>18

-----------------------------------------------------------------------------
(* Time.                                                                   *)

(* Two jobs planned on a node have their slots one after the other.        *)
LEMMA SlotsApart ==
  ASSUME NEW g \in Tables, AllOrdered(g), NEW n \in Nodes,
         NEW x \in Planned(g, n), NEW y \in Planned(g, n), x # y
  PROVE  End(g, x) =< g.start[y] \/ End(g, y) =< g.start[x]
<1>1. DOMAIN g.chart[n] = 1 .. Len(g.chart[n])
  BY DEF Tables
<1>2. PICK i, k \in 1 .. Len(g.chart[n]) : g.chart[n][i] = x /\ g.chart[n][k] = y
  BY <1>1 DEF Planned
<1>3. i < k \/ k < i
  BY <1>2
<1>. QED
  BY <1>2, <1>3 DEF AllOrdered, Ordered

(* A job that runs is planned on the nodes it runs on.                     *)
LEMMA RunsWherePlanned ==
  ASSUME OrderInv, NEW j \in Jobs, state[j] = "PROCESSING"
  PROVE  On(gantt, j) = gantt.nodes[j] /\ gantt.lead[j] \in gantt.nodes[j]
<1>1. TracedAt(j)
  BY DEF OrderInv, PlanInv, Tracing, PlannedTraced, Running
<1>. QED
  BY <1>1 DEF OrderInv, Records, Agreement, InOrder

(* When time passes a job that executes is between its start and its end.  *)
LEMMA ExecutingEarly ==
  ASSUME Orderly, OrderInv, ~ Busy, NEW s \in Sups, Executing(s)
  PROVE  gantt.start[sjob[s]] =< clock /\ clock < Left(sjob[s])
<1>. DEFINE j == sjob[s]
<1>1. TypeInv /\ Walls /\ AtPace(s) /\ spc[s] # "idle"
  BY DEF OrderInv, PlanInv, TableInv, Records, Execution, Pace, Executing
<1>2. j \in Jobs /\ swake \in [Sups -> Nat] /\ clock \in Nat
  BY <1>1 DEF TypeInv, TypeOK, HoldersKnown
<1>3. /\ gantt.start[j] \in Nat /\ Entered(j) \in Nat /\ Ran(j) \in Nat /\ Left(j) \in Nat
      /\ Entered(j) =< Ran(j) /\ Ran(j) =< Left(j) /\ gantt.start[j] < Left(j)
      /\ desc[j].output > 0 => Ran(j) < Left(j)
  BY <1>1, <1>2, Dates
<1>4. gantt.start[j] =< clock
  BY <1>1 DEF AtPace
<1>5. CASE spc[s] \in {"receiving", "run", "returning"}
  <2>1. ~ (clock >= swake[s])
    BY <1>5 DEF Busy, Over
  <2>. QED
    BY <1>1, <1>2, <1>3, <1>4, <1>5, <2>1 DEF AtPace
<1>6. CASE spc[s] \in {"start", "in", "out"}
  BY <1>1, <1>2, <1>3, <1>4, <1>6 DEF AtPace
<1>. QED
  BY <1>5, <1>6 DEF Executing

(* Then no node has two of them.                                           *)
LEMMA ExecutingApart ==
  ASSUME Orderly, OrderInv, ~ Busy, NEW s \in Sups, NEW t \in Sups, s # t,
         Executing(s), Executing(t)
  PROVE  gantt.nodes[sjob[s]] \cap gantt.nodes[sjob[t]] = {}
<1>. DEFINE x == sjob[s]
            y == sjob[t]
<1>. SUFFICES ASSUME NEW n \in gantt.nodes[x] \cap gantt.nodes[y] PROVE FALSE
  OBVIOUS
<1>1. /\ TypeInv /\ Walls /\ AllOrdered(gantt) /\ gantt \in Tables /\ SupsSound
      /\ clock \in Nat
  BY DEF OrderInv, PlanInv, TableInv, Records, TypeInv, TypeOK, ExecInv
<1>2. /\ x \in Jobs /\ state[x] = "PROCESSING" /\ y \in Jobs /\ state[y] = "PROCESSING"
  BY InHandsRunning DEF Executing
<1>3. x # y
  BY <1>1, <1>2, JobsAssumption DEF SupsSound
<1>4. /\ gantt.start[x] =< clock /\ clock < Left(x) /\ gantt.start[y] =< clock /\ clock < Left(y)
  BY ExecutingEarly
<1>5. /\ gantt.start[x] \in Nat /\ Left(x) \in Nat /\ Left(x) =< End(gantt, x)
      /\ gantt.start[y] \in Nat /\ Left(y) \in Nat /\ Left(y) =< End(gantt, y)
      /\ End(gantt, x) \in Nat /\ End(gantt, y) \in Nat
  BY <1>1, <1>2, Dates
<1>6. n \in On(gantt, x) /\ n \in On(gantt, y)
  BY <1>2, RunsWherePlanned
<1>7. n \in Nodes /\ x \in Planned(gantt, n) /\ y \in Planned(gantt, n)
  BY <1>6 DEF On
<1>. HIDE DEF x, y
<1>8. End(gantt, x) =< gantt.start[y] \/ End(gantt, y) =< gantt.start[x]
  BY <1>1, <1>3, <1>7, SlotsApart
<1>. QED
  BY <1>1, <1>4, <1>5, <1>8

(* So no transfer waits for another: those who execute sleep.              *)
LEMMA ExecutingAsleep ==
  ASSUME Orderly, OrderInv, ~ Busy, NEW s \in Sups, Executing(s)
  PROVE  spc[s] \in {"receiving", "run", "returning"} /\ clock < swake[s]
<1>1. spc[s] # "start"
  BY DEF Busy
<1>2. spc[s] \notin {"in", "out"}
  <2>. SUFFICES ASSUME spc[s] \in {"in", "out"} PROVE FALSE
    OBVIOUS
  <2>1. ~ NodeFree(gantt.lead[sjob[s]])
    BY DEF Busy
  <2>2. PICK t \in Sups : /\ spc[t] \in {"receiving", "returning"}
                          /\ gantt.lead[sjob[t]] = gantt.lead[sjob[s]]
    BY <2>1 DEF NodeFree
  <2>3. s # t /\ Executing(t)
    BY <2>2 DEF Executing
  <2>4. gantt.nodes[sjob[s]] \cap gantt.nodes[sjob[t]] = {}
    BY <2>3, ExecutingApart
  <2>5. /\ sjob[s] \in Jobs /\ state[sjob[s]] = "PROCESSING"
        /\ sjob[t] \in Jobs /\ state[sjob[t]] = "PROCESSING"
    BY <2>3, InHandsRunning DEF Executing
  <2>. QED
    BY <2>2, <2>4, <2>5, RunsWherePlanned
<1>3. spc[s] \in {"receiving", "run", "returning"}
  BY <1>1, <1>2 DEF Executing
<1>4. swake[s] \in Nat /\ clock \in Nat /\ ~ (clock >= swake[s])
  BY <1>3 DEF Busy, Over, OrderInv, PlanInv, TableInv, TypeInv, TypeOK
<1>. QED
  BY <1>3, <1>4

(* No supervisor waits for a server when time passes.                      *)
LEMMA TickSups ==
  ASSUME OrderInv, ~ Busy, ~ CircularWait, NEW s \in Sups
  PROVE  spc[s] = "idle" \/ Executing(s)
<1>1. \/ rpc = "wait" /\ bpc = "recv" /\ ~ BatchMail /\ ~ RmMail
      \/ bpc = "end"
  BY NotBusy DEF OrderInv
<1>2. bpc = "end" => spc[s] = "idle"
  BY DEF OrderInv, Cleaned
<1>3. spc[s] \in SupPcs
  BY DEF OrderInv, PlanInv, TableInv, TypeInv, TypeOK
<1>4. ~ BatchMail => spc[s] # "ack"
  BY DEF BatchMail, AckPending
<1>5. ~ RmMail => spc[s] # "attach"
  BY DEF RmMail, AttachPending
<1>6. spc[s] # "told"
  BY DEF Busy
<1>. QED
  BY <1>1, <1>2, <1>3, <1>4, <1>5, <1>6 DEF Executing, SupPcs

(* Time passes.                                                            *)
LEMMA TickOrder ==
  ASSUME Orderly, OrderInv, Tick, CircularWait => CircularWait'
  PROVE  Records' /\ Cleaned' /\ Execution'
<1>1. /\ ~ Busy /\ clock' = clock + 1
      /\ UNCHANGED <<desc, state, gantt, queues, reserved, bpc, stack, req, rpc, rmJob,
                     spc, sjob, swake, loadPos>>
  BY DEF Tick, clusterVars, batchVars, rmVars, supVars, loadVars
<1>2. /\ TypeInv /\ Walls /\ Execution
      /\ clock \in Nat /\ swake \in [Sups -> Nat]
  BY DEF OrderInv, PlanInv, TableInv, Records, TypeInv, TypeOK
<1>3. stack = {} /\ (rpc = "run" => CircularWait)
  BY <1>1, NotBusy DEF OrderInv, PlanInv, Bookings, StackHandled, CircularWait
<1>4. ASSUME NEW j \in Jobs
      PROVE  /\ gantt.start[j] =< clock => gantt.start[j] =< clock + 1
             /\ Left(j) =< clock => Left(j) =< clock + 1
             /\ Entered(j)' = Entered(j) /\ Ran(j)' = Ran(j) /\ Left(j)' = Left(j)
  BY <1>1, <1>2, Dates DEF Entered, Ran, Left
<1>5. ASSUME NEW s \in Sups PROVE AtPace(s)'
  <2>1. CASE spc[s] = "idle"
    BY <1>1, <2>1 DEF AtPace
  <2>2. CASE Executing(s)
    <3>. DEFINE j == sjob[s]
    <3>1. spc[s] \in {"receiving", "run", "returning"} /\ clock + 1 =< swake[s]
      BY <1>1, <1>2, <2>2, ExecutingAsleep
    <3>2. AtPace(s)
      BY <1>2 DEF Execution, Pace
    <3>3. j \in Jobs
      BY <2>2, InHandsRunning DEF Executing
    <3>4. gantt.start[j] \in Nat /\ gantt.start[j] =< clock + 1
      <4>1. gantt.start[j] \in Nat /\ gantt.start[j] =< clock
        BY <1>2, <3>1, <3>2, <3>3, Dates DEF AtPace
      <4>. QED
        BY <1>2, <4>1
    <3>5. Entered(j)' = Entered(j) /\ Ran(j)' = Ran(j) /\ Left(j)' = Left(j)
      BY <1>1 DEF Entered, Ran, Left
    <3>. QED
      BY <1>1, <3>1, <3>2, <3>4, <3>5 DEF AtPace
  <2>3. CASE CircularWait /\ spc[s] # "idle" /\ ~ Executing(s)
    <3>1. spc[s] \in {"attach", "ack"}
      BY <1>1, <1>2, <2>3 DEF Busy, Executing, SupPcs, TypeInv, TypeOK
    <3>2. sjob[s] \in Jobs /\ AtPace(s)
      BY <1>2, <2>3, InHandsRunning DEF Execution, Pace
    <3>. QED
      BY <1>1, <1>4, <2>3, <3>1, <3>2 DEF AtPace
  <2>. QED
    BY <1>1, <2>1, <2>2, <2>3, TickSups
<1>6. rpc' = "run" => /\ gantt'.start[rmJob'] =< clock'
                      /\ CircularWait' \/ clock' = gantt'.start[rmJob']
  <2>1. rpc = "run" => rmJob \in Jobs
    BY <1>2 DEF TypeInv, HoldersKnown
  <2>. QED
    BY <1>1, <1>2, <1>3, <1>4, <2>1 DEF Execution, Pace
<1>7. Execution'
  BY <1>1, <1>2, <1>3, <1>5, <1>6 DEF Execution, Pace, InHands
<1>8. Unstarted'
  BY <1>1, SameAsked, QuietUnstarted DEF Startable
<1>9. Records'
  BY <1>1, <1>8, QuietRecords
<1>10. Cleaned'
  BY <1>1, QuietCleaned
<1>. QED
  BY <1>7, <1>9, <1>10

(* The servers end when everybody has, and then nothing is traced.         *)
LEMMA EndOfTimeOrder ==
  ASSUME Orderly, OrderInv, EndOfTime
  PROVE  Records' /\ Cleaned' /\ Execution'
<1>1. /\ ~ Busy /\ ~ Alive /\ bpc = "recv" /\ rpc = "wait" /\ bpc' = "end" /\ rpc' = "end"
      /\ UNCHANGED <<clock, desc, state, gantt, queues, reserved, stack, req, rmJob,
                     spc, sjob, swake, loadPos>>
  BY DEF EndOfTime, clusterVars, supVars, loadVars
<1>2. ~ CircularWait
  BY <1>1 DEF CircularWait
<1>3. /\ TypeInv /\ PlanInv /\ Execution /\ Agreement /\ Forgotten
      /\ gantt \in Tables /\ state \in [Jobs -> JobStates]
  BY DEF OrderInv, PlanInv, TableInv, Records, TypeInv, TypeOK
<1>4. stack = {}
  BY <1>2, <1>1, NotBusy DEF OrderInv
<1>5. ASSUME NEW s \in Sups PROVE spc[s] = "idle"
  <2>. SUFFICES ASSUME Executing(s) PROVE FALSE
    BY <1>2, <1>1, TickSups
  <2>1. spc[s] \in {"receiving", "run", "returning"} /\ clock < swake[s]
    BY <1>1, ExecutingAsleep
  <2>2. swake[s] \in Timers
    BY <2>1 DEF Timers
  <2>3. swake[s] \in Nat /\ clock \in Nat
    BY <1>3 DEF TypeInv, TypeOK
  <2>. QED
    BY <1>1, <2>1, <2>2, <2>3 DEF Alive
<1>6. Execution'
  BY <1>2, <1>1, <1>3, QuietExecution DEF Execution
<1>7. Unstarted'
  BY <1>1, SameAsked, QuietUnstarted DEF Startable
<1>8. Records'
  BY <1>1, <1>7, QuietRecords
<1>9. Due = {}
  <2>1. Timing'
    BY <1>3, EndOfTimePlan
  <2>2. Due' = {}
    BY <1>1, <2>1 DEF Timing, EndTogether
  <2>. QED
    BY <1>1, <2>2 DEF Due, Startable, Absent
<1>10. ASSUME NEW j \in Jobs, TracedAt(j) PROVE FALSE
  <2>1. On(gantt, j) # {}
    <3>1. desc[j].procs \in Nat \ {0}
      BY <1>3, OrderlyJob
    <3>2. Cardinality(On(gantt, j)) = desc[j].procs
      BY <1>3, <1>10 DEF Agreement, InOrder
    <3>. QED
      BY <3>1, <3>2, FS_EmptySet
  <2>2. j \notin Startable
    BY <1>3, <1>9, <2>1, AbsentOn DEF Due
  <2>3. state[j] # "DONE" /\ state[j] # "ERROR"
    BY <1>3, <1>10 DEF Forgotten, Execution
  <2>4. state[j] = "PROCESSING"
    BY <1>3, <2>2, <2>3 DEF Startable, JobStates
  <2>5. InHands(j)
    BY <1>3, <2>4 DEF Execution
  <2>6. PICK s \in Sups : sjob[s] = j
    BY <1>1, <1>4, <2>5 DEF InHands
  <2>7. sjob[s] = NoJob
    BY <1>3, <1>5 DEF PlanInv, ExecInv, SupsSound
  <2>. QED
    BY <2>6, <2>7, JobsAssumption
<1>11. Cleaned'
  <2>1. \A j \in Jobs : ~ TracedAt(j)'
    BY <1>1, <1>10 DEF TracedAt, QueueOf
  <2>. QED
    BY <1>1, <1>5, <2>1 DEF Cleaned
<1>. QED
  BY <1>6, <1>8, <1>11

(* A client or the external load sends, or nothing happens.                *)
LEMMA QuietOrder ==
  ASSUME OrderInv, LoadSend \/ UNCHANGED vars \/ \E r \in Requests : ClientSend(r),
         CircularWait => CircularWait'
  PROVE  Records' /\ Cleaned' /\ Execution'
<1>1. UNCHANGED <<clock, desc, state, gantt, queues, reserved, bpc, stack, rpc, rmJob,
                  spc, sjob, swake, loadPos>>
  BY DEF LoadSend, ClientSend, vars, clusterVars, batchVars, rmVars, supVars, loadVars
<1>2. req \in [Requests -> {"new", "sent", "await"} \cup Answers]
  BY DEF OrderInv, PlanInv, TableInv, TypeInv, TypeOK
<1>3. req' = req \/ \E r \in Requests : req[r] = "new" /\ req' = [req EXCEPT ![r] = "sent"]
  BY DEF LoadSend, ClientSend, vars
<1>4. \A r \in Requests : req'[r] = req[r] \/ (req[r] = "new" /\ req'[r] = "sent")
  BY <1>2, <1>3
<1>5. Asked' = Asked /\ Coming' = Coming
  BY <1>1, <1>4 DEF Asked, Coming
<1>6. Unstarted'
  BY <1>1, <1>5, QuietUnstarted DEF Startable
<1>7. Records'
  BY <1>1, <1>4, <1>6, QuietRecords
<1>8. Cleaned'
  BY <1>1, QuietCleaned
<1>9. Execution'
  BY <1>1, QuietExecution DEF OrderInv, Execution
<1>. QED
  BY <1>7, <1>8, <1>9

-----------------------------------------------------------------------------

(* At first there is nothing to tell.                                      *)
LEMMA OrderInit == Orderly /\ Init => OrderInv
<1>. SUFFICES ASSUME Orderly, Init PROVE OrderInv
  OBVIOUS
<1>1. PlanInv
  BY PlanInit
<1>2. TypeInv /\ desc \in Workloads /\ gantt \in Tables
  BY <1>1 DEF PlanInv, TableInv, TypeInv, TypeOK
<1>3. \A x \in Jobs : state[x] \in {"WAITING", "RESERVED"}
  BY <1>2 DEF Init, TypeInv, TypeOK, Descriptions
<1>4. \A x \in Jobs : ~ TracedAt(x) /\ ~ Holds(reserved, x)
  <2>1. \A x : ~ Holds(reserved, x) /\ \A p \in Queues : ~ Holds(queues[p], x)
    BY DEF Init, Holds
  <2>2. \A x \in Jobs : QueueOf(x) \in Queues
    BY <1>2, QueueOfType DEF TypeInv, TypeOK
  <2>. QED
    BY <2>1, <2>2 DEF TracedAt
<1>5. \A x : On(gantt, x) = {}
  <2>1. \A x : Absent(gantt, x)
    BY DEF Init, Absent, NotIn
  <2>. QED
    BY <1>2, <2>1, AbsentOn
<1>6. Walls /\ ReservedOnce
  BY DEF Init, Walls, ReservedOnce
<1>7. Agreement /\ Forgotten /\ ReservedAccepted
  BY <1>4, <1>5 DEF Agreement, InOrder, Forgotten, ReservedAccepted
<1>8. Honoured
  <2>1. ASSUME NEW r \in Requests PROVE state[r.job] # "WAITING" /\ req[r] # "SB_OK"
    <3>1. desc[r.job].state = "RESERVED" /\ r.job \in Jobs
      BY <1>2, OrderlyRequest DEF Orderly
    <3>. QED
      BY <3>1 DEF Init
  <2>. QED
    BY <2>1 DEF Honoured
<1>9. Unstarted
  <2>1. \A j \in Coming : j \in Jobs
    <3>1. \A i \in loadPos .. Len(Load) : Load[i] \in Jobs
      BY LoadAssumption DEF Init
    <3>2. stack = {}
      BY DEF Init
    <3>. QED
      BY <3>1, <3>2 DEF Coming
  <2>2. \A r \in Asked : r.job \in Jobs
    BY RequestsAssumption DEF Asked
  <2>. QED
    BY <1>3, <2>1, <2>2 DEF Unstarted, Startable
<1>10. Records
  BY <1>6, <1>7, <1>8, <1>9 DEF Records
<1>11. Cleaned
  BY DEF Init, Cleaned
<1>12. Execution
  <2>1. \A s \in Sups : AtPace(s)
    BY DEF Init, AtPace
  <2>2. stack = {} /\ rpc = "wait"
    BY DEF Init
  <2>. QED
    BY <1>3, <2>1, <2>2 DEF Execution, Pace
<1>. QED
  BY <1>1, <1>10, <1>11, <1>12 DEF OrderInv

(* Every step keeps the order.                                             *)
LEMMA OrderStep ==
  ASSUME Orderly, OrderInv, [Next]_vars
  PROVE  OrderInv'
<1>1. PlanInv' /\ StartsOnPlanStep /\ (CircularWait => CircularWait')
  BY PlanStep, CircleStands DEF Orderly, OrderInv, PlanInv, TableInv
<1>2. Records' /\ Cleaned' /\ Execution'
  <2>1. CASE \E j \in Jobs : HandleMessage(j)
    BY <2>1, HandledOrder
  <2>2. CASE BatchStep
    BY <2>2, BatchStepOrder
  <2>3. CASE RmStep
    BY <1>1, <2>3, RmStepOrder
  <2>4. CASE \E s \in Sups : Supervise(s)
    BY <1>1, <2>4, SuperviseOrder
  <2>5. CASE Tick
    BY <1>1, <2>5, TickOrder
  <2>6. CASE EndOfTime
    BY <2>6, EndOfTimeOrder
  <2>7. CASE LoadSend \/ UNCHANGED vars \/ \E r \in Requests : ClientSend(r)
    BY <1>1, <2>7, QuietOrder
  <2>. QED
    BY <2>1, <2>2, <2>3, <2>4, <2>5, <2>6, <2>7 DEF Next, System, Terminated
<1>. QED
  BY <1>1, <1>2 DEF OrderInv

(* NodesOf is where the table has a job.                                   *)
LEMMA NodesOfOn == \A j : NodesOf(j) = On(gantt, j)
BY DEF NodesOf, On

(* The trace of a job is where check_ACK looks for it.                     *)
LEMMA TracedWhere ==
  ASSUME OrderInv, NEW j \in Jobs
  PROVE  Traced(j) <=> TracedAt(j)
<1>1. Filed /\ desc \in [Jobs -> Descriptions]
  BY DEF OrderInv, PlanInv, Tracing, TableInv, TypeInv, TypeOK
<1>2. QueueOf(j) \in Queues
  BY <1>1, QueueOfType
<1>. QED
  BY <1>1, <1>2 DEF Traced, TracedAt, Filed

(* When all has ended the queues and the table are empty.                  *)
LEMMA CleanedEmpty ==
  ASSUME OrderInv, bpc = "end"
  PROVE  /\ reserved = <<>> /\ \A p \in Queues : queues[p] = <<>>
         /\ \A n \in Nodes : gantt.chart[n] = <<>>
<1>1. /\ reserved \in Seq(Jobs) /\ queues \in [Queues -> Seq(Jobs)] /\ gantt \in Tables
      /\ Agreement /\ Filed
  BY DEF OrderInv, PlanInv, TableInv, TypeInv, TypeOK, Records, Tracing
<1>2. \A j \in Jobs : ~ TracedAt(j)
  BY DEF OrderInv, Cleaned
<1>3. \A q \in Seq(Jobs) : (\A j \in Jobs : ~ Holds(q, j)) => q = <<>>
  <2>. SUFFICES ASSUME NEW q \in Seq(Jobs), q # <<>> PROVE \E j \in Jobs : Holds(q, j)
    OBVIOUS
  <2>1. DOMAIN q = 1 .. Len(q) /\ 1 \in 1 .. Len(q)
    OBVIOUS
  <2>2. q[1] \in Jobs
    BY <2>1, ElementOfSeq
  <2>. QED
    BY <2>1, <2>2 DEF Holds
<1>4. \A j \in Jobs : ~ Holds(reserved, j) /\ \A p \in Queues : ~ Holds(queues[p], j)
  BY <1>1, <1>2 DEF TracedAt, Filed
<1>5. reserved = <<>> /\ \A p \in Queues : queues[p] = <<>>
  <2>1. \A p \in Queues : queues[p] \in Seq(Jobs)
    BY <1>1
  <2>. QED
    BY <1>1, <1>3, <1>4, <2>1
<1>6. ASSUME NEW n \in Nodes PROVE gantt.chart[n] = <<>>
  <2>1. gantt.chart[n] \in Seq(Jobs)
    BY <1>1 DEF Tables
  <2>2. \A j \in Jobs : ~ Holds(gantt.chart[n], j)
    <3>1. \A j \in Jobs : On(gantt, j) = {}
      BY <1>1, <1>2 DEF Agreement, InOrder
    <3>. QED
      BY <3>1 DEF On, Planned, Holds
  <2>. QED
    BY <1>3, <2>1, <2>2
<1>. QED
  BY <1>5, <1>6

(***************************************************************************)
(* The table and the trace of the batch agree: a job that is kept is on as *)
(* many nodes as it asked for, those of its mapping, and a job that is     *)
(* forgotten is nowhere (batch.c:364, 403, 440-449; scheduling.c:50-58).   *)
(***************************************************************************)
THEOREM TableFollowsTrace == Orderly => (Spec => []ChartFollowsTrace)
<1>. SUFFICES ASSUME Orderly PROVE Spec => []ChartFollowsTrace
  OBVIOUS
<1>1. OrderInv /\ [Next]_vars => OrderInv'
  BY OrderStep
<1>2. OrderInv => ChartFollowsTrace
  <2>. SUFFICES ASSUME OrderInv, NEW j \in Jobs
                PROVE  IF Traced(j)
                         THEN /\ NodesOf(j) = gantt.nodes[j]
                              /\ Cardinality(NodesOf(j)) = desc[j].procs
                         ELSE NodesOf(j) = {}
    BY DEF ChartFollowsTrace
  <2>1. InOrder(j)
    BY DEF OrderInv, Records, Agreement
  <2>2. Traced(j) <=> TracedAt(j)
    BY TracedWhere
  <2>. QED
    BY <2>1, <2>2, NodesOfOn DEF InOrder
<1>. QED
  BY OrderInit, <1>1, <1>2, PTL DEF Spec

(***************************************************************************)
(* An accepted reservation keeps the date it was accepted for, and as many *)
(* nodes, until it starts, through every rescheduling (batch.c:400-413).   *)
(***************************************************************************)
THEOREM ReservationKept == Orderly => (Spec => []ReservationHonoured)
<1>. SUFFICES ASSUME Orderly PROVE Spec => []ReservationHonoured
  OBVIOUS
<1>1. OrderInv /\ [Next]_vars => OrderInv'
  BY OrderStep
<1>2. OrderInv => ReservationHonoured
  <2>. SUFFICES ASSUME OrderInv, NEW j \in Jobs, Reserved(j),
                       state[j] \in {"RESERVED", "WAITING"}
                PROVE  /\ gantt.start[j] = desc[j].start
                       /\ Cardinality(NodesOf(j)) = desc[j].procs
    BY DEF ReservationHonoured
  <2>1. PICK r \in Requests : r.job = j /\ req[r] = "SB_OK"
    BY DEF Reserved, Message
  <2>2. TracedAt(j) /\ gantt.start[j] = desc[j].start
    BY <2>1 DEF OrderInv, Records, Honoured, Startable
  <2>. QED
    BY <2>2, NodesOfOn DEF OrderInv, Records, Agreement, InOrder
<1>. QED
  BY OrderInit, <1>1, <1>2, PTL DEF Spec

(***************************************************************************)
(* When the simulation ends nothing is left: every job that was planned or *)
(* traced has been started, has ended and has been forgotten.              *)
(***************************************************************************)
THEOREM EndsClean == Orderly => (Spec => []EndClean)
<1>. SUFFICES ASSUME Orderly PROVE Spec => []EndClean
  OBVIOUS
<1>1. OrderInv /\ [Next]_vars => OrderInv'
  BY OrderStep
<1>2. OrderInv => EndClean
  BY CleanedEmpty DEF EndClean
<1>. QED
  BY OrderInit, <1>1, <1>2, PTL DEF Spec

(* DoneJobFirst, NodeExclusive and SubmittedOnTime, for one step.          *)
DoneJobFirstStep ==
  \A j \in Jobs : state[j] # "DONE" /\ state'[j] = "DONE" =>
    \A n \in NodesOf(j) : gantt.chart[n][1] = j

NodeExclusiveStep ==
  clock' # clock =>
    \A s, t \in Sups : s # t /\ Executing(s) /\ Executing(t) =>
      gantt.nodes[sjob[s]] \cap gantt.nodes[sjob[t]] = {}

SubmittedOnTimeStep ==
  loadPos' # loadPos => clock = desc[Load[loadPos]].submit

(* Only check_ACK makes a job DONE.                                        *)
LEMMA DoneStep ==
  ASSUME OrderInv, [Next]_vars, NEW j \in Jobs, state[j] # "DONE", state'[j] = "DONE"
  PROVE  \E m \in stack : m.name = "SB_ACK" /\ m.job = j
<1>1. state \in [Jobs -> JobStates]
  BY DEF OrderInv, PlanInv, TableInv, TypeInv, TypeOK
<1>2. ASSUME NEW x \in Jobs, HandleMessage(x) PROVE \E m \in stack : m.name = "SB_ACK" /\ m.job = j
  <2>1. CASE CheckAck(x)
    <3>1. x = j
      BY <1>1, <2>1 DEF CheckAck
    <3>. QED
      BY <2>1, <3>1 DEF CheckAck, Handle, Message
  <2>2. CASE ScheduleTask(x) \/ ReserveSlot(x) \/ CancelTask(x)
    BY <2>2 DEF ScheduleTask, ReserveSlot, CancelTask
  <2>. QED
    BY <1>2, <2>1, <2>2 DEF HandleMessage
<1>3. ASSUME RmStep PROVE FALSE
  <2>1. \/ state' = state
        \/ \E x : state' = [state EXCEPT ![x] = "PROCESSING"]
    BY <1>3 DEF RmStep, RmTimeout, ReceiveAttach, ReceiveUpdate, RmDrained, RunTaken, RmNext,
                NextWakeup, Dispatch, clusterVars
  <2>. QED
    BY <1>1, <2>1
<1>4. ASSUME NEW s \in Sups, Supervise(s) PROVE FALSE
  <2>1. \/ state' = state
        \/ \E x : state' = [state EXCEPT ![x] = "ERROR"]
    BY <1>4 DEF Supervise, SupStart, NodeReceive, InputReceived, SupFinish, OutputReturned,
                TellBatch, Execute
  <2>. QED
    BY <1>1, <2>1
<1>5. ASSUME BatchStep \/ LoadSend \/ Tick \/ EndOfTime \/ UNCHANGED vars
             \/ \E r \in Requests : ClientSend(r)
      PROVE  FALSE
  BY <1>5 DEF BatchStep, ReceiveAck, ReceiveTask, ReceiveRequest, SortStack, Reply, Resume,
              BatchTakes, LoadSend, Tick, EndOfTime, ClientSend, vars, clusterVars
<1>. QED
  BY <1>2, <1>3, <1>4, <1>5 DEF Next, System, Terminated

(***************************************************************************)
(* A job that is over is at the first place of each of its queues when     *)
(* check_ACK deletes it: "the job should be at the first place in the      *)
(* scheduling table as it is in a running state" (cluster.h:79).           *)
(***************************************************************************)
THEOREM DoneFirst == Orderly => (Spec => DoneJobFirst)
<1>. SUFFICES ASSUME Orderly PROVE Spec => DoneJobFirst
  OBVIOUS
<1>1. OrderInv /\ [Next]_vars => OrderInv'
  BY OrderStep
<1>2. OrderInv /\ [Next]_vars => DoneJobFirstStep
  <2>. SUFFICES ASSUME OrderInv, [Next]_vars, NEW j \in Jobs, state[j] # "DONE",
                       state'[j] = "DONE", NEW n \in NodesOf(j)
                PROVE  gantt.chart[n][1] = j
    BY DEF DoneJobFirstStep
  <2>1. PICK m \in stack : m.name = "SB_ACK" /\ m.job = j
    BY DoneStep
  <2>2. gantt \in Tables
    BY DEF OrderInv, PlanInv, TableInv, TypeInv, TypeOK
  <2>3. n \in Nodes /\ DOMAIN gantt.chart[n] = 1 .. Len(gantt.chart[n])
    BY <2>2 DEF NodesOf, Tables
  <2>4. PICK i \in 1 .. Len(gantt.chart[n]) : gantt.chart[n][i] = j
    BY <2>3 DEF NodesOf, Planned
  <2>5. i = 1
    BY <2>1, <2>3, <2>4, LeavesFirst
  <2>. QED
    BY <2>4, <2>5
<1>3. DoneJobFirst <=> [][DoneJobFirstStep]_vars
  BY PTL DEF DoneJobFirst, DoneJobFirstStep
<1>. QED
  BY OrderInit, <1>1, <1>2, <1>3, PTL DEF Spec

(***************************************************************************)
(* No node executes two jobs over a lapse of time: a job is gone before    *)
(* the next one on its nodes starts, although the resource manager starts  *)
(* it without asking the nodes (resource_manager.c:86-104, 222-264).       *)
(***************************************************************************)
THEOREM NodesExclusive == Orderly => (Spec => NodeExclusive)
<1>. SUFFICES ASSUME Orderly PROVE Spec => NodeExclusive
  OBVIOUS
<1>1. OrderInv /\ [Next]_vars => OrderInv'
  BY OrderStep
<1>2. ASSUME [Next]_vars, clock' # clock PROVE Tick
  BY <1>2 DEF Next, System, Terminated, vars, HandleMessage, ScheduleTask, ReserveSlot, CheckAck,
     CancelTask, Handle, BatchStep, ReceiveAck, ReceiveTask, ReceiveRequest, SortStack, Reply,
     Resume, BatchTakes, RmStep, RmTimeout, ReceiveAttach, ReceiveUpdate, RmDrained, RunTaken,
     RmNext, Supervise, SupStart, NodeReceive, InputReceived, SupFinish, OutputReturned,
     TellBatch, SupFrame, LoadSend, EndOfTime, ClientSend
<1>3. OrderInv /\ [Next]_vars => NodeExclusiveStep
  <2>. SUFFICES ASSUME OrderInv, [Next]_vars, clock' # clock PROVE NodeExclusiveStep
    BY DEF NodeExclusiveStep
  <2>1. ~ Busy
    BY <1>2 DEF Tick
  <2>. QED
    BY <2>1, ExecutingApart DEF NodeExclusiveStep
<1>4. NodeExclusive <=> [][NodeExclusiveStep]_vars
  BY PTL DEF NodeExclusive, NodeExclusiveStep
<1>. QED
  BY OrderInit, <1>1, <1>3, <1>4, PTL DEF Spec

-----------------------------------------------------------------------------
(* The external load.                                                      *)

SubmitInv == PlanInv /\ Punctual

(* Steps of others.                                                        *)
LEMMA QuietPunctual ==
  ASSUME Punctual, UNCHANGED <<clock, desc, loadPos, loadWake>>, CircularWait => CircularWait',
         lpc' = "send" => lpc = "send" \/ loadWake =< clock,
         \A m \in stack' : m.name = "SB_TASK" => m \in stack,
         bpc' = "end" => bpc = "end" \/ loadPos > Len(Load)
  PROVE  Punctual'
BY DEF Punctual

(* The sleeps of the external load add up, as the file is sorted.          *)
LEMMA ReceiveTaskPunctual ==
  ASSUME Sorted, SubmitInv, ReceiveTask
  PROVE  Punctual' /\ clock = desc[Load[loadPos]].submit
<1>. DEFINE j == Load[loadPos]
            k == Load[loadPos + 1]
            gap == desc[k].submit - desc[j].submit
            m == Message("SB_TASK", j)
<1>1. /\ lpc = "send" /\ lpc' = "sleep" /\ ~ CircularWait /\ stack' = stack \cup {m}
      /\ loadPos' = loadPos + 1 /\ bpc' = "drain" /\ m.job = j
      /\ loadWake' = IF loadPos = Len(Load) THEN clock
                     ELSE IF gap > 0 THEN clock + gap ELSE clock
      /\ UNCHANGED <<clock, desc>>
  BY DEF ReceiveTask, TaskPending, BatchTakes, Message, CircularWait
<1>2. /\ loadPos \in 1 .. Len(Load) /\ Len(Load) \in Nat /\ clock \in Nat /\ loadWake \in Nat
      /\ desc \in Workloads /\ desc \in [Jobs -> Descriptions]
  BY <1>1, LoadAssumption DEF SubmitInv, PlanInv, TableInv, TypeInv, TypeOK, HoldersKnown
<1>3. \A i \in 1 .. Len(Load) : desc[Load[i]].submit \in Nat
  <2>1. \A i \in 1 .. Len(Load) : Load[i] \in Jobs
    BY LoadAssumption
  <2>. QED
    BY <1>2, <2>1 DEF Descriptions
<1>4. clock = desc[j].submit
  BY <1>1, <1>2, <1>3 DEF SubmitInv, Punctual
<1>5. ASSUME loadPos + 1 =< Len(Load) PROVE loadWake' = desc[k].submit /\ clock =< loadWake'
  <2>1. loadPos + 1 \in 1 .. Len(Load) /\ loadPos < loadPos + 1 /\ loadPos # Len(Load)
    BY <1>2, <1>5
  <2>2. desc[j].submit =< desc[k].submit
    BY <1>2, <2>1 DEF Sorted
  <2>3. desc[j].submit \in Nat /\ desc[k].submit \in Nat
    BY <1>2, <1>3, <2>1
  <2>4. loadWake' = IF gap > 0 THEN clock + gap ELSE clock
    BY <1>1, <2>1
  <2>5. clock = desc[j].submit
    BY <1>4
  <2>. DEFINE a == desc[j].submit
              b == desc[k].submit
  <2>6. /\ a \in Nat /\ b \in Nat /\ a =< b /\ clock = a
        /\ loadWake' = IF b - a > 0 THEN clock + (b - a) ELSE clock
    BY <2>2, <2>3, <2>4, <2>5
  <2>7. b = desc[k].submit
    OBVIOUS
  <2>. HIDE DEF a, b
  <2>8. loadWake' = b /\ clock =< b
    BY <2>6
  <2>. QED
    BY <2>7, <2>8
<1>. HIDE DEF j, k, gap
<1>6. \A o \in stack' : o.name = "SB_TASK" => clock = desc[o.job].submit
  BY <1>1, <1>4 DEF SubmitInv, Punctual
<1>. HIDE DEF m
<1>. QED
  BY <1>1, <1>4, <1>5, <1>6 DEF Punctual, j, k

(* Only the external load moves on in the file.                            *)
LEMMA LoadMoves ==
  ASSUME [Next]_vars, ~ ReceiveTask
  PROVE  UNCHANGED <<loadPos, loadWake>>
BY DEF Next, System, Terminated, vars, HandleMessage, ScheduleTask, ReserveSlot, CheckAck,
   CancelTask, Handle, BatchStep, ReceiveAck, ReceiveTask, ReceiveRequest, SortStack, Reply,
   Resume, RmStep, RmTimeout, ReceiveAttach, ReceiveUpdate, RmDrained, RunTaken, RmNext,
   Supervise, SupStart, NodeReceive, InputReceived, SupFinish, OutputReturned, TellBatch,
   SupFrame, LoadSend, Tick, EndOfTime, ClientSend, loadVars

(* And it sends only when it has slept enough.                             *)
LEMMA LoadStays ==
  ASSUME [Next]_vars, ~ ReceiveTask, ~ LoadSend
  PROVE  lpc' = lpc
BY DEF Next, System, Terminated, vars, HandleMessage, ScheduleTask, ReserveSlot, CheckAck,
   CancelTask, Handle, BatchStep, ReceiveAck, ReceiveTask, ReceiveRequest, SortStack, Reply,
   Resume, RmStep, RmTimeout, ReceiveAttach, ReceiveUpdate, RmDrained, RunTaken, RmNext,
   Supervise, SupStart, NodeReceive, InputReceived, SupFinish, OutputReturned, TellBatch,
   SupFrame, Tick, EndOfTime, ClientSend, loadVars

(* Only time moves the clock.                                              *)
LEMMA ClockMoves ==
  ASSUME [Next]_vars, ~ Tick
  PROVE  UNCHANGED <<clock, desc>>
BY DEF Next, System, Terminated, vars, HandleMessage, ScheduleTask, ReserveSlot, CheckAck,
   CancelTask, Handle, BatchStep, ReceiveAck, ReceiveTask, ReceiveRequest, SortStack, Reply,
   Resume, BatchTakes, RmStep, RmTimeout, ReceiveAttach, ReceiveUpdate, RmDrained, RunTaken,
   RmNext, Supervise, SupStart, NodeReceive, InputReceived, SupFinish, OutputReturned,
   TellBatch, SupFrame, LoadSend, EndOfTime, ClientSend

(* Time does not pass while a job waits to be sent.                        *)
LEMMA TickPunctual ==
  ASSUME SubmitInv, Tick, CircularWait => CircularWait'
  PROVE  Punctual' /\ (~ CircularWait /\ loadPos =< Len(Load) => clock < loadWake)
<1>1. /\ ~ Busy /\ clock' = clock + 1 /\ UNCHANGED <<desc, bpc, stack, lpc, loadPos, loadWake>>
  BY DEF Tick, batchVars, loadVars
<1>2. /\ clock \in Nat /\ loadWake \in Nat /\ loadPos \in Nat /\ Len(Load) \in Nat
  BY LoadAssumption DEF SubmitInv, PlanInv, TableInv, TypeInv, TypeOK
<1>3. stack = {}
  BY <1>1, NotBusy DEF SubmitInv, PlanInv, Bookings, StackHandled, CircularWait
<1>4. ASSUME ~ CircularWait, loadPos =< Len(Load) PROVE clock < loadWake
  <2>1. bpc # "end" /\ ~ BatchMail
    BY <1>1, <1>2, <1>4, NotBusy DEF SubmitInv, Punctual
  <2>2. lpc = "sleep"
    BY <2>1 DEF BatchMail, TaskPending, SubmitInv, PlanInv, TableInv, TypeInv, TypeOK
  <2>. QED
    BY <1>1, <1>2, <1>4, <2>2 DEF Busy, LoadDue
<1>. QED
  BY <1>1, <1>2, <1>3, <1>4 DEF SubmitInv, Punctual

(* Every job is in the stack of the batch at its submit time.              *)
LEMMA SubmitStep ==
  ASSUME NoCancel, Sorted, SubmitInv, [Next]_vars
  PROVE  SubmitInv' /\ SubmittedOnTimeStep
<1>. DEFINE Goal == Punctual' /\ SubmittedOnTimeStep
<1>1. PlanInv' /\ (CircularWait => CircularWait')
  BY PlanStep, CircleStands DEF SubmitInv, PlanInv, TableInv
<1>2. ASSUME ReceiveTask PROVE Goal
  BY <1>2, ReceiveTaskPunctual DEF SubmittedOnTimeStep
<1>3. ASSUME Tick PROVE Goal
  BY <1>1, <1>3, TickPunctual DEF Tick, loadVars, SubmittedOnTimeStep
<1>4. ASSUME ~ ReceiveTask, ~ Tick PROVE Goal
  <2>1. UNCHANGED <<clock, desc, loadPos, loadWake>>
    BY <1>4, LoadMoves, ClockMoves
  <2>2. \A m \in stack' : m.name = "SB_TASK" => m \in stack
    <3>1. stack' \subseteq stack \/ \E m : m.name # "SB_TASK" /\ stack' = stack \cup {m}
      <4>1. \A r \in Requests : r.name # "SB_TASK"
        BY RequestsAssumption DEF RequestKinds
      <4>2. CASE BatchStep
        BY <1>4, <4>1, <4>2 DEF BatchStep, ReceiveAck, ReceiveRequest, SortStack, Reply,
                                 Resume, BatchTakes, Message
      <4>3. CASE ~ BatchStep
        BY <1>4, <4>3 DEF Next, System, Terminated, vars, HandleMessage, ScheduleTask,
           ReserveSlot, CheckAck, CancelTask, Handle, RmStep, RmTimeout, ReceiveAttach,
           ReceiveUpdate, RmDrained, RunTaken, RmNext, Supervise, SupStart, NodeReceive,
           InputReceived, SupFinish, OutputReturned, TellBatch, SupFrame, LoadSend, EndOfTime,
           ClientSend, batchVars
      <4>. QED
        BY <4>2, <4>3
    <3>. QED
      BY <3>1
  <2>3. bpc' = "end" => bpc = "end" \/ loadPos > Len(Load)
    <3>1. CASE EndOfTime
      <4>1. ~ Busy /\ ~ Alive /\ bpc = "recv"
        BY <3>1 DEF EndOfTime
      <4>2. /\ clock \in Nat /\ loadWake \in Nat /\ loadPos \in Nat /\ Len(Load) \in Nat
            /\ lpc \in {"sleep", "send"}
        BY LoadAssumption DEF SubmitInv, PlanInv, TableInv, TypeInv, TypeOK
      <4>3. lpc = "sleep"
        BY <4>1, <4>2 DEF Busy, BatchMail, TaskPending
      <4>4. loadPos =< Len(Load) => loadWake \in Timers
        BY <4>3 DEF Timers
      <4>. QED
        BY <4>1, <4>2, <4>3, <4>4 DEF Alive, Busy, LoadDue
    <3>2. CASE ~ EndOfTime
      <4>1. bpc' = bpc \/ bpc' # "end"
        BY <1>4, <3>2 DEF Next, System, Terminated, vars, HandleMessage, ScheduleTask,
           ReserveSlot, CheckAck, CancelTask, NextPc, BatchStep, ReceiveAck, ReceiveRequest,
           SortStack, Reply, Resume, BatchTakes, RmStep, RmTimeout, ReceiveAttach,
           ReceiveUpdate, RmDrained, RunTaken, RmNext, Supervise, SupStart, NodeReceive,
           InputReceived, SupFinish, OutputReturned, TellBatch, SupFrame, LoadSend, ClientSend,
           batchVars
      <4>. QED
        BY <4>1
    <3>. QED
      BY <3>1, <3>2
  <2>4. lpc' = "send" => lpc = "send" \/ loadWake =< clock
    <3>1. CASE LoadSend
      <4>1. clock \in Nat /\ loadWake \in Nat
        BY DEF SubmitInv, PlanInv, TableInv, TypeInv, TypeOK
      <4>. QED
        BY <3>1, <4>1 DEF LoadSend, LoadDue
    <3>2. CASE ~ LoadSend
      BY <1>4, <3>2, LoadStays
    <3>. QED
      BY <3>1, <3>2
  <2>5. Punctual'
    BY <1>1, <2>1, <2>2, <2>3, <2>4, QuietPunctual DEF SubmitInv
  <2>. QED
    BY <2>1, <2>5 DEF SubmittedOnTimeStep
<1>. QED
  BY <1>1, <1>2, <1>3, <1>4 DEF SubmitInv

(* At first the external load sleeps for the first job of the file.        *)
LEMMA SubmitInit == Init => SubmitInv
<1>. SUFFICES ASSUME Init PROVE SubmitInv
  OBVIOUS
<1>1. PlanInv
  BY PlanInit
<1>2. desc \in [Jobs -> Descriptions] /\ Len(Load) \in Nat
  BY <1>1, LoadAssumption DEF PlanInv, TableInv, TypeInv, TypeOK
<1>3. 1 =< Len(Load) => Load # <<>> /\ desc[Load[1]].submit \in Nat
  <2>1. 1 =< Len(Load) => Load[1] \in Jobs
    BY <1>2, LoadAssumption
  <2>2. 1 =< Len(Load) => Load # <<>>
    BY LoadAssumption
  <2>. QED
    BY <1>2, <2>1, <2>2 DEF Descriptions
<1>4. Punctual
  BY <1>3 DEF Init, Punctual
<1>. QED
  BY <1>1, <1>4 DEF SubmitInv

(***************************************************************************)
(* The external load sends each job at its submit time, although it sleeps *)
(* for differences and each send waits for the batch, when the file is     *)
(* sorted (external_load.c:112-125).                                       *)
(***************************************************************************)
THEOREM SubmitsOnTime == NoCancel /\ Sorted => (Spec => SubmittedOnTime)
<1>. SUFFICES ASSUME NoCancel, Sorted PROVE Spec => SubmittedOnTime
  OBVIOUS
<1>1. SubmitInv /\ [Next]_vars => SubmitInv' /\ [SubmittedOnTimeStep]_vars
  BY SubmitStep
<1>2. SubmittedOnTime <=> [][SubmittedOnTimeStep]_vars
  BY PTL DEF SubmittedOnTime, SubmittedOnTimeStep
<1>. QED
  BY SubmitInit, <1>1, <1>2, PTL DEF Spec
=============================================================================
