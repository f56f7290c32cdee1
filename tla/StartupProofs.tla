--------------------------- MODULE StartupProofs ---------------------------
(***************************************************************************)
(* The lifetime of what the batches share: the configuration is freed by   *)
(* the last batch that starts and by no other, and a plugin is loaded once.*)
(* Then the question of DIET: when a batch gets it, and what it answers.   *)
(***************************************************************************)
EXTENDS Startup, FiniteSetTheorems, TLAPS

(* The batches that still have to read the configuration.                  *)
Unstarted == {b \in Batches : status[b] = "new"}

(***************************************************************************)
(* Why the counter is right: nbBatch counts the batches to come, and the   *)
(* elements no batch will ever close.                                      *)
(***************************************************************************)
Counted ==
  phase = "running" =>
    /\ nbBatch = Cardinality(Unstarted) + conf.spare
    /\ config \in {"loaded", "null"}
    /\ nbBatch > 0 => config = "loaded"

(* A plugin is loaded if and only if it is in the book.                    *)
InBook ==
  /\ opened \in [Libraries -> Nat]
  /\ \A l \in Libraries :
       /\ opened[l] =< 1
       /\ phase = "boot" \/ (phase = "running" /\ l \notin book) => opened[l] = 0
  /\ phase = "running" => \A b \in Batches \ Unstarted : conf.batch[b].plugin \in book

StartupInv ==
  /\ conf \in Configs
  /\ status \in [Batches -> {"new", "ready", "end"}]
  /\ phase = "boot" => Unstarted = Batches
  /\ Counted
  /\ InBook

-----------------------------------------------------------------------------
LEMMA StartupInit == Init => StartupInv
BY DEF Init, StartupInv, Counted, InBook, Unstarted

(* simbatch_init counts every element, and nobody has started.             *)
LEMMA BootStep == StartupInv /\ Boot => StartupInv'
<1> SUFFICES ASSUME StartupInv, Boot PROVE StartupInv'
  OBVIOUS
<1>1. CASE phase' = "running" /\ SimbatchInit /\ UNCHANGED <<conf, status>>
  <2>1. Unstarted' = Batches /\ Unstarted = Batches
    BY <1>1 DEF StartupInv, Boot, Unstarted
  <2>2. nbBatch' = Cardinality(Unstarted') + conf'.spare /\ config' = "loaded"
    BY <1>1, <2>1 DEF SimbatchInit
  <2>3. Counted'
    BY <2>2 DEF Counted
  <2>4. InBook'
    BY <1>1, <2>1 DEF StartupInv, InBook, SimbatchInit, Boot
  <2> QED
    BY <1>1, <2>3, <2>4 DEF StartupInv
<1>2. CASE EndAs("dead")
  BY <1>2 DEF EndAs, shared, StartupInv, Counted, InBook, Unstarted
<1> QED
  BY <1>1, <1>2 DEF Boot

(* A batch that starts closes the configuration once.                      *)
LEMMA StartStep == ASSUME NEW b \in Batches, StartupInv, StartBatch(b) PROVE StartupInv'
<1> DEFINE e == conf.batch[b]
<1>1. CASE \E p \in {"crash", "dead"} : EndAs(p)
  BY <1>1 DEF EndAs, shared, StartupInv, Counted, InBook, Unstarted
<1>2. CASE /\ config = "loaded" /\ Complete(e) /\ RequestPlugin(e.plugin) /\ ConfigClose
           /\ status' = [status EXCEPT ![b] = "ready"]
           /\ UNCHANGED <<phase, conf>>
  <2>1. phase = "running" /\ b \in Unstarted /\ e.plugin \in Libraries
    BY <1>2 DEF StartBatch, Unstarted, Complete
  <2>2. Unstarted' = Unstarted \ {b}
    BY <1>2 DEF Unstarted, StartupInv
  <2>3. IsFiniteSet(Unstarted)
    BY BatchesAssumption, FS_Subset DEF Unstarted
  <2>4. /\ Cardinality(Unstarted) \in Nat /\ Cardinality(Unstarted') \in Nat
        /\ Cardinality(Unstarted') = Cardinality(Unstarted) - 1
    <3>1. IsFiniteSet(Unstarted') /\ Cardinality(Unstarted') = Cardinality(Unstarted) - 1
      BY <2>1, <2>2, <2>3, FS_RemoveElement
    <3> QED
      BY <3>1, <2>3, FS_CardinalityType
  <2>5. conf.spare \in Nat /\ nbBatch = Cardinality(Unstarted) + conf.spare
    BY <2>1, BatchesAssumption DEF StartupInv, Counted
  <2>6. Counted'
    BY <1>2, <2>4, <2>5 DEF ConfigClose, Counted
  <2>7. InBook'
    <3>1. /\ opened' \in [Libraries -> Nat]
          /\ \A l \in Libraries : opened'[l] =< 1 /\ (l \notin book' => opened'[l] = 0)
      BY <1>2, <2>1 DEF RequestPlugin, StartupInv, InBook
    <3>2. book \subseteq book' /\ e.plugin \in book'
      BY <1>2 DEF RequestPlugin
    <3>3. \A c \in Batches \ Unstarted' : conf'.batch[c].plugin \in book'
      BY <1>2, <2>1, <2>2, <3>2 DEF StartupInv, InBook
    <3> QED
      BY <1>2, <2>1, <3>1, <3>3 DEF InBook
  <2> QED
    BY <1>2, <2>1, <2>6, <2>7 DEF StartupInv
<1> QED
  BY <1>1, <1>2 DEF StartBatch

(* Nobody else writes what is shared before simbatch_clean.                *)
LEMMA OtherSteps ==
  ASSUME StartupInv,
         \/ \E b \in Batches : LoadStep(b) \/ HandleStack(b) \/ BatchEnd(b)
         \/ Clean \/ UNCHANGED vars
  PROVE  StartupInv'
<1>1. CASE phase' \notin {"boot", "running"} /\ UNCHANGED <<conf, status, opened>>
  BY <1>1 DEF StartupInv, Counted, InBook, Unstarted
<1>2. CASE UNCHANGED <<phase, conf, shared, status>>
  BY <1>2 DEF shared, StartupInv, Counted, InBook, Unstarted
<1>3. ASSUME NEW b \in Batches, LoadStep(b) \/ HandleStack(b) PROVE StartupInv'
  <2>1. \/ phase' = "crash" /\ UNCHANGED <<conf, status, opened>>
        \/ UNCHANGED <<phase, conf, shared, status>>
    BY <1>3 DEF LoadStep, LoadStart, TakeTask, TakeDiet, HandleStack, EndAs, shared
  <2> QED
    BY <2>1, <1>1, <1>2
<1>4. ASSUME NEW b \in Batches, BatchEnd(b) PROVE StartupInv'
  <2>1. /\ UNCHANGED <<phase, conf, shared>> /\ Unstarted' = Unstarted
        /\ status' \in [Batches -> {"new", "ready", "end"}]
    BY <1>4 DEF BatchEnd, StartupInv, Unstarted
  <2> QED
    BY <2>1 DEF shared, StartupInv, Counted, InBook
<1>5. CASE Clean
  <2>1. phase' \in {"crash", "over"} /\ UNCHANGED <<conf, status, opened>>
    BY <1>5 DEF Clean, EndAs, shared
  <2> QED
    BY <2>1, <1>1
<1>6. CASE UNCHANGED vars
  BY <1>6, <1>2 DEF vars, shared
<1> QED
  BY <1>3, <1>4, <1>5, <1>6

LEMMA StartupStep == StartupInv /\ [Next]_vars => StartupInv'
BY BootStep, StartStep, OtherSteps DEF Next, Terminated

LEMMA StartupInvariant == Spec => []StartupInv
BY StartupInit, StartupStep, PTL DEF Spec

-----------------------------------------------------------------------------
(***************************************************************************)
(* config_close frees the configuration when, and only when, no batch will *)
(* read it again (simbatch_config.c:195), however many batches there are   *)
(* and whatever elements the file has beside theirs.                       *)
(***************************************************************************)
THEOREM ConfigLives == Spec => []ConfigAlive
<1>1. StartupInv => ConfigAlive
  <2> SUFFICES ASSUME StartupInv, phase = "running", NEW b \in Batches, status[b] = "new"
               PROVE  config = "loaded"
    BY DEF StartupInv, Counted, ConfigAlive
  <2>1. IsFiniteSet(Unstarted) /\ b \in Unstarted
    BY BatchesAssumption, FS_Subset DEF Unstarted
  <2>2. Cardinality(Unstarted) \in Nat /\ Cardinality(Unstarted) # 0
    BY <2>1, FS_CardinalityType, FS_EmptySet
  <2>3. conf.spare \in Nat
    BY BatchesAssumption DEF StartupInv
  <2> QED
    BY <2>2, <2>3 DEF StartupInv, Counted
<1> QED
  BY <1>1, StartupInvariant, PTL

(* A plugin is loaded once, however many batches ask for it, and stays in  *)
(* the book while one of them runs (plugin.c:131).                         *)
THEOREM PluginsShared == Spec => []PluginShared
<1>1. StartupInv => PluginShared
  BY DEF StartupInv, InBook, Unstarted, PluginShared
<1> QED
  BY <1>1, StartupInvariant, PTL

-----------------------------------------------------------------------------
(* The question of DIET.                                                   *)

(* A sequence of anything is a list.                                       *)
LEMMA Listed == ASSUME NEW S, NEW l \in Seq(S) PROVE IsList(l)
<1>1. Len(l) \in Nat /\ DOMAIN l = 1 .. Len(l) /\ l = [i \in 1 .. Len(l) |-> l[i]]
  OBVIOUS
<1> QED
  BY <1>1 DEF IsList

LEMMA NoList == IsList(<<>>)
<1>1. <<>> \in Seq({})
  OBVIOUS
<1> QED
  BY <1>1, Listed

(* One element more.                                                       *)
LEMMA Appended ==
  ASSUME NEW l, IsList(l), NEW x
  PROVE  /\ IsList(Append(l, x)) /\ Append(l, x) # <<>>
         /\ Len(Append(l, x)) = Len(l) + 1
         /\ \A i \in DOMAIN Append(l, x) : i \in DOMAIN l \/ Append(l, x)[i] = x
         /\ \A i \in DOMAIN l : Append(l, x)[i] = l[i]
<1> DEFINE S == {l[i] : i \in DOMAIN l} \cup {x}
<1>1. l \in Seq(S)
  BY DEF IsList
<1>2. /\ Append(l, x) \in Seq(S)
      /\ Len(Append(l, x)) = Len(l) + 1
      /\ \A i \in DOMAIN Append(l, x) : i \in DOMAIN l \/ Append(l, x)[i] = x
      /\ \A i \in DOMAIN l : Append(l, x)[i] = l[i]
  BY <1>1
<1>3. IsList(Append(l, x))
  BY <1>2, Listed
<1>4. Append(l, x) # <<>>
  <2>1. Len(l) \in Nat /\ Len(<<>>) = 0
    BY <1>1
  <2> QED
    BY <1>2, <2>1
<1> QED
  BY <1>2, <1>3, <1>4

(* What is left after the head.                                            *)
LEMMA Tailed ==
  ASSUME NEW l, IsList(l), l # <<>>
  PROVE  IsList(Tail(l)) /\ Len(l) \in Nat /\ Len(Tail(l)) = Len(l) - 1
<1> DEFINE S == {l[i] : i \in DOMAIN l}
<1>1. l \in Seq(S)
  BY DEF IsList
<1>2. Tail(l) \in Seq(S) /\ Len(l) \in Nat /\ Len(Tail(l)) = Len(l) - 1
  BY <1>1
<1> QED
  BY <1>2, Listed

(* What is left of the load of b, and what its batch has, are the jobs the *)
(* parser found, and the question comes after all of them.                 *)
Parsed(b) == JobsOf[conf.batch[b]]

Sending(b) ==
  /\ Readable(conf.batch[b])
  /\ IsList(list[b]) /\ list[b] # <<>>
  /\ Len(taken[b]) + Len(list[b]) = Len(Parsed(b))

LoadOK(b) ==
  /\ load[b] \in {"none", "start", "send", "diet", "end"}
  /\ status[b] = "new" => load[b] = "none"
  /\ load[b] \in {"none", "start"} => taken[b] = <<>>
  /\ load[b] = "send" => Sending(b)
  /\ load[b] = "diet" => Len(taken[b]) = Len(Parsed(b))

QuestionOK(b) ==
  /\ load[b] \in {"none", "start", "send"} => ~ Asked(b) /\ answer[b] = None
  /\ Asked(b) \/ answer[b] # None => Len(taken[b]) = Len(Parsed(b))
  /\ load[b] = "diet" \/ Asked(b) => mode

ListsOK == \A b \in Batches : IsList(stack[b]) /\ IsList(taken[b])

Mapped ==
  /\ load = [b \in Batches |-> load[b]]
  /\ list = [b \in Batches |-> list[b]]
  /\ taken = [b \in Batches |-> taken[b]]
  /\ stack = [b \in Batches |-> stack[b]]
  /\ status = [b \in Batches |-> status[b]]
  /\ answer = [b \in Batches |-> answer[b]]

(* A batch answers with the parameter, clamped.                            *)
ParamOK ==
  /\ mode /\ phase = "running" => param \in Nat \ {0}
  /\ AnswerFits

DietInv ==
  /\ phase \in {"boot", "running", "over", "dead", "crash"}
  /\ phase = "boot" => \A b \in Batches : load[b] = "none"
  /\ conf \in Configs
  /\ Mapped /\ ListsOK /\ ParamOK
  /\ \A b \in Batches : LoadOK(b) /\ QuestionOK(b)

(* What the steps of the others leave of a batch.                          *)
Unmoved(b) ==
  /\ load'[b] = load[b] /\ list'[b] = list[b] /\ taken'[b] = taken[b]
  /\ stack'[b] = stack[b] /\ status'[b] = status[b] /\ answer'[b] = answer[b]

LEMMA UnmovedKeeps ==
  ASSUME NEW b \in Batches, Unmoved(b), conf' = conf, mode => mode', LoadOK(b), QuestionOK(b)
  PROVE  LoadOK(b)' /\ QuestionOK(b)'
BY DEF Unmoved, LoadOK, QuestionOK, Sending, Parsed, Asked

LEMMA DietInit == Init => DietInv
<1> SUFFICES ASSUME Init PROVE DietInv
  OBVIOUS
<1>1. IsList(<<>>)
  BY NoList
<1>2. ASSUME NEW b \in Batches PROVE LoadOK(b) /\ QuestionOK(b)
  BY DEF Init, LoadOK, QuestionOK, Asked
<1>3. Mapped /\ ListsOK /\ ParamOK
  BY <1>1 DEF Init, Mapped, ListsOK, ParamOK, AnswerFits
<1> QED
  BY <1>2, <1>3 DEF Init, DietInv

(* main: parseCmdLine refuses a parameter that is 0.                       *)
LEMMA BootAsks == DietInv /\ Boot => DietInv'
<1> SUFFICES ASSUME DietInv, Boot PROVE DietInv'
  OBVIOUS
<1>1. ASSUME NEW b \in Batches PROVE LoadOK(b)' /\ QuestionOK(b)'
  <2>1. Unmoved(b) /\ conf' = conf /\ phase = "boot"
    BY DEF Boot, EndAs, loads, turns, shared, Unmoved
  <2>2. load[b] = "none" /\ ~ Asked(b) /\ LoadOK(b) /\ QuestionOK(b)
    BY <2>1 DEF DietInv, QuestionOK
  <2> QED
    BY <2>1, <2>2 DEF Unmoved, LoadOK, QuestionOK, Asked, Parsed
<1>2. ParamOK'
  <2>1. answer' = answer
    BY DEF Boot, EndAs, turns
  <2>2. ASSUME mode', phase' = "running" PROVE param' \in Nat \ {0}
    <3>1. Bootable /\ IsPresent(argv, "-o") /\ param' = SecureStr2ul(GetParam(argv, "-tp"))
      BY <2>2 DEF Boot, EndAs
    <3>2. SecureStr2ul(GetParam(argv, "-tp")) # 0
      BY <3>1 DEF Bootable, ParseCmdLine
    <3> QED
      BY <3>1, <3>2, NumbersAssumption DEF SecureStr2ul
  <2> QED
    BY <2>1, <2>2 DEF DietInv, ParamOK, AnswerFits
<1>3. /\ phase' \in {"running", "dead"} /\ conf' \in Configs
      /\ Mapped' /\ ListsOK'
  BY DEF Boot, EndAs, loads, turns, shared, DietInv, Mapped, ListsOK
<1> QED
  BY <1>1, <1>2, <1>3 DEF DietInv

(* The end of a simulation, or a step that is none.                        *)
LEMMA NothingMoves ==
  ASSUME DietInv, phase' \in {phase, "over", "dead", "crash"},
         UNCHANGED <<conf, status, loads, turns, mode, param>>
  PROVE  DietInv'
<1>1. ASSUME NEW b \in Batches PROVE LoadOK(b)' /\ QuestionOK(b)'
  BY UnmovedKeeps DEF loads, turns, Unmoved, DietInv
<1>2. Mapped' /\ ListsOK' /\ ParamOK'
  BY DEF loads, turns, DietInv, Mapped, ListsOK, ParamOK, AnswerFits
<1> QED
  BY <1>1, <1>2 DEF loads, turns, DietInv

LEMMA StartAsks == ASSUME NEW b \in Batches, DietInv, StartBatch(b) PROVE DietInv'
<1>1. CASE \E p \in {"crash", "dead"} : EndAs(p)
  BY <1>1, NothingMoves DEF EndAs
<1>2. CASE /\ status' = [status EXCEPT ![b] = "ready"]
           /\ load' = [load EXCEPT ![b] = IF HasLoad(conf.batch[b]) THEN "start" ELSE @]
           /\ UNCHANGED <<phase, conf, list, taken, turns, mode, param>>
  <2>1. phase = "running" /\ status[b] = "new" /\ load[b] = "none"
    BY DEF StartBatch, DietInv, LoadOK
  <2>2. ASSUME NEW c \in Batches PROVE LoadOK(c)' /\ QuestionOK(c)'
    <3>1. CASE c # b
      BY <1>2, <3>1, UnmovedKeeps DEF turns, Unmoved, DietInv, Mapped
    <3>2. CASE c = b
      <4>1. /\ load'[b] \in {"none", "start"} /\ status'[b] = "ready" /\ taken[b] = <<>>
            /\ ~ Asked(b) /\ answer[b] = None
        BY <1>2, <2>1 DEF DietInv, Mapped, LoadOK, QuestionOK
      <4> QED
        BY <1>2, <3>2, <4>1 DEF turns, LoadOK, QuestionOK, Asked
    <3> QED
      BY <3>1, <3>2
  <2>3. Mapped' /\ ListsOK' /\ ParamOK'
    BY <1>2 DEF turns, DietInv, Mapped, ListsOK, ParamOK, AnswerFits
  <2> QED
    BY <1>2, <2>1, <2>2, <2>3 DEF DietInv
<1> QED
  BY <1>1, <1>2 DEF StartBatch

(* A load is in the table of loads.                                        *)
LEMMA ParsedList ==
  ASSUME NEW b \in Batches, conf \in Configs, Readable(conf.batch[b])
  PROVE  IsList(Parsed(b)) /\ Len(Parsed(b)) \in Nat
<1>1. conf.batch[b] \in DOMAIN JobsOf
  BY DEF JobsOf
<1>2. IsList(Parsed(b))
  BY <1>1, ParseAssumption DEF Parsed, IsLoad
<1> QED
  BY <1>2 DEF IsList

LEMMA LoadStartAsks == ASSUME NEW b \in Batches, DietInv, LoadStart(b) PROVE DietInv'
<1>1. CASE EndAs("crash")
  BY <1>1, NothingMoves DEF EndAs
<1>2. CASE ~ EndAs("crash")
  <2>1. /\ load[b] = "start" /\ phase = "running"
        /\ UNCHANGED <<phase, conf, status, taken, stack, mode, param, answer>>
    BY <1>2 DEF LoadStart, turns
  <2>2. taken[b] = <<>> /\ ~ Asked(b) /\ answer[b] = None /\ status[b] # "new"
    BY <2>1 DEF DietInv, LoadOK, QuestionOK
  <2>3. \/ /\ Readable(conf.batch[b]) /\ list' = [list EXCEPT ![b] = Parsed(b)]
           /\ load' = [load EXCEPT ![b] = Remaining(Parsed(b))]
        \/ load' = [load EXCEPT ![b] = "end"] /\ UNCHANGED list
    BY <1>2 DEF LoadStart, Parsed
  <2>4. ASSUME NEW c \in Batches PROVE LoadOK(c)' /\ QuestionOK(c)'
    <3>1. CASE c # b
      BY <2>1, <2>3, <3>1, UnmovedKeeps DEF Unmoved, DietInv, Mapped
    <3>2. CASE /\ c = b /\ Readable(conf.batch[b]) /\ list' = [list EXCEPT ![b] = Parsed(b)]
               /\ load' = [load EXCEPT ![b] = Remaining(Parsed(b))]
      <4>1. IsList(Parsed(b)) /\ Len(Parsed(b)) \in Nat
        BY <3>2, ParsedList DEF DietInv
      <4>2. list'[b] = Parsed(b) /\ load'[b] = Remaining(Parsed(b)) /\ Parsed(b)' = Parsed(b)
        BY <3>2, <2>1 DEF DietInv, Mapped, Parsed
      <4>3. Len(taken'[b]) = 0
        BY <2>1, <2>2
      <4>4. CASE Parsed(b) # <<>>
        <5>1. load'[b] = "send" /\ Sending(b)'
          BY <3>2, <2>1, <4>1, <4>2, <4>3, <4>4 DEF Remaining, Sending
        <5> QED
          BY <3>2, <5>1, <2>1, <2>2 DEF LoadOK, QuestionOK, Asked
      <4>5. CASE Parsed(b) = <<>>
        <5>1. load'[b] \in {"diet", "end"} /\ (load'[b] = "diet" => mode) /\ Len(Parsed(b)) = 0
          BY <4>2, <4>5 DEF Remaining
        <5> QED
          BY <3>2, <5>1, <2>1, <2>2, <4>2, <4>3 DEF LoadOK, QuestionOK, Asked
      <4> QED
        BY <4>4, <4>5
    <3>3. CASE c = b /\ load' = [load EXCEPT ![b] = "end"] /\ UNCHANGED list
      <4>1. load'[b] = "end"
        BY <3>3 DEF DietInv, Mapped
      <4> QED
        BY <3>3, <4>1, <2>1, <2>2 DEF LoadOK, QuestionOK, Asked
    <3> QED
      BY <2>3, <3>1, <3>2, <3>3
  <2>5. Mapped' /\ ListsOK' /\ ParamOK'
    BY <2>1, <2>3 DEF DietInv, Mapped, ListsOK, ParamOK, AnswerFits
  <2> QED
    BY <2>1, <2>4, <2>5 DEF DietInv
<1> QED
  BY <1>1, <1>2

(* A job more is taken, one less to send.                                  *)
LEMMA TakeTaskAsks == ASSUME NEW b \in Batches, DietInv, TakeTask(b) PROVE DietInv'
<1> DEFINE m == Message("SB_TASK", Head(list[b]))
<1>1. /\ load[b] = "send" /\ Sending(b) /\ ~ Asked(b) /\ answer[b] = None
      /\ status[b] # "new"
  BY DEF TakeTask, DietInv, LoadOK, QuestionOK
<1>2. /\ stack'[b] = Append(stack[b], m)
      /\ taken'[b] = Append(taken[b], Head(list[b]))
      /\ list'[b] = Tail(list[b])
      /\ load'[b] = Remaining(Tail(list[b]))
      /\ UNCHANGED <<phase, conf, status, mode, param, answer>>
  BY DEF TakeTask, DietInv, Mapped
<1>3. IsList(stack'[b]) /\ IsList(taken'[b]) /\ Len(taken'[b]) = Len(taken[b]) + 1
  BY <1>2, Appended DEF DietInv, ListsOK
<1>4. IsList(list'[b]) /\ Len(list[b]) \in Nat /\ Len(list'[b]) = Len(list[b]) - 1
  BY <1>1, <1>2, Tailed DEF Sending
<1>5. ~ Asked(b)'
  <2>1. ASSUME NEW i \in DOMAIN stack'[b] PROVE stack'[b][i].name # "SB_DIET"
    <3>1. \/ i \in DOMAIN stack[b] /\ stack'[b][i] = stack[b][i]
          \/ stack'[b][i] = m
      BY <1>2, Appended DEF DietInv, ListsOK
    <3> QED
      BY <3>1, <1>1 DEF Asked, Message
  <2> QED
    BY <2>1 DEF Asked
<1>6. Len(taken[b]) \in Nat
  BY DEF DietInv, ListsOK, IsList
<1>7. Len(taken'[b]) + Len(list'[b]) = Len(Parsed(b)) /\ Parsed(b)' = Parsed(b)
  <2>1. Len(taken[b]) + Len(list[b]) = Len(Parsed(b))
    BY <1>1 DEF Sending
  <2>2. Parsed(b)' = Parsed(b)
    BY <1>2 DEF Parsed
  <2>3. Len(taken'[b]) + Len(list'[b]) = Len(taken[b]) + Len(list[b])
    <3>1. \A x, y \in Nat : (x + 1) + (y - 1) = x + y
      OBVIOUS
    <3>2. Len(taken'[b]) + Len(list'[b]) = (Len(taken[b]) + 1) + (Len(list[b]) - 1)
      BY <1>3, <1>4, Zenon
    <3> QED
      BY <3>1, <3>2, <1>4, <1>6, Zenon
  <2> QED
    BY <2>1, <2>2, <2>3
<1>8. LoadOK(b)' /\ QuestionOK(b)'
  <2>1. CASE list'[b] # <<>>
    <3>1. load'[b] = "send" /\ Sending(b)'
      BY <1>1, <1>2, <1>4, <1>7, <2>1 DEF Remaining, Sending
    <3> QED
      BY <3>1, <1>1, <1>2, <1>5 DEF LoadOK, QuestionOK
  <2>2. CASE list'[b] = <<>>
    <3>1. load'[b] \in {"diet", "end"} /\ (load'[b] = "diet" => mode) /\ Len(list'[b]) = 0
      BY <1>2, <2>2 DEF Remaining
    <3>2. Len(taken'[b]) = Len(Parsed(b))'
      BY <3>1, <1>3, <1>6, <1>7
    <3> QED
      BY <3>1, <3>2, <1>1, <1>2, <1>5 DEF LoadOK, QuestionOK
  <2> QED
    BY <2>1, <2>2
<1>9. ASSUME NEW c \in Batches PROVE LoadOK(c)' /\ QuestionOK(c)'
  <2>1. CASE c # b
    BY <2>1, UnmovedKeeps DEF TakeTask, Unmoved, DietInv, Mapped
  <2> QED
    BY <2>1, <1>8
<1>10. Mapped' /\ ListsOK' /\ ParamOK'
  BY <1>3 DEF TakeTask, DietInv, Mapped, ListsOK, ParamOK, AnswerFits
<1> QED
  BY <1>2, <1>9, <1>10 DEF DietInv, TakeTask

LEMMA TakeDietAsks == ASSUME NEW b \in Batches, DietInv, TakeDiet(b) PROVE DietInv'
<1> DEFINE m == Message("SB_DIET", None)
<1>1. /\ load[b] = "diet" /\ Len(taken[b]) = Len(Parsed(b)) /\ status[b] # "new" /\ mode
  BY DEF TakeDiet, DietInv, LoadOK, QuestionOK
<1>2. /\ stack'[b] = Append(stack[b], m) /\ load'[b] = "end"
      /\ UNCHANGED <<phase, conf, status, list, taken, mode, param, answer>>
  BY DEF TakeDiet, DietInv, Mapped
<1>3. IsList(stack'[b])
  BY <1>2, Appended DEF DietInv, ListsOK
<1>4. LoadOK(b)' /\ QuestionOK(b)'
  BY <1>1, <1>2 DEF LoadOK, QuestionOK, Parsed
<1>5. ASSUME NEW c \in Batches PROVE LoadOK(c)' /\ QuestionOK(c)'
  <2>1. CASE c # b
    BY <2>1, UnmovedKeeps DEF TakeDiet, Unmoved, DietInv, Mapped
  <2> QED
    BY <2>1, <1>4
<1>6. Mapped' /\ ListsOK' /\ ParamOK'
  BY <1>3 DEF TakeDiet, DietInv, Mapped, ListsOK, ParamOK, AnswerFits
<1> QED
  BY <1>2, <1>5, <1>6 DEF DietInv, TakeDiet

(* answer_to_DIET: the parameter stays positive, however it is clamped.    *)
LEMMA HandleAsks == ASSUME NEW b \in Batches, DietInv, HandleStack(b) PROVE DietInv'
<1>1. CASE EndAs("crash")
  BY <1>1, NothingMoves DEF EndAs
<1>2. CASE /\ IF Asked(b) THEN AnswerToDIET(b) ELSE UNCHANGED <<param, answer>>
           /\ stack' = [stack EXCEPT ![b] = <<>>]
           /\ UNCHANGED <<phase, conf, status, loads, mode>>
  <2>1. phase = "running" /\ ~ Asked(b)' /\ stack'[b] = <<>> /\ IsList(<<>>)
    BY <1>2, NoList DEF HandleStack, DietInv, Mapped, Asked
  <2>2. ParamOK' /\ answer' = [c \in Batches |-> answer'[c]]
    <3>1. CASE Asked(b)
      <4>1. param \in Nat \ {0} /\ NbNodes[b] \in Nat \ {0}
        BY <2>1, <3>1, NodesAssumption DEF DietInv, QuestionOK, ParamOK
      <4>2. param' \in Nat \ {0} /\ param' =< NbNodes[b]
        BY <1>2, <3>1, <4>1 DEF AnswerToDIET
      <4>3. answer' = [answer EXCEPT ![b] = [procs |-> param', planned |-> planned[b]]]
        BY <1>2, <3>1 DEF AnswerToDIET
      <4>4. answer'[b].procs \in 1 .. NbNodes[b] /\ \A c \in Batches \ {b} : answer'[c] = answer[c]
        BY <4>1, <4>2, <4>3, NodesAssumption DEF DietInv, Mapped
      <4>5. AnswerFits'
        BY <4>4 DEF DietInv, ParamOK, AnswerFits
      <4> QED
        BY <1>2, <4>2, <4>3, <4>5 DEF DietInv, Mapped, ParamOK
    <3>2. CASE ~ Asked(b)
      BY <1>2, <3>2 DEF DietInv, Mapped, ParamOK, AnswerFits
    <3> QED
      BY <3>1, <3>2
  <2>3. ASSUME NEW c \in Batches PROVE LoadOK(c)' /\ QuestionOK(c)'
    <3>1. CASE c # b
      <4>1. Unmoved(c)
        BY <1>2, <3>1 DEF AnswerToDIET, Unmoved, loads, DietInv, Mapped
      <4> QED
        BY <1>2, <4>1, UnmovedKeeps DEF DietInv
    <3>2. CASE c = b
      <4>1. LoadOK(b) /\ QuestionOK(b) /\ UNCHANGED <<conf, load, list, taken, status, mode>>
        BY <1>2 DEF loads, DietInv
      <4>2. ~ Asked(b) => answer' = answer
        BY <1>2
      <4> QED
        BY <3>2, <4>1, <4>2, <2>1 DEF LoadOK, QuestionOK, Sending, Parsed
    <3> QED
      BY <3>1, <3>2
  <2>4. Mapped' /\ ListsOK'
    BY <1>2, <2>1, <2>2 DEF loads, DietInv, Mapped, ListsOK
  <2> QED
    BY <1>2, <2>1, <2>2, <2>3, <2>4 DEF DietInv
<1> QED
  BY <1>1, <1>2 DEF HandleStack

LEMMA EndAsks == ASSUME NEW b \in Batches, DietInv, BatchEnd(b) PROVE DietInv'
<1>1. /\ UNCHANGED <<phase, conf, loads, turns, mode, param>> /\ phase = "running"
      /\ status' = [status EXCEPT ![b] = "end"]
  BY DEF BatchEnd
<1>2. ASSUME NEW c \in Batches PROVE LoadOK(c)' /\ QuestionOK(c)'
  BY <1>1 DEF loads, turns, DietInv, Mapped, LoadOK, QuestionOK, Sending, Parsed, Asked
<1>3. Mapped' /\ ListsOK' /\ ParamOK'
  BY <1>1 DEF loads, turns, DietInv, Mapped, ListsOK, ParamOK, AnswerFits
<1> QED
  BY <1>1, <1>2, <1>3 DEF DietInv

LEMMA DietStep == DietInv /\ [Next]_vars => DietInv'
<1> SUFFICES ASSUME DietInv, [Next]_vars PROVE DietInv'
  OBVIOUS
<1>1. CASE Clean
  <2>1. /\ phase' \in {"crash", "over"}
        /\ UNCHANGED <<conf, status, loads, turns, mode, param>>
    BY <1>1 DEF Clean, EndAs, shared
  <2> QED
    BY <2>1, NothingMoves
<1>2. CASE UNCHANGED vars
  BY <1>2, NothingMoves DEF vars
<1>3. ASSUME NEW b \in Batches, LoadStep(b) PROVE DietInv'
  BY <1>3, LoadStartAsks, TakeTaskAsks, TakeDietAsks DEF LoadStep
<1> QED
  BY <1>1, <1>2, <1>3, BootAsks, StartAsks, HandleAsks, EndAsks DEF Next, Terminated

LEMMA DietInvariant == Spec => []DietInv
BY DietInit, DietStep, PTL DEF Spec

-----------------------------------------------------------------------------
(***************************************************************************)
(* What an answer counts in.  The jobs of a turn are sent one after the    *)
(* other without a sleep: none of those that are still to be planned is    *)
(* submitted before the last one.                                          *)
(***************************************************************************)
Latest(b) == taken[b][Len(taken[b])].submit

NotBefore(b, n) == \A i \in DOMAIN taken[b] : i > n => taken[b][i].submit >= Latest(b)

(* What b has taken are the first jobs of its file, and the rest follow.   *)
InOrder(b) ==
  /\ \A i \in DOMAIN taken[b] :
       i \in DOMAIN Parsed(b) /\ taken[b][i] = Parsed(b)[i] /\ taken[b][i].submit \in Nat
  /\ load[b] = "send" =>
       \A i \in DOMAIN list[b] :
         /\ Len(taken[b]) + i \in DOMAIN Parsed(b)
         /\ list[b][i] = Parsed(b)[Len(taken[b]) + i] /\ list[b][i].submit \in Nat

(* Only a load that has been read ends with the question.                  *)
FileOK(b) ==
  load[b] \in {"send", "diet"} \/ Asked(b) \/ answer[b] # None => Readable(conf.batch[b])

TurnOK(b) ==
  /\ planned[b] \in 0 .. Len(taken[b])
  /\ stack[b] = <<>> => planned[b] = Len(taken[b])
  /\ NotBefore(b, planned[b])
  /\ answer[b] # None => answer[b].planned \in Nat /\ NotBefore(b, answer[b].planned)

CountInv ==
  /\ planned = [b \in Batches |-> planned[b]]
  /\ \A b \in Batches : InOrder(b) /\ TurnOK(b) /\ FileOK(b)

LEMMA CountInit == Init => CountInv
<1> SUFFICES ASSUME Init PROVE CountInv
  OBVIOUS
<1>1. ASSUME NEW b \in Batches PROVE InOrder(b) /\ TurnOK(b) /\ FileOK(b)
  <2>1. /\ taken[b] = <<>> /\ load[b] = "none" /\ planned[b] = 0
        /\ stack[b] = <<>> /\ answer[b] = None
    BY DEF Init
  <2> QED
    BY <2>1 DEF InOrder, TurnOK, NotBefore, FileOK, Asked
<1> QED
  BY <1>1 DEF Init, CountInv

(* What a step leaves alone, but for its place in the loop.                *)
Uncounted(b) ==
  /\ taken'[b] = taken[b] /\ planned'[b] = planned[b] /\ stack'[b] = stack[b]
  /\ answer'[b] = answer[b]
  /\ \/ load'[b] = load[b] /\ list'[b] = list[b]
     \/ load'[b] \notin {"send", "diet"}

LEMMA UncountedKeeps ==
  ASSUME NEW b \in Batches, Uncounted(b), conf' = conf, InOrder(b), TurnOK(b), FileOK(b)
  PROVE  InOrder(b)' /\ TurnOK(b)' /\ FileOK(b)'
BY DEF Uncounted, InOrder, TurnOK, NotBefore, Latest, Parsed, FileOK, Asked

(* The load has its jobs, all of them still to be sent.                    *)
LEMMA LoadCounts ==
  ASSUME NEW b \in Batches, DietInv, CountInv, LoadStart(b)
  PROVE  CountInv'
<1>1. CASE EndAs("crash")
  BY <1>1, UncountedKeeps DEF EndAs, loads, turns, Uncounted, CountInv
<1>2. CASE ~ EndAs("crash")
  <2>1. /\ load[b] = "start" /\ UNCHANGED <<conf, taken, planned, stack, answer>>
        /\ \/ /\ Readable(conf.batch[b]) /\ list' = [list EXCEPT ![b] = Parsed(b)]
              /\ load' = [load EXCEPT ![b] = Remaining(Parsed(b))]
           \/ load' = [load EXCEPT ![b] = "end"] /\ UNCHANGED list
    BY <1>2 DEF LoadStart, Parsed, turns
  <2>2. taken[b] = <<>>
    BY <2>1 DEF DietInv, LoadOK
  <2>3. ASSUME NEW c \in Batches PROVE InOrder(c)' /\ TurnOK(c)' /\ FileOK(c)'
    <3>1. CASE c # b \/ load'[c] \notin {"send", "diet"}
      BY <2>1, <3>1, UncountedKeeps DEF Uncounted, CountInv, DietInv, Mapped
    <3>2. CASE c = b /\ load'[b] \in {"send", "diet"}
      <4>1. Readable(conf.batch[b]) /\ list'[b] = Parsed(b)
        BY <2>1, <3>2 DEF DietInv, Mapped
      <4>2. conf.batch[b] \in DOMAIN JobsOf
        BY <4>1 DEF DietInv, JobsOf
      <4>3. \A i \in DOMAIN Parsed(b) : i \in Nat /\ Parsed(b)[i].submit \in Nat
        <5>1. IsLoad(Parsed(b))
          BY <4>2, ParseAssumption DEF Parsed
        <5>2. DOMAIN Parsed(b) = 1 .. Len(Parsed(b)) /\ Len(Parsed(b)) \in Nat
          BY <5>1 DEF IsLoad, IsList
        <5> QED
          BY <5>1, <5>2 DEF IsLoad
      <4>4. InOrder(b)'
        <5>1. Len(taken'[b]) = 0 /\ DOMAIN taken'[b] = {} /\ Parsed(b)' = Parsed(b)
          BY <2>1, <2>2 DEF Parsed
        <5> QED
          BY <4>1, <4>3, <5>1 DEF InOrder
      <4>5. TurnOK(b)' /\ FileOK(b)'
        BY <2>1, <4>1 DEF CountInv, TurnOK, NotBefore, Latest, FileOK
      <4> QED
        BY <3>2, <4>4, <4>5
    <3> QED
      BY <3>1, <3>2
  <2> QED
    BY <2>1, <2>3 DEF CountInv
<1> QED
  BY <1>1, <1>2

(* A job that comes in the turn of others is not submitted after them.     *)
LEMMA TakeTaskCounts ==
  ASSUME NEW b \in Batches, DietInv, CountInv, TakeTask(b)
  PROVE  CountInv'
<1> DEFINE x == Head(list[b])
           n == Len(taken[b])
<1>1. /\ load[b] = "send" /\ Sending(b) /\ answer[b] = None
      /\ stack[b] # <<>> => x.submit =< Latest(b)
  BY DEF TakeTask, AtOnce, Latest, DietInv, LoadOK, QuestionOK
<1>2. /\ stack'[b] = Append(stack[b], Message("SB_TASK", x))
      /\ taken'[b] = Append(taken[b], x)
      /\ list'[b] = Tail(list[b])
      /\ UNCHANGED <<conf, planned, answer>>
  BY DEF TakeTask, DietInv, Mapped
<1>3. /\ n \in Nat /\ DOMAIN taken[b] = 1 .. n
      /\ DOMAIN taken'[b] = 1 .. n + 1 /\ Len(taken'[b]) = n + 1
      /\ taken'[b][n + 1] = x
      /\ \A i \in 1 .. n : taken'[b][i] = taken[b][i]
  <2>1. IsList(taken[b])
    BY DEF DietInv, ListsOK
  <2> QED
    BY <1>2, <2>1 DEF IsList
<1>4. /\ 1 \in DOMAIN list[b] /\ x = list[b][1]
      /\ \A i \in DOMAIN Tail(list[b]) :
           i \in Nat /\ i + 1 \in DOMAIN list[b] /\ Tail(list[b])[i] = list[b][i + 1]
  <2>1. list[b] \in Seq({list[b][i] : i \in DOMAIN list[b]}) /\ list[b] # <<>>
    BY <1>1 DEF Sending, IsList
  <2> QED
    BY <2>1
<1>5. stack'[b] # <<>>
  BY <1>2, Appended DEF DietInv, ListsOK
<1>6. InOrder(b) /\ TurnOK(b) /\ Parsed(b)' = Parsed(b)
  BY <1>2 DEF CountInv, Parsed
<1>7. n + 1 \in DOMAIN Parsed(b) /\ x = Parsed(b)[n + 1] /\ x.submit \in Nat
  BY <1>1, <1>4, <1>6 DEF InOrder
<1> HIDE DEF x, n
<1>8. InOrder(b)'
  <2>1. ASSUME NEW i \in DOMAIN taken'[b]
        PROVE  i \in DOMAIN Parsed(b) /\ taken'[b][i] = Parsed(b)[i] /\ taken'[b][i].submit \in Nat
    <3>1. CASE i = n + 1
      BY <1>3, <1>7, <3>1
    <3>2. CASE i \in 1 .. n
      BY <1>3, <1>6, <3>2 DEF InOrder
    <3> QED
      BY <1>3, <3>1, <3>2
  <2>2. ASSUME NEW i \in DOMAIN list'[b]
        PROVE  /\ Len(taken'[b]) + i \in DOMAIN Parsed(b)
               /\ list'[b][i] = Parsed(b)[Len(taken'[b]) + i] /\ list'[b][i].submit \in Nat
    <3>1. i \in Nat /\ i + 1 \in DOMAIN list[b] /\ list'[b][i] = list[b][i + 1]
      BY <1>2, <1>4
    <3>2. Len(taken'[b]) + i = n + (i + 1)
      BY <1>3, <3>1
    <3> QED
      BY <1>1, <1>6, <3>1, <3>2 DEF InOrder, n
  <2> QED
    BY <1>6, <2>1, <2>2 DEF InOrder
<1>9. NotBefore(b, planned[b])'
  <2> SUFFICES ASSUME NEW i \in 1 .. n, i > planned[b]
               PROVE  taken'[b][i].submit >= x.submit
    BY <1>2, <1>3, <1>7 DEF NotBefore, Latest
  <2>1. n \in DOMAIN taken[b] /\ taken[b][n].submit \in Nat /\ taken[b][i].submit \in Nat
    <3>1. n \in 1 .. n
      BY <1>3
    <3> QED
      BY <1>3, <1>6, <3>1 DEF InOrder
  <2>2. stack[b] # <<>>
    BY <1>3, <1>6 DEF TurnOK, n
  <2>3. taken[b][i].submit >= taken[b][n].submit
    BY <1>3, <1>6 DEF TurnOK, NotBefore, Latest, n
  <2>4. x.submit =< taken[b][n].submit
    BY <1>1, <2>2 DEF Latest, n, x
  <2> QED
    BY <1>3, <1>7, <2>1, <2>3, <2>4
<1>10. TurnOK(b)'
  <2>1. planned'[b] \in 0 .. Len(taken'[b])
    BY <1>2, <1>3, <1>6 DEF TurnOK, n
  <2> QED
    BY <1>1, <1>2, <1>5, <1>9, <2>1 DEF TurnOK
<1>11. FileOK(b)'
  BY <1>1, <1>2 DEF Sending, FileOK
<1>12. ASSUME NEW c \in Batches, c # b PROVE InOrder(c)' /\ TurnOK(c)' /\ FileOK(c)'
  BY <1>12, UncountedKeeps DEF TakeTask, Uncounted, CountInv, DietInv, Mapped
<1> QED
  BY <1>2, <1>8, <1>10, <1>11, <1>12 DEF CountInv

(* The question changes nothing of this.                                   *)
LEMMA TakeDietCounts ==
  ASSUME NEW b \in Batches, DietInv, CountInv, TakeDiet(b)
  PROVE  CountInv'
<1>1. /\ stack'[b] = Append(stack[b], Message("SB_DIET", None)) /\ load'[b] = "end"
      /\ UNCHANGED <<conf, list, taken, planned, answer>>
  BY DEF TakeDiet, DietInv, Mapped
<1>2. stack'[b] # <<>>
  BY <1>1, Appended DEF DietInv, ListsOK
<1>3. InOrder(b)' /\ TurnOK(b)' /\ FileOK(b)'
  <2>1. Readable(conf.batch[b])
    BY DEF TakeDiet, CountInv, FileOK
  <2> QED
    BY <1>1, <1>2, <2>1 DEF CountInv, InOrder, TurnOK, NotBefore, Latest, Parsed, FileOK
<1>4. ASSUME NEW c \in Batches, c # b PROVE InOrder(c)' /\ TurnOK(c)' /\ FileOK(c)'
  BY <1>4, UncountedKeeps DEF TakeDiet, Uncounted, CountInv, DietInv, Mapped
<1> QED
  BY <1>1, <1>3, <1>4 DEF CountInv

(* The answer counts in what was planned, then all is planned.             *)
LEMMA HandleCounts ==
  ASSUME NEW b \in Batches, DietInv, CountInv, HandleStack(b)
  PROVE  CountInv'
<1>1. CASE EndAs("crash")
  BY <1>1, UncountedKeeps DEF EndAs, loads, turns, Uncounted, CountInv
<1>2. CASE /\ IF Asked(b) THEN AnswerToDIET(b) ELSE UNCHANGED <<param, answer>>
           /\ planned' = [planned EXCEPT ![b] = Len(taken[b])]
           /\ stack' = [stack EXCEPT ![b] = <<>>]
           /\ UNCHANGED <<conf, loads>>
  <2>1. /\ planned'[b] = Len(taken[b]) /\ UNCHANGED <<conf, load, list, taken>>
        /\ \/ answer'[b] = answer[b]
           \/ answer'[b].planned = planned[b]
    BY <1>2 DEF AnswerToDIET, loads, CountInv, DietInv, Mapped
  <2>2. Len(taken[b]) \in Nat /\ DOMAIN taken[b] = 1 .. Len(taken[b])
    <3>1. IsList(taken[b])
      BY DEF DietInv, ListsOK
    <3> QED
      BY <3>1 DEF IsList
  <2>3. InOrder(b) /\ TurnOK(b)
    BY DEF CountInv
  <2>4. NotBefore(b, Len(taken[b]))
    BY <2>2 DEF NotBefore
  <2>5. answer'[b] # None => answer'[b].planned \in Nat /\ NotBefore(b, answer'[b].planned)
    <3>1. planned[b] \in Nat
      BY <2>2, <2>3 DEF TurnOK
    <3> QED
      BY <2>1, <2>3, <3>1 DEF TurnOK
  <2>6. InOrder(b)' /\ TurnOK(b)'
    BY <2>1, <2>2, <2>3, <2>4, <2>5 DEF InOrder, TurnOK, NotBefore, Latest, Parsed
  <2>7. FileOK(b)'
    <3>1. ~ Asked(b) => answer' = answer
      BY <1>2
    <3> QED
      BY <1>2, <2>1, <3>1 DEF CountInv, DietInv, Mapped, FileOK, Asked
  <2>8. ASSUME NEW c \in Batches, c # b PROVE InOrder(c)' /\ TurnOK(c)' /\ FileOK(c)'
    BY <1>2, <2>8, UncountedKeeps DEF AnswerToDIET, loads, Uncounted, CountInv, DietInv, Mapped
  <2> QED
    BY <1>2, <2>6, <2>7, <2>8 DEF CountInv
<1> QED
  BY <1>1, <1>2 DEF HandleStack

LEMMA CountStep == DietInv /\ CountInv /\ [Next]_vars => CountInv'
<1> SUFFICES ASSUME DietInv, CountInv, [Next]_vars PROVE CountInv'
  OBVIOUS
<1>1. CASE UNCHANGED <<conf, loads, turns>>
  BY <1>1, UncountedKeeps DEF loads, turns, Uncounted, CountInv
<1>2. CASE Boot \/ Clean \/ (\E b \in Batches : BatchEnd(b)) \/ UNCHANGED vars
  BY <1>1, <1>2 DEF Boot, Clean, BatchEnd, EndAs, shared, loads, vars
<1>3. ASSUME NEW b \in Batches, StartBatch(b) PROVE CountInv'
  <2>1. CASE \E p \in {"crash", "dead"} : EndAs(p)
    BY <1>1, <2>1 DEF EndAs
  <2>2. CASE /\ load' = [load EXCEPT ![b] = IF HasLoad(conf.batch[b]) THEN "start" ELSE @]
             /\ UNCHANGED <<conf, list, taken, turns>>
    <3>1. ASSUME NEW c \in Batches PROVE Uncounted(c)
      BY <2>2 DEF turns, Uncounted, DietInv, Mapped
    <3> QED
      BY <2>2, <3>1, UncountedKeeps DEF turns, CountInv
  <2> QED
    BY <1>3, <2>1, <2>2 DEF StartBatch
<1>4. ASSUME NEW b \in Batches, LoadStep(b) \/ HandleStack(b) PROVE CountInv'
  BY <1>4, LoadCounts, TakeTaskCounts, TakeDietCounts, HandleCounts DEF LoadStep
<1> QED
  BY <1>2, <1>3, <1>4 DEF Next, Terminated

(***************************************************************************)
(* However many batches there are and whatever their loads: an answer for  *)
(* DIET comes when all jobs have been taken, and counts in every job that  *)
(* is submitted before the last one (external_load.c:129), although it is  *)
(* handled before the jobs that come in its turn (batch.c:275).            *)
(***************************************************************************)
THEOREM AnswersCount == Spec => []AnswerCounts
<1>1. DietInv /\ CountInv => AnswerCounts
  <2> SUFFICES ASSUME DietInv, CountInv, NEW b \in Batches, answer[b] # None,
                      NEW i \in DOMAIN Parsed(b), i > answer[b].planned
               PROVE  i =< Len(taken[b]) /\ Parsed(b)[i].submit >= Parsed(b)[Len(Parsed(b))].submit
    BY DEF AnswerCounts, Parsed
  <2>1. Len(taken[b]) = Len(Parsed(b)) /\ IsList(taken[b])
    BY DEF DietInv, QuestionOK, ListsOK
  <2>2. /\ conf \in Configs
        /\ InOrder(b) /\ NotBefore(b, answer[b].planned)
    BY DEF DietInv, CountInv, TurnOK
  <2>3. IsList(Parsed(b))
    BY <2>2, ParsedList DEF CountInv, FileOK
  <2>4. /\ Len(taken[b]) \in Nat /\ DOMAIN taken[b] = 1 .. Len(taken[b])
        /\ DOMAIN Parsed(b) = 1 .. Len(Parsed(b))
    BY <2>1, <2>3 DEF IsList
  <2>5. i \in DOMAIN taken[b] /\ Len(taken[b]) \in DOMAIN taken[b]
    BY <2>1, <2>4
  <2> QED
    BY <2>1, <2>2, <2>4, <2>5 DEF InOrder, NotBefore, Latest
<1> QED
  BY <1>1, DietInvariant, CountInit, CountStep, PTL DEF Spec

(* A batch never answers 0, nor more nodes than it has, although all of    *)
(* them clamp the same parameter (batch.c:530, simbatch_config.c:117).     *)
THEOREM FittingAnswer == Spec => []AnswerFits
<1>1. DietInv => AnswerFits
  BY DEF DietInv, ParamOK
<1> QED
  BY <1>1, DietInvariant, PTL
=============================================================================
