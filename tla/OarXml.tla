------------------------------- MODULE OarXml -------------------------------
(***************************************************************************)
(* The parser of OAR workloads, src/plugins/input/oar2-xml.c: callbacks of *)
(* a SAX parser that communicate through global variables.  The converter  *)
(* tools/oarXml2wld has the same callbacks and writes a line per job,      *)
(* which the parser src/plugins/input/wld.c reads.                         *)
(*                                                                         *)
(* The globals are a record p                                              *)
(*    p.elt       current_elt                                              *)
(*    p.counter, p.depth                                                   *)
(*    p.walltime  take the "walltime" item, not "wanted_resources"         *)
(*    p.assigned  count "assigned_resources", not "reserved_resources"     *)
(*    p.infos     infos[0..3]: id, submit, time, procs                     *)
(*    p.list      the infos of the jobs, in the order of their ends        *)
(* An event is the start of an element (its tag, the value of its first    *)
(* attribute and whether it is marked defined="false"), the end of one, or *)
(* text.                                                                   *)
(***************************************************************************)
EXTENDS Integers, Sequences, SequencesExt

StartElt(tag, key, undef) == [kind |-> "start", tag |-> tag, key |-> key, undef |-> undef]
EndElt == [kind |-> "end"]
Chars(value) == [kind |-> "text", value |-> value]

(* start_doc.                                                              *)
StartDoc ==
  [elt |-> "OTHER", counter |-> 0, depth |-> 0, walltime |-> TRUE, assigned |-> TRUE,
   infos |-> [id |-> 0, submit |-> 0, time |-> 0, procs |-> 0], list |-> <<>>]

Item(e, key) == e.tag = "item" /\ e.key = key

(* start_elt.  A resource is counted at depth 7 whatever its key is.       *)
OnStart(p0, e) ==
  LET p == [p0 EXCEPT !.depth = @ + 1]
  IN  CASE Item(e, "Job_Id") -> [p EXCEPT !.elt = "JOB_ID"]
        [] Item(e, "assigned_resources") /\ p.assigned -> [p EXCEPT !.elt = "RESOURCES"]
        [] Item(e, "reserved_resources") /\ ~ p.assigned -> [p EXCEPT !.elt = "RESOURCES"]
        [] p.elt = "RESOURCES" /\ p.depth = 7 -> [p EXCEPT !.counter = @ + 1]
        [] Item(e, "submissionTime") -> [p EXCEPT !.elt = "SUB_TIME"]
        [] Item(e, "walltime") /\ e.undef -> [p EXCEPT !.walltime = FALSE]
        [] Item(e, "walltime") /\ ~ e.undef -> [p EXCEPT !.elt = "WALL_TIME_1"]
        [] Item(e, "wanted_resources") /\ ~ p.walltime -> [p EXCEPT !.elt = "WALL_TIME_2"]
        [] OTHER -> p

(* Mutant: the booleans are not set again for the next job.                *)
X_OnEndKeepsFlags(p0) ==
  LET p == [p0 EXCEPT !.depth = @ - 1]
  IN  CASE p.elt = "RESOURCES" /\ p.depth = 5 ->
             IF p.counter = 0
               THEN [p EXCEPT !.assigned = FALSE, !.elt = "OTHER"]
               ELSE [p EXCEPT !.infos.procs = p.counter, !.counter = 0, !.elt = "OTHER"]
        [] p.elt = "RESOURCES" /\ p.depth > 5 -> p
        [] p.depth = 3 /\ p.elt # "RESOURCES" ->
             [p EXCEPT !.list = Append(@, p.infos), !.elt = "OTHER"]
        [] OTHER -> [p EXCEPT !.elt = "OTHER"]

(***************************************************************************)
(* end_elt.  The end of a list of resources at depth 5 writes infos[3], or *)
(* nothing when the list was empty; the end of a job at depth 3 pushes it. *)
(* infos is never cleared.                                                 *)
(***************************************************************************)
OnEnd(p0) ==
  LET p == [p0 EXCEPT !.depth = @ - 1]
  IN  CASE p.elt = "RESOURCES" /\ p.depth = 5 ->
             IF p.counter = 0
               THEN [p EXCEPT !.assigned = FALSE, !.elt = "OTHER"]
               ELSE [p EXCEPT !.infos.procs = p.counter, !.counter = 0, !.elt = "OTHER"]
        [] p.elt = "RESOURCES" /\ p.depth > 5 -> p
        [] p.depth = 3 ->
             [p EXCEPT !.list = Append(@, p.infos), !.elt = "OTHER",
                       !.walltime = TRUE, !.assigned = TRUE]
        [] OTHER -> [p EXCEPT !.elt = "OTHER"]

(* chars.  "wanted_resources" is hours:minutes:seconds.                    *)
OnChars(p, v) ==
  CASE p.elt = "JOB_ID"      -> [p EXCEPT !.infos.id = v]
    [] p.elt = "SUB_TIME"    -> [p EXCEPT !.infos.submit = v]
    [] p.elt = "WALL_TIME_1" -> [p EXCEPT !.infos.time = v]
    [] p.elt = "WALL_TIME_2" -> [p EXCEPT !.infos.time = 3600 * v[1] + 60 * v[2] + v[3]]
    [] OTHER -> p

Handle(p, e) ==
  CASE e.kind = "start" -> OnStart(p, e)
    [] e.kind = "end"   -> OnEnd(p)
    [] e.kind = "text"  -> OnChars(p, e.value)

(***************************************************************************)
(* The parser calls them one after the other.  (TLC's stack is not deep:   *)
(* the events are halved, and the set {q} has the first half evaluated     *)
(* before the second.)                                                     *)
(***************************************************************************)
RECURSIVE HandleAll(_, _)
HandleAll(p, events) ==
  LET half == Len(events) \div 2
  IN  CASE Len(events) = 0 -> p
        [] Len(events) = 1 -> Handle(p, events[1])
        [] OTHER -> CHOOSE r \in {HandleAll(q, SubSeq(events, half + 1, Len(events))) :
                                   q \in {HandleAll(p, SubSeq(events, 1, half))}} : TRUE

Infos(events) == HandleAll(StartDoc, events).list

(* The job that is pushed; run_time and wall_time are both infos[2].       *)
JobOf(infos) ==
  [id |-> infos.id, submit |-> infos.submit, run |-> infos.time, input |-> 0, output |-> 0,
   wall |-> infos.time, procs |-> infos.procs, priority |-> 0, service |-> 0]

(* oar2_xml_parse.                                                         *)
OarParse(events) ==
  FoldLeft(LAMBDA jobs, infos : Append(jobs, JobOf(infos)), <<>>, Infos(events))

(* The converter: the line it writes instead.                              *)
LineOf(infos) ==
  <<infos.id, infos.submit, infos.time, 0, 0, infos.time, infos.procs, 0, 0>>

Convert(events) ==
  FoldLeft(LAMBDA lines, infos : Append(lines, LineOf(infos)), <<>>, Infos(events))

(* wld_parse, on lines with all nine fields.                               *)
JobOfLine(l) ==
  [id |-> l[1], submit |-> l[2], run |-> l[3], input |-> l[4], output |-> l[5],
   wall |-> l[6], procs |-> l[7], priority |-> l[8], service |-> l[9]]

WldParse(lines) == FoldLeft(LAMBDA jobs, l : Append(jobs, JobOfLine(l)), <<>>, lines)

-----------------------------------------------------------------------------
(***************************************************************************)
(* The documents oarstat writes: one hashref per job, its items in the     *)
(* order of their keys.  A job d has an id, a submit time, the numbers of  *)
(* its assigned and reserved resources, and a wall time or, when that is   *)
(* -1 (marked defined="false"), a wanted <<h, m, s>>.                      *)
(***************************************************************************)
TextItem(key, v) == <<StartElt("item", key, FALSE), Chars(v), EndElt>>

Resources(key, nb) ==
  <<StartElt("item", key, FALSE), StartElt("arrayref", "", FALSE)>>
    \o FlattenSeq([i \in 1 .. nb |-> TextItem("0", i)])
    \o <<EndElt, EndElt>>

JobEvents(d) ==
  <<StartElt("item", "job", FALSE), StartElt("hashref", "", FALSE)>>
    \o TextItem("Job_Id", d.id)
    \o Resources("assigned_resources", d.assigned)
    \o TextItem("project", 0)
    \o Resources("reserved_resources", d.reserved)
    \o TextItem("submissionTime", d.submit)
    \o (IF d.wall = -1
          THEN <<StartElt("item", "walltime", TRUE), EndElt>>
          ELSE TextItem("walltime", d.wall))
    \o TextItem("wanted_resources", d.wanted)
    \o <<EndElt, EndElt>>

Events(document) ==
  <<StartElt("perldata", "", FALSE), StartElt("hashref", "", FALSE)>>
    \o FlattenSeq([i \in DOMAIN document |-> JobEvents(document[i])])
    \o <<EndElt, EndElt>>

(***************************************************************************)
(* What such a job means.  The nodes it got count, or else those it has    *)
(* reserved; for a job with neither, the code keeps those of the job before*)
(***************************************************************************)
Meaning(d) ==
  LET time == IF d.wall # -1 THEN d.wall
              ELSE 3600 * d.wanted[1] + 60 * d.wanted[2] + d.wanted[3]
  IN  [id |-> d.id, submit |-> d.submit, run |-> time, input |-> 0, output |-> 0,
       wall |-> time, procs |-> IF d.assigned > 0 THEN d.assigned ELSE d.reserved,
       priority |-> 0, service |-> 0]

HasResources(d) == d.assigned + d.reserved > 0
=============================================================================
