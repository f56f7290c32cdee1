----------------------------- MODULE MCStartup -----------------------------
(***************************************************************************)
(* Three batches, which may share a plugin or have elements of no batch.   *)
(***************************************************************************)
EXTENDS Startup, OarXml, TLC

CONSTANTS B1, B2, B3

MCNumbers == "0" :> 0 @@ "3" :> 3 @@ "60" :> 60

MCLibraries == {"cbf", "fcfs", "oar2-xml", "wld"}

MCNbNodes == B1 :> 1 @@ B2 :> 4 @@ B3 :> 2

Plain == <<"main", "-f", "conf.xml">>
Diet(tp) == Plain \o <<"-o", "diet", "-tw", "60", "-tp", tp>>

(* The parsers, each with the file it is meant for.                        *)
MCParse(parser, document) ==
  IF parser = "wld" THEN WldParse(Convert(Events(document))) ELSE OarParse(Events(document))

(* With and without DIET, and every way to be refused.                     *)
MCCommandLines ==
  {Plain, Diet("3"), Diet("0"), <<"main">>, <<"main", "-f">>, <<"main", "-f", "-o">>,
   Plain \o <<"-f">>, Plain \o <<"-o", "diet">>,
   Plain \o <<"-o", "diet", "-tw", "0", "-tp", "3">>}

OarJobAt(submit, i, assigned, reserved, wall) ==
  [id |-> i, submit |-> submit, assigned |-> assigned, reserved |-> reserved, wall |-> wall,
   wanted |-> <<1, 2, i>>]

OarJob(i, assigned, reserved, wall) == OarJobAt(10 * i, i, assigned, reserved, wall)

OarJobs(i) ==
  {OarJob(i, a, r, w) : a \in {0, 1, 3}, r \in {0, 2}, w \in {-1, 60}}

Element(plugin, number, document, parser) ==
  [plugin |-> plugin, number |-> number, load |-> document, parser |-> parser]

Dedicated == Element("cbf", 1, None, None)

Configuration(x, y, z) ==
  [valid |-> TRUE, files |-> {"platform", "deployment"}, writable |-> TRUE, spare |-> 0,
   batch |-> B1 :> x @@ B2 :> y @@ B3 :> z]

(* Every pair of jobs, through both parsers.                               *)
Documents ==
  {Configuration(Element("fcfs", 1, <<i, k>>, p), Dedicated, Dedicated) :
     i \in OarJobs(1), k \in OarJobs(2), p \in {"oar2-xml", "wld"}}

(* Loads beside each other, an empty one, and elements that lack something.*)
Two == <<OarJob(1, 1, 0, 60), OarJob(2, 0, 2, -1)>>

(* Jobs that are submitted together, after and before others.              *)
Three(t) == <<OarJobAt(t, 1, 1, 0, 60), OarJobAt(20, 2, 0, 2, 60), OarJobAt(20, 3, 3, 0, 60)>>
Unsorted == <<OarJobAt(30, 1, 1, 0, 60), OarJobAt(10, 2, 1, 0, 60), OarJobAt(20, 3, 1, 0, 60)>>

Elements ==
  {Dedicated, Element("fcfs", 1, Two, "wld"), Element("cbf", 1, <<>>, "oar2-xml"),
   Element("fcfs", 2, Two, None)}

Flawed ==
  {Element("none", 1, Two, "wld"), Element("cbf", None, Two, "wld"),
   Element("cbf", 1, Two, "none")}

Mixed == {Configuration(x, y, z) : x \in Elements, y \in Elements, z \in Elements \cup Flawed}

Special ==
  LET c == Configuration(Dedicated, Element("fcfs", 1, Two, "wld"), Dedicated)
  IN  {[c EXCEPT !.spare = 1],
       [c EXCEPT !.batch[B3] = Element("cbf", 1, Unreadable, "wld")],
       [c EXCEPT !.batch[B1] = Element("fcfs", 1, Three(10), "wld"),
                 !.batch[B2] = Element("cbf", 1, Three(20), "wld"),
                 !.batch[B3] = Element("cbf", 1, Unsorted, "oar2-xml")],
       [c EXCEPT !.valid = FALSE],
       [c EXCEPT !.files = {"platform"}],
       [c EXCEPT !.writable = FALSE]}

MCConfigs == Documents \cup Mixed \cup Special

-----------------------------------------------------------------------------
(***************************************************************************)
(* What a batch gets, from either parser, is what the document says, job by*)
(* job and in its order: no callback of one job leaves anything to the next*)
(* (oar2-xml.c:147).  Jobs that name no resource are left out.             *)
(***************************************************************************)
JobsFromDocument ==
  \A b \in Batches : load[b] \in {"send", "diet", "end"} /\ Readable(conf.batch[b]) =>
    LET document == conf.batch[b].load
        jobs == taken[b] \o list[b]
    IN  /\ Len(jobs) = Len(document)
        /\ \A i \in DOMAIN document :
             HasResources(document[i]) => jobs[i] = Meaning(document[i])
=============================================================================
