------------------------------ MODULE MCGantt ------------------------------
(***************************************************************************)
(* Checks the operators of Gantt against the loops they stand for: in every*)
(* table TableWalk reaches, the closed forms must agree with a line by line*)
(* transcription of search_a_slot, find_a_slot and select_n_slots.         *)
(***************************************************************************)
EXTENDS TableWalk, SequencesExt

-----------------------------------------------------------------------------
(* search_a_slot, literally: positions from 0, start and end as arguments. *)
RECURSIVE SearchASlot(_, _, _, _, _, _)
SearchASlot(g, n, it, start, end, dur) ==
  IF start < end THEN SearchASlot(g, n, it, end, end, dur)
  ELSE IF it = Len(g.chart[n]) THEN [node |-> n, position |-> it, start |-> start]
  ELSE LET j == g.chart[n][it + 1]
       IN  IF start < g.start[j]
             THEN IF g.start[j] - start > dur
                    THEN [node |-> n, position |-> it, start |-> start]
                    ELSE SearchASlot(g, n, it + 1, End(g, j), End(g, j), dur)
             ELSE SearchASlot(g, n, it + 1, start, End(g, j), dur)

MCWalls == <<1, 2, 3>>

SortSlots(S) ==
  SetToSortSeq(S, LAMBDA a, b : \/ a.start < b.start
                                \/ a.start = b.start /\ a.node < b.node)

(* find_a_slot: search again, from where they stopped, the slots that come *)
(* before the first one that starts later (check_matching_slot).           *)
RECURSIVE Match(_, _, _, _)
Match(g, slots, nb, dur) ==
  LET later == {i \in 2 .. nb : slots[i].start # slots[i - 1].start}
  IN  IF later = {} THEN slots
      ELSE LET m == CHOOSE i \in later : \A k \in later : i =< k
               again == {SearchASlot(g, slots[i].node, slots[i].position,
                                     slots[m].start, slots[m].start, dur)
                           : i \in 1 .. m - 1}
           IN  Match(g, SortSlots(again \cup {slots[i] : i \in m .. NbNodes}), nb, dur)

FindASlot(g, nb, t, dur) ==
  Match(g, SortSlots({SearchASlot(g, n, 0, t, t, dur) : n \in Nodes}), nb, dur)

(* select_n_slots: nb times, the first of the cheapest remaining slots.    *)
RECURSIVE SelectNSlots(_, _)
SelectNSlots(slots, nb) ==
  IF nb = 0 THEN <<>>
  ELSE LET w == CHOOSE i \in DOMAIN slots :
                  /\ \A k \in DOMAIN slots : slots[i].start =< slots[k].start
                  /\ \A k \in 1 .. i - 1 : slots[k].start > slots[i].start
       IN  <<slots[w]>> \o SelectNSlots(RemoveAt(slots, w), nb - 1)

-----------------------------------------------------------------------------
(* Properties.                                                             *)

(* The slots find_a_slot returns are the ones the closed form describes:   *)
(* the nb first start at EarliestStart, on the chosen nodes, in node order,*)
(* each at the queue position SlotPosition names.                          *)
FindASlotMatches ==
  \A nb \in Nodes, t \in now .. Horizon, dur \in 1 .. 3 :
    LET slots == FindASlot(gantt, nb, t, dur)
        bid == CbfBid(gantt, nb, t, dur)
    IN  /\ \A i \in 1 .. nb : /\ slots[i].start = bid.start
                              /\ slots[i].position + 1 = bid.pos[slots[i].node]
        /\ {slots[i].node : i \in 1 .. nb} = bid.nodes
        /\ slots[1].node = bid.lead

(* The slots select_n_slots picks among the ends of the queues are the ones*)
(* FcfsBid describes, the worst of them being the start of the job.        *)
SelectNSlotsMatches ==
  \A nb \in Nodes :
    LET all == [n \in Nodes |-> [node |-> n, start |-> LastSlot(gantt, n, now)]]
        slots == SelectNSlots(all, nb)
        bid == FcfsBid(gantt, nb, now)
    IN  /\ {slots[i].node : i \in 1 .. nb} = bid.nodes
        /\ slots[1].node = bid.lead
        /\ slots[nb].start = bid.start
=============================================================================
