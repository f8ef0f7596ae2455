--------------------------- MODULE MCTicketPages ----------------------------
(***************************************************************************)
(* Two small instances of TicketPages for TLC, told apart by y: either it  *)
(* is never there, and the other ticket may be of any team and epic, also  *)
(* of an epic of another team; or there is a second ticket to which the    *)
(* pages go on, and one team is enough.                                    *)
(***************************************************************************)
EXTENDS TicketPages, TLC

CONSTANTS a, e, y, first, second

MCEpicTeam == e :> a

Second == ticket[y] # NotYet

Plain(v) == v.team \in {a, NoTeam} /\ v.epic = NoEpic

\* Bound on the events of the instance with two tickets.
MaxPairEvents == 4

SmallInit == Init /\ (Second => \A t \in Tickets : Exists(t) => Plain(ticket[t]))

PairStep ==
  /\ events' <= MaxPairEvents
  /\ form' # NoForm => Plain(form')
  /\ \A t \in Tickets : ticket'[t] \notin {NotYet, Gone} => Plain(ticket'[t])

\* Mutations are interchangeable, so the first may as well be sent first;
\* unlike SYMMETRY this is sound for liveness too.
FirstFirst == call'[second].phase # "unused" => call'[first].phase # "unused"

SmallNext ==
  /\ Next
  /\ FirstFirst
  /\ IF Second THEN PairStep ELSE ticket'[y] = NotYet

SmallSpec == SmallInit /\ [][SmallNext]_vars /\ WF_vars(Work)

=============================================================================
