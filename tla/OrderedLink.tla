----------------------------- MODULE OrderedLink -----------------------------
(***************************************************************************)
(* What the numbering of events promises between the controller and the    *)
(* risk engine's event table: an ordered link that may lose events but     *)
(* records no offset twice and none out of order.                          *)
(***************************************************************************)
EXTENDS Naturals, Sequences

VARIABLES top,        \* the highest offset handed to the link
          inflight,   \* offsets handed over and not yet recorded, lost or overtaken
          table       \* the offsets recorded, in the order of recording

LinkVars == <<top, inflight, table>>

\* the offset recorded last, 0 at first
LastOf(t) == IF t = << >> THEN 0 ELSE t[Len(t)]

Init == top = 0 /\ inflight = {} /\ table = << >>

\* Offsets are handed over in order; the newest one again as long as it is not recorded
\* (a flood alert and the message it is about carry the same number).
Submit ==
    /\ top' >= top /\ top' > LastOf(table)
    /\ inflight' = inflight \cup {top'}
    /\ UNCHANGED table

Lose ==
    /\ inflight' \subseteq inflight
    /\ UNCHANGED <<top, table>>

\* Recording o overtakes every smaller offset still in flight.
Record(o) ==
    /\ o \in inflight
    /\ o > LastOf(table)
    /\ table' = Append(table, o)
    /\ inflight' = {p \in inflight : p > o}
    /\ UNCHANGED top

Next == Submit \/ Lose \/ (\E o \in inflight : Record(o))

Spec == Init /\ [][Next]_LinkVars

=============================================================================
