-------------------------- MODULE AttributionOrder --------------------------
(***************************************************************************)
(* Does the attribution of an identity depend on the order in which its    *)
(* events are delivered?  Two copies of one attribution row receive the    *)
(* same events, each copy in an order of its own, with redeliveries        *)
(* (replays) and with edits of events already delivered.                   *)
(***************************************************************************)
EXTENDS Attribution

CONSTANTS Copies,    \* the rows that are compared
          Original   \* received_at and content of each event as first submitted

ASSUME OriginalAssumption ==
  Original \in [Events -> [at : Times, content : Contents]]

VARIABLES row,    \* row[c]: the touch row of copy c, or NoRow
          seen    \* seen[c]: the events copy c has been given

vars == <<row, seen>>

Init == /\ row = [c \in Copies |-> NoRow]
        /\ seen = [c \in Copies |-> {}]

Give(c, e) == row' = [row EXCEPT ![c] = Upsert(row[c], e)]

\* act() of an event as submitted, for the first time or again by a replay.
Deliver(c, id) ==
  /\ Give(c, [id |-> id, at |-> Original[id].at,
              content |-> Original[id].content, edited |-> FALSE])
  /\ seen' = [seen EXCEPT ![c] = @ \cup {id}]

\* act() of an edit: the event row was rewritten, received_at included.
DeliverEdit(c, id, at, content) ==
  /\ id \in seen[c]
  /\ Give(c, [id |-> id, at |-> at, content |-> content, edited |-> TRUE])
  /\ UNCHANGED seen

Next == \E c \in Copies, id \in Events :
          \/ Deliver(c, id)
          \/ \E at \in Times, content \in Contents :
               DeliverEdit(c, id, at, content)

Spec == Init /\ [][Next]_vars

-----------------------------------------------------------------------------
\* The shape of every variable.
TypeOK == /\ row \in [Copies -> TouchRow \cup {NoRow}]
          /\ seen \in [Copies -> SUBSET Events]

\* The row of a copy spans exactly the times of the events it was given.
Spans(c) ==
  /\ row[c] = NoRow <=> seen[c] = {}
  /\ row[c] # NoRow =>
       /\ \A id \in seen[c] : /\ row[c].first.at <= Original[id].at
                              /\ Original[id].at <= row[c].last.at
       /\ \E id \in seen[c] : row[c].first.at = Original[id].at
       /\ \E id \in seen[c] : row[c].last.at = Original[id].at

RowsSpanSeen == \A c \in Copies : Spans(c)

\* Copies that were given the same events agree on both touch times, in
\* whatever order, with whatever redeliveries and edits in between
\* (upsert_attribution, strict comparisons of the update path; an edit never
\* moves a time).
TimesOrderFree ==
  \A c, d \in Copies :
    seen[c] = seen[d] /\ seen[c] # {} =>
      /\ row[c].first.at = row[d].first.at
      /\ row[c].last.at = row[d].last.at

\* The times of a row are a matter of what it was given, never of when.
TimesFollowSeen == RowsSpanSeen /\ TimesOrderFree
=============================================================================
