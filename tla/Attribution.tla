---------------------------- MODULE Attribution ----------------------------
(***************************************************************************)
(* The attribution row of one identity (attribution_touches, UNIQUE on     *)
(* identity_id) and what upsert_attribution does to it.                    *)
(*                                                                         *)
(* A delivered event is a record [id, at, content, edited]: its primary    *)
(* key, its received_at, the pair (source, campaign_id) that the touch     *)
(* denormalizes, and is_edit.  The row itself is a pair of touches.        *)
(***************************************************************************)
EXTENDS Integers

CONSTANTS Events,    \* primary keys of the events table
          Times,     \* values of received_at
          Contents,  \* (source, campaign_id) pairs
          NoRow      \* the query found no row

Delivery == [id : Events, at : Times, content : Contents, edited : BOOLEAN]
TouchPoint == [event : Events, at : Times, content : Contents]
TouchRow == [first : TouchPoint, last : TouchPoint]

ASSUME TimesAreNumbers == Times \subseteq Nat

\* NoRow stands for the absence of a row, so it is no row of any table.
ASSUME NoRowIsNoTouch == NoRow \notin TouchRow

Point(e) == [event |-> e.id, at |-> e.at, content |-> e.content]

\* Variant: an edit does not look which touch is the edited event's.
DenormalizeAny(p, e) == [p EXCEPT !.event = e.id, !.content = e.content]

\* An edit only rewrites the denormalized columns of the touches that
\* reference the edited event; it moves no time.
Denormalize(p, e) ==
  IF p.event = e.id THEN [p EXCEPT !.content = e.content] ELSE p

\* Variants: the first touch is what arrived first, the last what arrived last.
EarliestArrived(p, e) == p
LatestArrived(p, e) == Point(e)

Earliest(p, e) == IF e.at < p.at THEN Point(e) ELSE p
Latest(p, e) == IF e.at > p.at THEN Point(e) ELSE p

Upsert(row, e) ==
  IF row = NoRow THEN [first |-> Point(e), last |-> Point(e)]
  ELSE IF e.edited
       THEN [first |-> Denormalize(row.first, e),
             last  |-> Denormalize(row.last, e)]
       ELSE [first |-> Earliest(row.first, e),
             last  |-> Latest(row.last, e)]
=============================================================================
