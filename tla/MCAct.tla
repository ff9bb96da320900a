------------------------------- MODULE MCAct -------------------------------
(***************************************************************************)
(* Three requests that act on two events of one identity.                  *)
(***************************************************************************)
EXTENDS Act, TLC

\* Requests, contents and queues are interchangeable; so are the events.
Symmetric == Permutations(Requests) \cup Permutations(Events)
             \cup Permutations(Contents) \cup Permutations(Queues)
=============================================================================
