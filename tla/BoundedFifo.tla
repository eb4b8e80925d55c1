---------------------------- MODULE BoundedFifo ----------------------------
(***************************************************************************)
(* A queue of at most span values that forgets its oldest value when one   *)
(* is pushed into a full queue: what FixedQueue is meant to be.            *)
(***************************************************************************)
EXTENDS Naturals, Sequences

CONSTANTS Values, span

VARIABLES
    items,      \* oldest first
    history     \* what was done since the last reset

vars == <<items, history>>

Init == items = <<>> /\ history = "fresh"

Push ==
    /\ \E val \in Values :
          items' = Append(IF Len(items) = span THEN Tail(items) ELSE items, val)
    /\ history' = IF history = "popped" THEN "popped" ELSE "pushed"

PopOldest == items # <<>> /\ items' = Tail(items) /\ history' = "popped"

Reset == items' = <<>> /\ history' = "fresh"

Next == Push \/ PopOldest \/ Reset

Spec == Init /\ [][Next]_vars
=============================================================================
