----------------------------- MODULE FixedQueue -----------------------------
(***************************************************************************)
(* Utility/FixedQueue.h: a circular buffer of span + 1 slots between the   *)
(* indices begin and end, with the values of the slots that are outside it *)
(* left where they are.                                                    *)
(***************************************************************************)
EXTENDS Integers, Sequences

CONSTANTS
    Values,     \* what is pushed
    failret,    \* what the accessors return when there is no such value
    span        \* capacity

ASSUME SpanAssumption == span \in Nat \ {0}

VARIABLES
    data, begin, end,
    history         \* what was done since the last reset: nothing ("fresh"),
                    \* only pushes ("pushed"), or also pops ("popped")

vars == <<data, begin, end, history>>

Slots == 0..span
Succ(i) == (i + 1) % (span + 1)

\* new T[_span+1] leaves the slots as they come; failret stands for that.
Init == data = [i \in Slots |-> failret] /\ begin = 0 /\ end = 0 /\ history = "fresh"

Pushed == history' = IF history = "popped" THEN "popped" ELSE "pushed"

\* Mutant of push: begin stays when the queue is full.
push_Overrun ==
    \E val \in Values :
        /\ data' = [data EXCEPT ![end] = val]
        /\ end' = Succ(end)
        /\ Pushed /\ UNCHANGED begin

\* Mutant of push: the indices do not wrap.
push_NoWrap ==
    \E val \in Values :
        /\ data' = [data EXCEPT ![end] = val]
        /\ end' = end + 1
        /\ begin' = IF begin = end' THEN Succ(begin) ELSE begin
        /\ Pushed

push ==
    \E val \in Values :
        /\ data' = [data EXCEPT ![end] = val]
        /\ end' = Succ(end)
        /\ begin' = IF begin = end' THEN Succ(begin) ELSE begin
        /\ Pushed

pop_oldest ==
    /\ begin # end
    /\ begin' = Succ(begin)
    /\ history' = "popped"
    /\ UNCHANGED <<data, end>>

reset == begin' = 0 /\ end' = 0 /\ history' = "fresh" /\ UNCHANGED data

Next == push \/ pop_oldest \/ reset

Spec == Init /\ [][Next]_vars

-----------------------------------------------------------------------------
(* The accessors. *)

empty == begin = end

\* Mutant of n_meas: what the wrapped queue holds, less one.
n_meas_Short ==
    IF end < begin THEN end + span - begin ELSE end - begin

n_meas ==
    IF begin = end THEN 0
    ELSE IF end < begin THEN begin + span - end - 1
    ELSE end - begin

full == n_meas = span

newest == IF begin = end THEN failret ELSE data[(end + span) % (span + 1)]

oldest == IF begin = end THEN failret ELSE data[begin]

\* operator[]
At(i) == IF i + 1 > n_meas THEN failret ELSE data[(i + begin) % (span + 1)]

-----------------------------------------------------------------------------
(* The queue that the buffer stands for. *)

count == IF end < begin THEN end + (span + 1) - begin ELSE end - begin
items == [i \in 1..count |-> data[(begin + i - 1) % (span + 1)]]

\* Type invariant: the slots, and indices within them (the asserts of push and
\* operator[]).
TypeOK ==
    /\ data \in [Slots -> Values \cup {failret}]
    /\ begin \in Slots
    /\ end \in Slots
    /\ history \in {"fresh", "pushed", "popped"}

\* Pushing, popping and resetting do what they do to a bounded queue, also
\* across the end of the array and when a full queue forgets its oldest value.
Fifo == INSTANCE BoundedFifo
ImplementsFifo == Fifo!Spec

\* oldest, newest, empty and full tell the truth about that queue.
EndsRight ==
    /\ oldest = IF items = <<>> THEN failret ELSE Head(items)
    /\ newest = IF items = <<>> THEN failret ELSE items[Len(items)]
    /\ empty <=> items = <<>>
    /\ full <=> Len(items) = span

IndexedLikeItems ==
    \A i \in 0..(2 * span) :
        At(i) = IF i < Len(items) THEN items[i + 1] ELSE failret

\* As long as nothing was popped, operator[] gives the i-th oldest value, and
\* failret beyond the newest.
IndexRight == history # "popped" => IndexedLikeItems

\* So all of oldest, newest, empty, full and, until something is popped,
\* operator[] answer about that queue, whatever was pushed, popped and reset.
QueriesRight == EndsRight /\ IndexRight

\* operator[] always does ("0 is the beginning (oldest) data").
IndexAlwaysRight == IndexedLikeItems
=============================================================================
