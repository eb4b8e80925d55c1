-------------------------- MODULE FixedQueueProofs --------------------------
(***************************************************************************)
(* FixedQueue is a bounded queue for every span and every set of values.   *)
(***************************************************************************)
EXTENDS FixedQueue, SequenceTheorems, TLAPS

USE SpanAssumption

V == Values \cup {failret}

LEMMA SuccIs ==
    ASSUME NEW i \in Slots
    PROVE  /\ Succ(i) \in Slots
           /\ Succ(i) = IF i = span THEN 0 ELSE i + 1
<1>1. CASE i = span
  BY <1>1 DEF Succ, Slots
<1>2. CASE i < span
  BY <1>2 DEF Succ, Slots
<1>3. QED
  BY <1>1, <1>2 DEF Slots

LEMMA TypeInit == Init => TypeOK
BY DEF Init, TypeOK, Slots

LEMMA TypeStep == TypeOK /\ [Next]_vars => TypeOK'
<1> SUFFICES ASSUME TypeOK, [Next]_vars PROVE TypeOK'
  OBVIOUS
<1>1. CASE push
  BY <1>1, SuccIs DEF push, Pushed, TypeOK
<1>2. CASE pop_oldest
  BY <1>2, SuccIs DEF pop_oldest, TypeOK
<1>3. CASE reset
  BY <1>3 DEF reset, TypeOK, Slots
<1>4. CASE UNCHANGED vars
  BY <1>4 DEF vars, TypeOK
<1>5. QED
  BY <1>1, <1>2, <1>3, <1>4 DEF Next

\* begin and end stay inside the array: what the asserts of push and
\* operator[] say.
THEOREM TypeCorrect == Spec => []TypeOK
BY TypeInit, TypeStep, PTL DEF Spec

-----------------------------------------------------------------------------

\* The i-th oldest value is begin + i - 1 slots into the array, or as many less
\* span + 1.
Slot(i) == IF begin + i - 1 <= span THEN begin + i - 1 ELSE begin + i - 1 - (span + 1)

ItemsOK ==
    /\ count \in 0..span
    /\ items \in Seq(V)
    /\ Len(items) = count
    /\ \A i \in 1..count : Slot(i) \in Slots /\ items[i] = data[Slot(i)]

LEMMA ItemsAre == TypeOK => ItemsOK
<1> SUFFICES ASSUME TypeOK PROVE ItemsOK
  OBVIOUS
<1>1. count \in 0..span
  BY DEF TypeOK, Slots, count
<1>2. ASSUME NEW i \in 1..count
      PROVE  (begin + i - 1) % (span + 1) = Slot(i) /\ Slot(i) \in Slots
  <2>1. CASE begin + i - 1 <= span
    BY <1>1, <2>1 DEF Slot, TypeOK, Slots
  <2>2. CASE begin + i - 1 > span
    BY <1>1, <2>2 DEF Slot, TypeOK, Slots
  <2>3. QED
    BY <1>1, <2>1, <2>2 DEF TypeOK, Slots
<1>3. items = [i \in 1..count |-> data[Slot(i)]]
  BY <1>2 DEF items
<1>4. \A i \in 1..count : data[Slot(i)] \in V
  BY <1>2 DEF TypeOK, V
<1>5. items \in [1..count -> V]
  BY <1>3, <1>4
<1>6. items \in Seq(V) /\ Len(items) = count
  BY <1>1, <1>5
<1>7. QED
  BY <1>1, <1>2, <1>3, <1>6 DEF ItemsOK

LEMMA EmptyIs == TypeOK => (items = <<>> <=> begin = end)
<1> SUFFICES ASSUME TypeOK PROVE items = <<>> <=> begin = end
  OBVIOUS
<1>1. count = 0 <=> begin = end
  BY DEF count, TypeOK, Slots
<1>2. items = <<>> <=> Len(items) = 0
  BY ItemsAre, EmptySeq DEF ItemsOK
<1>3. QED
  BY <1>1, <1>2, ItemsAre DEF ItemsOK

\* A value pushed into a queue that is not full joins it; in a full queue the
\* oldest value is forgotten.
LEMMA PushIs == ASSUME TypeOK, push PROVE Fifo!Push
<1> DEFINE rest == IF Len(items) = span THEN Tail(items) ELSE items
<1>0. TypeOK' /\ ItemsOK /\ ItemsOK'
  <2>1. TypeOK'
    BY TypeStep DEF Next
  <2>2. (TypeOK => ItemsOK)'
    BY ItemsAre, PTL
  <2>3. QED
    BY <2>1, <2>2, ItemsAre
<1>1. PICK val \in Values :
         /\ data' = [data EXCEPT ![end] = val]
         /\ end' = Succ(end)
         /\ begin' = IF begin = Succ(end) THEN Succ(begin) ELSE begin
  BY DEF push
<1>a. Succ(end) \in Slots /\ Succ(end) = IF end = span THEN 0 ELSE end + 1
  BY SuccIs DEF TypeOK
<1>b. Succ(begin) \in Slots /\ Succ(begin) = IF begin = span THEN 0 ELSE begin + 1
  BY SuccIs DEF TypeOK
<1>2. Len(items) = span <=> begin = Succ(end)
  BY <1>0, <1>a, <1>b DEF count, TypeOK, Slots, ItemsOK
<1>3. /\ items' \in Seq(V)
      /\ Len(items') = count'
      /\ \A i \in 1..count' : items'[i] = data'[Slot(i)']
  BY <1>0 DEF ItemsOK
<1>4. CASE begin # Succ(end)
  <2>1. rest = items
    BY <1>2, <1>4
  <2>2. count' = count + 1
    BY <1>1, <1>4, <1>a, <1>b DEF count, TypeOK, Slots
  <2>3. /\ Append(rest, val) \in Seq(V)
        /\ Len(Append(rest, val)) = count + 1
        /\ \A i \in 1..count : Append(rest, val)[i] = items[i]
        /\ Append(rest, val)[count + 1] = val
    BY <2>1, <1>0 DEF V, ItemsOK
  <2>4. ASSUME NEW i \in 1..count PROVE items'[i] = items[i]
    <3>1. items'[i] = data'[Slot(i)']
      BY <1>0, <1>3, <2>2 DEF ItemsOK
    <3>2. Slot(i)' = Slot(i)
      BY <1>1, <1>4 DEF Slot
    <3>3. Slot(i) # end /\ Slot(i) \in Slots
      BY <2>4, <1>0 DEF Slot, count, TypeOK, Slots, ItemsOK
    <3>4. QED
      BY <1>1, <3>1, <3>2, <3>3, <1>0 DEF TypeOK, ItemsOK
  <2>5. ASSUME NEW n \in Nat, n = count + 1 PROVE items'[n] = val
    <3>1. items'[n] = data'[Slot(n)']
      BY <1>0, <1>3, <2>2, <2>5 DEF ItemsOK
    <3>2. Slot(n)' = end
      BY <1>1, <1>4, <1>a, <1>b, <2>5 DEF Slot, count, TypeOK, Slots
    <3>3. QED
      BY <1>1, <3>1, <3>2 DEF TypeOK
  <2>6. \A i \in 1..Len(items') : items'[i] = Append(rest, val)[i]
    BY <1>3, <2>2, <2>3, <2>4, <2>5, <1>0 DEF ItemsOK
  <2>7. items' = Append(rest, val)
    BY <1>3, <2>2, <2>3, <2>6, SeqEqual
  <2>8. QED
    BY <2>7 DEF Fifo!Push, push, Pushed
<1>5. CASE begin = Succ(end)
  <2>1. rest = Tail(items) /\ items # <<>> /\ count = span
    BY <1>2, <1>5, <1>0, EmptySeq DEF ItemsOK
  <2>2. count' = span
    BY <1>1, <1>5, <1>a, <1>b DEF count, TypeOK, Slots
  <2>3. /\ Tail(items) \in Seq(V)
        /\ Len(Tail(items)) = span - 1
        /\ \A i \in 1..(span - 1) : Tail(items)[i] = items[i + 1]
    BY <2>1, <1>0, HeadTailProperties DEF ItemsOK
  <2>4. /\ Append(rest, val) \in Seq(V)
        /\ Len(Append(rest, val)) = span
        /\ \A i \in 1..(span - 1) : Append(rest, val)[i] = items[i + 1]
        /\ Append(rest, val)[span] = val
    BY <2>1, <2>3 DEF V
  <2>5. ASSUME NEW i \in 1..(span - 1) PROVE items'[i] = items[i + 1]
    <3>1. items'[i] = data'[Slot(i)'] /\ items[i + 1] = data[Slot(i + 1)]
      BY <1>0, <1>3, <2>1, <2>2 DEF ItemsOK
    <3>2. Slot(i)' = Slot(i + 1)
      BY <1>1, <1>5, <1>a, <1>b DEF Slot, TypeOK, Slots
    <3>3. Slot(i + 1) # end /\ Slot(i + 1) \in Slots
      BY <1>5, <2>1, <1>0, <1>a, <1>b DEF Slot, TypeOK, Slots, ItemsOK
    <3>4. QED
      BY <1>1, <3>1, <3>2, <3>3 DEF TypeOK
  <2>6. items'[span] = val
    <3>1. items'[span] = data'[Slot(span)']
      BY <1>3, <2>2
    <3>2. Slot(span)' = end
      BY <1>1, <1>5, <1>a, <1>b DEF Slot, TypeOK, Slots
    <3>3. QED
      BY <1>1, <3>1, <3>2 DEF TypeOK
  <2>7. \A i \in 1..Len(items') : items'[i] = Append(rest, val)[i]
    BY <1>3, <2>2, <2>4, <2>5, <2>6
  <2>8. items' = Append(rest, val)
    BY <1>3, <2>2, <2>4, <2>7, SeqEqual
  <2>9. QED
    BY <2>8 DEF Fifo!Push, push, Pushed
<1>6. QED
  BY <1>4, <1>5

LEMMA PopIs == ASSUME TypeOK, pop_oldest PROVE Fifo!PopOldest
<1>0. TypeOK' /\ ItemsOK /\ ItemsOK'
  <2>1. TypeOK'
    BY TypeStep DEF Next
  <2>2. (TypeOK => ItemsOK)'
    BY ItemsAre, PTL
  <2>3. QED
    BY <2>1, <2>2, ItemsAre
<1>b. Succ(begin) \in Slots /\ Succ(begin) = IF begin = span THEN 0 ELSE begin + 1
  BY SuccIs DEF TypeOK
<1>1. items # <<>> /\ count # 0
  BY EmptyIs DEF pop_oldest, count, TypeOK, Slots
<1>2. /\ Tail(items) \in Seq(V)
      /\ Len(Tail(items)) = count - 1
      /\ \A i \in 1..(count - 1) : Tail(items)[i] = items[i + 1]
  BY <1>1, <1>0, HeadTailProperties DEF ItemsOK
<1>3. count' = count - 1
  BY <1>b DEF pop_oldest, count, TypeOK, Slots
<1>4. /\ items' \in Seq(V)
      /\ Len(items') = count - 1
      /\ \A i \in 1..(count - 1) : items'[i] = data'[Slot(i)']
  BY <1>0, <1>3 DEF ItemsOK
<1>5. ASSUME NEW i \in 1..(count - 1) PROVE items'[i] = items[i + 1]
  <2>1. Slot(i)' = Slot(i + 1) /\ data' = data
    BY <1>0, <1>b DEF pop_oldest, Slot, TypeOK, Slots, ItemsOK
  <2>2. i + 1 \in 1..count
    BY <1>0 DEF ItemsOK
  <2>3. QED
    BY <1>0, <1>4, <2>1, <2>2 DEF ItemsOK
<1>6. items' = Tail(items)
  BY <1>2, <1>4, <1>5, SeqEqual
<1>7. QED
  BY <1>1, <1>6 DEF Fifo!PopOldest, pop_oldest

LEMMA ResetIs == ASSUME TypeOK, reset PROVE Fifo!Reset
<1>1. TypeOK' /\ begin' = end'
  BY TypeStep DEF Next, reset
<1>2. (TypeOK => (items = <<>> <=> begin = end))'
  BY EmptyIs, PTL
<1>3. items' = <<>>
  BY <1>1, <1>2
<1>4. QED
  BY <1>3 DEF Fifo!Reset, reset

\* push, pop_oldest and reset do to the circular buffer what they do to a queue
\* that forgets its oldest value when it is full, for every span.
THEOREM FifoImplemented == Spec => ImplementsFifo
<1>1. Init => Fifo!Init
  BY TypeInit, EmptyIs DEF Init, Fifo!Init
<1>2. TypeOK /\ [Next]_vars => [Fifo!Next]_(Fifo!vars)
  <2> SUFFICES ASSUME TypeOK, [Next]_vars PROVE [Fifo!Next]_(Fifo!vars)
    OBVIOUS
  <2>1. CASE Next
    BY <2>1, PushIs, PopIs, ResetIs DEF Next, Fifo!Next
  <2>2. CASE UNCHANGED vars
    BY <2>2 DEF vars, Fifo!vars, items, count
  <2>3. QED
    BY <2>1, <2>2
<1>3. QED
  BY <1>1, <1>2, TypeCorrect, PTL DEF Spec, ImplementsFifo, Fifo!Spec

\* oldest, newest, empty and full agree with the queue, also when the buffer has
\* wrapped and values were popped.
THEOREM EndsCorrect == Spec => []EndsRight
<1>1. TypeOK => EndsRight
  <2> SUFFICES ASSUME TypeOK PROVE EndsRight
    OBVIOUS
  <2>1. empty <=> items = <<>>
    BY EmptyIs DEF empty
  <2>2. full <=> Len(items) = span
    BY ItemsAre DEF ItemsOK, full, n_meas, count, TypeOK, Slots
  <2>3. oldest = IF items = <<>> THEN failret ELSE Head(items)
    <3>1. CASE items = <<>>
      BY <3>1, EmptyIs DEF oldest
    <3>2. CASE items # <<>>
      <4>1. 1 \in 1..count /\ Slot(1) = begin /\ Head(items) = items[1]
        BY <3>2, ItemsAre, EmptyIs DEF ItemsOK, count, TypeOK, Slots, Slot
      <4>2. QED
        BY <3>2, <4>1, ItemsAre, EmptyIs DEF ItemsOK, oldest
    <3>3. QED
      BY <3>1, <3>2
  <2>4. newest = IF items = <<>> THEN failret ELSE items[Len(items)]
    <3>1. CASE items = <<>>
      BY <3>1, EmptyIs DEF newest
    <3>2. CASE items # <<>>
      <4>1. count \in 1..count
        BY <3>2, ItemsAre, EmptyIs DEF ItemsOK, count, TypeOK, Slots
      <4>2. (end + span) % (span + 1) = IF end = 0 THEN span ELSE end - 1
        <5>1. CASE end = 0
          BY <5>1
        <5>2. CASE end \in 1..span
          BY <5>2
        <5>3. QED
          BY <5>1, <5>2 DEF TypeOK, Slots
      <4>3. (end + span) % (span + 1) = Slot(count)
        BY <3>2, <4>2, EmptyIs DEF Slot, count, TypeOK, Slots
      <4>4. QED
        BY <3>2, <4>1, <4>3, ItemsAre, EmptyIs DEF ItemsOK, newest
    <3>3. QED
      BY <3>1, <3>2
  <2>5. QED
    BY <2>1, <2>2, <2>3, <2>4 DEF EndsRight
<1>2. QED
  BY <1>1, TypeCorrect, PTL

-----------------------------------------------------------------------------

\* Without pop_oldest the queue wraps only when it is full.
PushOnlyInv == history # "popped" => begin = 0 \/ begin = end + 1

LEMMA PushOnlyStep ==
    ASSUME TypeOK, PushOnlyInv, [Next]_vars
    PROVE  PushOnlyInv'
<1>a. Succ(end) \in Slots /\ Succ(end) = IF end = span THEN 0 ELSE end + 1
  BY SuccIs DEF TypeOK
<1>b. Succ(begin) \in Slots /\ Succ(begin) = IF begin = span THEN 0 ELSE begin + 1
  BY SuccIs DEF TypeOK
<1>1. CASE push
  BY <1>1, <1>a, <1>b DEF push, Pushed, PushOnlyInv, TypeOK, Slots
<1>2. CASE pop_oldest
  BY <1>2 DEF pop_oldest, PushOnlyInv
<1>3. CASE reset
  BY <1>3 DEF reset, PushOnlyInv
<1>4. CASE UNCHANGED vars
  BY <1>4 DEF vars, PushOnlyInv
<1>5. QED
  BY <1>1, <1>2, <1>3, <1>4 DEF Next

\* As long as nothing is popped, n_meas counts the values and operator[] returns
\* the i-th oldest of them, and failret past the newest.
THEOREM IndexCorrect == Spec => []IndexRight
<1>1. Init => PushOnlyInv
  BY DEF Init, PushOnlyInv
<1>2. TypeOK /\ PushOnlyInv /\ [Next]_vars => PushOnlyInv'
  BY PushOnlyStep
<1>3. TypeOK /\ PushOnlyInv => IndexRight
  <2> SUFFICES ASSUME TypeOK, PushOnlyInv, history # "popped", NEW i \in 0..(2 * span)
               PROVE  At(i) = IF i < Len(items) THEN items[i + 1] ELSE failret
    BY DEF IndexRight, IndexedLikeItems
  <2>1. n_meas = count /\ count \in 0..span /\ Len(items) = count
    BY ItemsAre DEF n_meas, count, PushOnlyInv, TypeOK, Slots, ItemsOK
  <2>2. CASE i >= count
    BY <2>1, <2>2 DEF At
  <2>3. CASE i < count
    <3>1. items[i + 1] = data[Slot(i + 1)]
      BY <2>1, <2>3, ItemsAre DEF ItemsOK
    <3>2. (i + begin) % (span + 1) = Slot(i + 1)
      <4>1. CASE i + begin <= span
        BY <2>1, <2>3, <4>1 DEF Slot, TypeOK, Slots
      <4>2. CASE i + begin > span
        BY <2>1, <2>3, <4>2 DEF Slot, TypeOK, Slots
      <4>3. QED
        BY <4>1, <4>2 DEF TypeOK, Slots
    <3>3. QED
      BY <2>1, <2>3, <3>1, <3>2 DEF At
  <2>4. QED
    BY <2>1, <2>2, <2>3
<1>4. QED
  BY <1>1, <1>2, <1>3, TypeCorrect, PTL DEF Spec

\* All queries answer about the queue the code is meant to be.
THEOREM QueriesCorrect == Spec => []QueriesRight
  BY EndsCorrect, IndexCorrect, PTL DEF QueriesRight
=============================================================================
