------------------------- MODULE UdpReceiverProofs -------------------------
(***************************************************************************)
(* The receivers of packets, for every number of packets, every order in   *)
(* which the network brings them and every window of the counters.         *)
(***************************************************************************)
EXTENDS UdpReceiver, FiniteSetTheorems, TLAPS

USE WindowAssumption, JunkAssumption, BoundsAssumption

\* The part of the type invariant that depends on no history.
Types ==
    /\ kind \in {"counter", "feedback"}
    /\ upc \in {"new", "function", "this", "counters", "built", "userThis",
                "userArg", "ready", "join", "gone"}
    /\ thread \in {"none", "loop", "recv", "ended", "terminated", "crashed"}
                  \cup Handling
    /\ running \in BOOLEAN /\ userArg \in BOOLEAN /\ early \in BOOLEAN
    /\ conCbk \in {"empty", "half", "set"} /\ userCbk \in {"empty", "half", "set"}
    /\ pkt \in 0..MaxSeq /\ taken \in 0..MaxTaken
    /\ sequenceNumber \in Int /\ packetCount \in Int /\ dropCount \in Int
    /\ base \in Int /\ got \in Seq(1..MaxSeq)

\* A callback is half set exactly while the user's thread sets it; a packet that
\* is handled was received.
Phases ==
    /\ conCbk = "half" => upc = "this"
    /\ userCbk = "half" => upc = "userThis"
    /\ userCbk = "set" /\ ~userArg => upc = "userArg"
    /\ thread = "none" <=> upc = "new"
    /\ thread \in {"call", "count", "raise", "after"} => conCbk # "empty"
    /\ thread = "count" => kind = "counter"
    /\ thread \in Handling => pkt \in 1..MaxSeq

\* What was counted since the counters started; dropCount tells how far
\* sequenceNumber is ahead of the packets that came.
Counts ==
    Counting /\ ~early =>
        /\ dropCount = sequenceNumber - base - Len(got)
        /\ packetCount \in 0..Window
        /\ thread \in {"loop", "recv", "test", "call", "count"} =>
                packetCount < Window
        /\ thread \in {"raise", "after"} => packetCount > 0

Inv ==
    /\ Types
    /\ Phases
    /\ Overlap => early
    /\ Counts
    /\ CrashesOnlyEarly

-----------------------------------------------------------------------------
\* The counters start again at the window, and not before.
LEMMA WindowEnds ==
    ASSUME NEW n \in 1..Window, n % Window # 0
    PROVE  n < Window
<1>1. Window % Window = 0
  OBVIOUS
<1>2. QED
  BY <1>1

LEMMA TypesStep == Types /\ Phases /\ Next => Types'
<1> SUFFICES ASSUME Types, Phases, Next PROVE Types'
  OBVIOUS
<1> USE DEF Types, Handling
<1>1. early' \in BOOLEAN
  BY Zenon DEF Next
<1>2. CASE CreateListener
  BY <1>1, <1>2 DEF CreateListener, countVars
<1>3. CASE SetFunction
  BY <1>1, <1>3 DEF SetFunction, countVars, threadVars
<1>4. CASE SetThis
  BY <1>1, <1>4 DEF SetThis, countVars, threadVars
<1>5. CASE InitCounters
  BY <1>1, <1>5 DEF InitCounters, threadVars
<1>6. CASE SetUserFunction
  BY <1>1, <1>6 DEF SetUserFunction, countVars, threadVars
<1>7. CASE SetUserThis
  BY <1>1, <1>7 DEF SetUserThis, countVars, threadVars
<1>8. CASE SetUserArg
  BY <1>1, <1>8 DEF SetUserArg, countVars, threadVars
<1>9. CASE Delete
  BY <1>1, <1>9 DEF Delete, countVars, threadVars
<1>10. CASE Join
  BY <1>1, <1>10 DEF Join, countVars
<1>11. CASE Loop
  BY <1>1, <1>11 DEF Loop, countVars, userVars
<1>12. CASE Receive
  BY <1>1, <1>12 DEF Receive, countVars, userVars
<1>13. CASE ReceiveFails
  BY <1>1, <1>13 DEF ReceiveFails, countVars, userVars
<1>14. CASE TestCallback
  BY <1>1, <1>14 DEF TestCallback, countVars, userVars
<1>15. CASE CallCallback
  BY <1>1, <1>15 DEF CallCallback, countVars, userVars
<1>16. CASE CountPacket
  BY <1>1, <1>16 DEF CountPacket, userVars, Phases
<1>17. CASE RaiseEvent
  BY <1>1, <1>17 DEF RaiseEvent, countVars, userVars
<1>18. CASE FinishPacket
  <2>1. /\ UNCHANGED <<kind, upc, userCbk, userArg, running, pkt, taken, conCbk,
                        sequenceNumber>>
        /\ thread' = "loop"
    BY <1>18, Zenon DEF FinishPacket, userVars
  <2>2. /\ packetCount' \in Int /\ dropCount' \in Int /\ base' \in Int
        /\ got' \in Seq(1..MaxSeq)
    <3>1. CASE kind = "counter" /\ packetCount % Window = 0
      <4>1. packetCount' = 0 /\ dropCount' = 0 /\ base' = sequenceNumber /\ got' = <<>>
        BY <1>18, <3>1, Zenon DEF FinishPacket
      <4>2. QED
        BY <4>1
    <3>2. CASE ~(kind = "counter" /\ packetCount % Window = 0)
      <4>1. /\ packetCount' \in {packetCount, packetCount + 1}
            /\ UNCHANGED <<dropCount, base, got>>
        BY <1>18, <3>2, Zenon DEF FinishPacket
      <4>2. QED
        BY <4>1
    <3>3. QED
      BY <3>1, <3>2
  <2>3. QED
    BY <1>1, <2>1, <2>2
<1>19. QED
  BY <1>2, <1>3, <1>4, <1>5, <1>6, <1>7, <1>8, <1>9, <1>10, <1>11, <1>12, <1>13,
     <1>14, <1>15, <1>16, <1>17, <1>18 DEF Next, User, Listener

LEMMA PhasesStep == Types /\ Phases /\ Next => Phases'
<1> SUFFICES ASSUME Types, Phases, Next PROVE Phases'
  OBVIOUS
<1> USE DEF Phases, Handling
<1>1. CASE CreateListener
  BY <1>1 DEF CreateListener, countVars
<1>2. CASE SetFunction
  BY <1>2 DEF SetFunction, countVars, threadVars
<1>3. CASE SetThis
  BY <1>3 DEF SetThis, countVars, threadVars
<1>4. CASE InitCounters
  BY <1>4 DEF InitCounters, threadVars
<1>5. CASE SetUserFunction
  BY <1>5 DEF SetUserFunction, countVars, threadVars
<1>6. CASE SetUserThis
  BY <1>6 DEF SetUserThis, countVars, threadVars
<1>7. CASE SetUserArg
  BY <1>7 DEF SetUserArg, countVars, threadVars
<1>8. CASE Delete
  BY <1>8 DEF Delete, countVars, threadVars
<1>9. CASE Join
  BY <1>9 DEF Join, countVars
<1>10. CASE Loop
  BY <1>10 DEF Loop, countVars, userVars
<1>11. CASE Receive
  BY <1>11 DEF Receive, countVars, userVars
<1>12. CASE ReceiveFails
  BY <1>12 DEF ReceiveFails, countVars, userVars
<1>13. CASE TestCallback
  BY <1>13 DEF TestCallback, countVars, userVars, Types
<1>14. CASE CallCallback
  BY <1>14 DEF CallCallback, countVars, userVars, Types
<1>15. CASE CountPacket
  BY <1>15 DEF CountPacket, userVars
<1>16. CASE RaiseEvent
  BY <1>16 DEF RaiseEvent, countVars, userVars
<1>17. CASE FinishPacket
  BY <1>17, Zenon DEF FinishPacket, userVars
<1>18. QED
  BY <1>1, <1>2, <1>3, <1>4, <1>5, <1>6, <1>7, <1>8, <1>9, <1>10, <1>11, <1>12,
     <1>13, <1>14, <1>15, <1>16, <1>17 DEF Next, User, Listener

\* What early remembers: a handled packet met a receiver that was not ready.
LEMMA EarlyStep ==
    Next => /\ early => early'
            /\ Overlap' => early'
            /\ ~early' => ~early /\ ~Overlap'
  BY Zenon DEF Next

LEMMA CountsStep == Types /\ Phases /\ (Overlap => early) /\ Counts /\ Next => Counts'
<1> SUFFICES ASSUME Types, Phases, Overlap => early, Counts, Next, Counting', ~early'
             PROVE  /\ dropCount' = sequenceNumber' - base' - Len(got')
                    /\ packetCount' \in 0..Window
                    /\ thread' \in {"loop", "recv", "test", "call", "count"} =>
                            packetCount' < Window
                    /\ thread' \in {"raise", "after"} => packetCount' > 0
  BY Zenon DEF Counts
<1>1. ~early /\ ~Overlap /\ ~Overlap'
  BY EarlyStep, Zenon
<1>2. CASE InitCounters
  <2>1. thread \notin Handling /\ UNCHANGED thread
    BY <1>1, <1>2 DEF Overlap, InitCounters, threadVars
  <2>2. dropCount' = 0 /\ sequenceNumber' = 0 /\ base' = 0 /\ packetCount' = 0
        /\ Len(got') = 0
    BY <1>2 DEF InitCounters
  <2>3. QED
    BY <2>1, <2>2 DEF Handling
<1>3. CASE ~InitCounters
  <2>1. Counting /\ kind = "counter" /\ thread # "none"
    <3>1. CASE User
      <4>1. CASE CreateListener
        BY <4>1 DEF Counting, CreateListener
      <4>2. CASE SetFunction
        BY <4>2 DEF Counting, SetFunction
      <4>3. CASE SetThis
        BY <4>3 DEF Counting, SetThis
      <4>4. CASE SetUserFunction
        BY <4>4 DEF Counting, SetUserFunction, Phases
      <4>5. CASE SetUserThis
        BY <4>5 DEF Counting, SetUserThis, Phases
      <4>6. CASE SetUserArg
        BY <4>6 DEF Counting, SetUserArg, Phases
      <4>7. CASE Delete
        BY <4>7 DEF Counting, Delete, Phases
      <4>8. CASE Join
        BY <4>8 DEF Counting, Join, Phases
      <4>9. QED
        BY <1>3, <3>1, <4>1, <4>2, <4>3, <4>4, <4>5, <4>6, <4>7, <4>8 DEF User
    <3>2. CASE Listener
      <4>1. UNCHANGED <<kind, upc>>
        BY <3>2, Zenon
        DEF Listener, Loop, Receive, ReceiveFails, TestCallback, CallCallback,
            CountPacket, RaiseEvent, FinishPacket, userVars
      <4>2. QED
        BY <4>1 DEF Counting, Phases
    <3>3. QED
      BY <3>1, <3>2 DEF Next
  <2>2. /\ dropCount = sequenceNumber - base - Len(got)
        /\ packetCount \in 0..Window
        /\ thread \in {"loop", "recv", "test", "call", "count"} =>
                packetCount < Window
        /\ thread \in {"raise", "after"} => packetCount > 0
    BY <1>1, <2>1, Zenon DEF Counts
  <2>3. CASE CountPacket
    <3>1. /\ thread = "count" /\ thread' = "raise" /\ UNCHANGED base
          /\ dropCount' = dropCount + pkt - (sequenceNumber + 1)
          /\ sequenceNumber' = pkt
          /\ packetCount' = packetCount + 1
          /\ got' = Append(got, pkt)
      BY <2>3, Zenon DEF CountPacket
    <3>2. Len(got') = Len(got) + 1 /\ Len(got) \in Nat /\ pkt \in Int
      BY <3>1 DEF Types
    <3>3. QED
      BY <2>2, <3>1, <3>2 DEF Types
  <2>4. CASE FinishPacket
    <3>1. thread = "after" /\ thread' = "loop" /\ UNCHANGED sequenceNumber
      BY <2>4, Zenon DEF FinishPacket
    <3>2. packetCount \in 1..Window
      BY <2>2, <3>1
    <3>3. CASE packetCount % Window = 0
      <4>1. /\ packetCount' = 0 /\ dropCount' = 0
            /\ base' = sequenceNumber /\ Len(got') = 0
        BY <2>1, <2>4, <3>3 DEF FinishPacket
      <4>2. QED
        BY <3>1, <4>1 DEF Types
    <3>4. CASE packetCount % Window # 0
      <4>1. UNCHANGED <<packetCount, dropCount, base, got>>
        BY <2>1, <2>4, <3>4, Zenon DEF FinishPacket
      <4>2. packetCount < Window
        BY <3>2, <3>4, WindowEnds
      <4>3. QED
        BY <2>2, <3>1, <4>1, <4>2
    <3>5. QED
      BY <3>3, <3>4
  <2>5. CASE ~CountPacket /\ ~FinishPacket
    <3>1. UNCHANGED countVars
      BY <1>3, <2>1, <2>5, Zenon
      DEF Next, User, Listener, CreateListener, SetFunction, SetThis,
          SetUserFunction, SetUserThis, SetUserArg, Delete, Join, Loop, Receive,
          ReceiveFails, TestCallback, CallCallback, RaiseEvent
    <3>2. /\ thread' \in {"loop", "recv", "test", "call", "count"} =>
                thread \in {"loop", "recv", "test", "call", "count"}
          /\ thread' \in {"raise", "after"} => thread \in {"raise", "after"}
      <4>1. CASE User
        BY <1>3, <2>1, <4>1
        DEF User, CreateListener, SetFunction, SetThis, SetUserFunction,
            SetUserThis, SetUserArg, Delete, Join, threadVars, Phases
      <4>2. CASE Listener
        BY <2>1, <2>5, <4>2
        DEF Listener, Loop, Receive, ReceiveFails, TestCallback, CallCallback,
            RaiseEvent
      <4>3. QED
        BY <4>1, <4>2 DEF Next
    <3>3. QED
      BY <2>2, <3>1, <3>2 DEF countVars
  <2>6. QED
    BY <2>3, <2>4, <2>5
<1>4. QED
  BY <1>2, <1>3

\* A crash comes of a callback that is not there or half there: the receiver was
\* not ready when its packet came.
LEMMA CrashStep ==
    Types /\ Phases /\ (Overlap => early) /\ CrashesOnlyEarly /\ Next
        => CrashesOnlyEarly'
<1> SUFFICES ASSUME Types, Phases, Overlap => early, Next, thread' = "crashed"
             PROVE  early'
  BY Zenon DEF CrashesOnlyEarly
<1>1. CallCallback \/ RaiseEvent
  BY DEF Next, User, Listener, CreateListener, SetFunction, SetThis, InitCounters,
         SetUserFunction, SetUserThis, SetUserArg, Delete, Join, Loop, Receive,
         ReceiveFails, TestCallback, CountPacket, FinishPacket, threadVars
<1>2. CASE CallCallback
  BY <1>2, EarlyStep DEF CallCallback, Phases, Overlap, Handling
<1>3. CASE RaiseEvent
  BY <1>3, EarlyStep DEF RaiseEvent, Phases, Overlap, Handling, Types
<1>4. QED
  BY <1>1, <1>2, <1>3

-----------------------------------------------------------------------------
LEMMA InvInit == Init => Inv
<1> SUFFICES ASSUME Init PROVE Inv
  OBVIOUS
<1>1. Types
  <2>1. running \in BOOLEAN /\ userArg \in BOOLEAN /\ early \in BOOLEAN
    BY Zenon DEF Init
  <2>2. sequenceNumber \in Int /\ packetCount \in Int /\ dropCount \in Int
    <3>1. sequenceNumber \in Junk /\ dropCount \in Junk
          /\ (packetCount \in Junk \/ packetCount = 0)
      BY Zenon DEF Init
    <3>2. \A n \in Junk : n \in Int
      BY Zenon
    <3>3. packetCount \in Int
      <4>1. 0 \in Int
        OBVIOUS
      <4>2. QED
        BY <3>1, <3>2, <4>1, Zenon
    <3>4. QED
      BY <3>1, <3>2, <3>3, Zenon
  <2>3. /\ kind \in {"counter", "feedback"} /\ upc = "new" /\ thread = "none"
        /\ pkt = 0 /\ conCbk = "empty" /\ userCbk = "empty"
        /\ taken = 0 /\ base = 0 /\ got = <<>>
    BY Zenon DEF Init
  <2>4. QED
    BY <2>1, <2>2, <2>3 DEF Types, Handling
<1>2. Phases /\ ~Overlap
  BY DEF Init, Phases, Overlap, Handling
<1>3. Counts
  BY DEF Init, Counts, Counting
<1>4. CrashesOnlyEarly
  BY DEF Init, CrashesOnlyEarly
<1>5. QED
  BY <1>1, <1>2, <1>3, <1>4, Zenon DEF Inv

LEMMA InvStep == Inv /\ [Next]_vars => Inv'
<1> SUFFICES ASSUME Inv, [Next]_vars PROVE Inv'
  OBVIOUS
<1>1. CASE Next
  BY <1>1, TypesStep, PhasesStep, EarlyStep, CountsStep, CrashStep, Zenon
  DEF Inv
<1>2. CASE UNCHANGED vars
  <2>1. Types' /\ Phases'
    <3>1. /\ UNCHANGED <<kind, upc, running, thread, pkt, conCbk, userCbk, userArg>>
          /\ UNCHANGED <<sequenceNumber, packetCount, dropCount, taken, base, got,
                         early>>
      BY <1>2, Zenon DEF vars, userVars, threadVars, countVars
    <3>2. QED
      BY <3>1 DEF Inv, Types, Phases, Handling
  <2>2. (Overlap => early)' /\ Counts'
    <3>1. UNCHANGED <<kind, upc, thread, userCbk, early, sequenceNumber,
                      packetCount, dropCount, base, got>>
      BY <1>2, Zenon DEF vars, userVars, threadVars, countVars
    <3>2. (Overlap' <=> Overlap) /\ (Counting' <=> Counting)
      BY <3>1, Zenon DEF Overlap, Counting
    <3>3. QED
      BY <3>1, <3>2, Zenon DEF Inv, Counts
  <2>3. CrashesOnlyEarly'
    BY <1>2, Zenon DEF Inv, CrashesOnlyEarly, vars, threadVars
  <2>4. QED
    BY <2>1, <2>2, <2>3, Zenon DEF Inv
<1>3. QED
  BY <1>1, <1>2

THEOREM InvCorrect == Spec => []Inv
  BY InvInit, InvStep, PTL DEF Spec

\* Every variable keeps its type, and the counters start again before they
\* exceed the window (UDPCameraReceiver, CamSyncReceiver), for every window.
THEOREM TypeCorrect == Spec => []TypeOK
<1>1. Inv => TypeOK
  <2> SUFFICES ASSUME Inv PROVE TypeOK
    OBVIOUS
  <2>1. Counting /\ ~early => packetCount \in 0..Window
    BY Zenon DEF Inv, Counts
  <2>2. QED
    BY <2>1, Zenon DEF Inv, Types, TypeOK
<1>2. QED
  BY <1>1, InvCorrect, PTL

\* Packets crash a receiver only while it or its callback is being set up
\* (set_callback, SetFeedbackCallback), for any number of them.
THEOREM CrashesCorrect == Spec => []CrashesOnlyEarly
<1>1. Inv => CrashesOnlyEarly
  BY Zenon DEF Inv
<1>2. QED
  BY <1>1, InvCorrect, PTL

\* The drop counter counts the packets that are missing, less those that came
\* twice or late (UDPCameraReceiver::UDPCallback), for every window and any
\* loss, repetition and order of the packets.
THEOREM DropsCorrect == Spec => []DropsAreMissing
<1>1. Inv => DropsAreMissing
  <2> SUFFICES ASSUME Inv, Counting, ~early, base <= sequenceNumber
               PROVE  dropCount = Cardinality(Missing) - Extra
    BY Zenon DEF DropsAreMissing
  <2> DEFINE sentNow == (base + 1)..sequenceNumber
  <2>1. base \in Int /\ sequenceNumber \in Int /\ Len(got) \in Nat
        /\ dropCount = sequenceNumber - base - Len(got)
    BY DEF Inv, Types, Counts
  <2>2. IsFiniteSet(sentNow) /\ Cardinality(sentNow) = sequenceNumber - base
    <3>1. base + 1 \in Int
      BY <2>1
    <3>2. /\ IsFiniteSet(sentNow)
          /\ Cardinality(sentNow) = IF base + 1 > sequenceNumber THEN 0
                                    ELSE sequenceNumber - (base + 1) + 1
      BY <2>1, <3>1, FS_Interval
    <3>3. QED
      BY <2>1, <3>2
  <2>3. /\ Missing = sentNow \ ToSet(got)
        /\ sentNow \cap ToSet(got) = ToSet(got) \cap sentNow
        /\ Extra = Len(got) - Cardinality(ToSet(got) \cap sentNow)
    BY Zenon DEF Missing, Extra
  <2> HIDE DEF sentNow
  <2>4. Cardinality(Missing) = Cardinality(sentNow) - Cardinality(ToSet(got) \cap sentNow)
    BY <2>2, <2>3, FS_Difference
  <2>5. Cardinality(ToSet(got) \cap sentNow) \in Nat
    <3>1. IsFiniteSet(ToSet(got) \cap sentNow)
      <4>1. ToSet(got) \cap sentNow \subseteq sentNow
        OBVIOUS
      <4>2. QED
        BY <2>2, <4>1, FS_Subset, Zenon
    <3>2. QED
      BY <3>1, FS_CardinalityType
  <2>6. QED
    BY <2>1, <2>2, <2>3, <2>4, <2>5
<1>2. QED
  BY <1>1, InvCorrect, PTL
=============================================================================
