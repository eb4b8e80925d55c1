----------------------------- MODULE UdpReceiver -----------------------------
(***************************************************************************)
(* udp_connection's listener thread and the objects built on it: two kinds *)
(* of receivers, which count drops from the packets' numbers               *)
(* (UDPCameraReceiver, CamSyncReceiver) or pass feedback on                *)
(* (ActInterfaceReceiver, eTrigReceiver).  The user's thread makes one,    *)
(* sets its callback or not, and deletes it.                               *)
(***************************************************************************)
EXTENDS Integers, SequencesExt, FiniteSets

CONSTANTS
    Window,     \* packets after which the counters start again
    Junk,       \* what an int may be before it is set
    MaxSeq,     \* bound: numbers of packets, in the order they are sent
    MaxTaken    \* bound: packets that arrive

ASSUME WindowAssumption == Window \in Nat \ {0}
ASSUME JunkAssumption == Junk \subseteq Int
ASSUME BoundsAssumption == MaxSeq \in Nat /\ MaxTaken \in Nat

VARIABLES
    kind,                   \* of the receiver: "counter" or "feedback"
    upc,                    \* user's thread
    running, thread, pkt,   \* listener thread, and the packet it has
    conCbk,                 \* udp_connection::cbk: empty, half assigned, set
    userCbk, userArg,       \* the receiver's cbk, cbk_arg
    sequenceNumber, packetCount, dropCount,
    taken,                  \* packets that arrived
    base, got, early        \* history: sequenceNumber when the counters
                            \* started, packets counted since, see Overlap

userVars == <<upc, userCbk, userArg>>
threadVars == <<thread, pkt, taken>>
countVars == <<sequenceNumber, packetCount, dropCount, base, got>>
vars == <<kind, userVars, running, threadVars, conCbk, countVars, early>>

-----------------------------------------------------------------------------
(* The user's thread. *)

CreateListener ==
    /\ upc = "new"
    /\ running' = TRUE
    /\ thread' = "loop"
    /\ upc' = "function"
    /\ UNCHANGED <<kind, pkt, taken, userCbk, userArg, conCbk, countVars>>

\* set_callback: a delegate is two words, the function first.
SetFunction ==
    /\ upc = "function"
    /\ conCbk' = "half"
    /\ upc' = "this"
    /\ UNCHANGED <<kind, running, threadVars, userCbk, userArg, countVars>>

SetThis ==
    /\ upc = "this"
    /\ conCbk' = "set"
    /\ upc' = IF kind = "counter" THEN "counters" ELSE "built"
    /\ UNCHANGED <<kind, running, threadVars, userCbk, userArg, countVars>>

InitCounters ==
    /\ upc = "counters"
    /\ sequenceNumber' = 0 /\ packetCount' = 0 /\ dropCount' = 0
    /\ base' = 0 /\ got' = <<>>
    /\ upc' = "built"
    /\ UNCHANGED <<kind, running, threadVars, userCbk, userArg, conCbk>>

\* SetCallback, SetFeedbackCallback: the delegate's two words and the argument.
SetUserFunction ==
    /\ upc = "built"
    /\ userCbk' = "half"
    /\ upc' = "userThis"
    /\ UNCHANGED <<kind, running, threadVars, userArg, conCbk, countVars>>

SetUserThis ==
    /\ upc = "userThis"
    /\ userCbk' = "set"
    /\ upc' = "userArg"
    /\ UNCHANGED <<kind, running, threadVars, userArg, conCbk, countVars>>

SetUserArg ==
    /\ upc = "userArg"
    /\ userArg' = TRUE
    /\ upc' = "ready"
    /\ UNCHANGED <<kind, running, threadVars, userCbk, conCbk, countVars>>

\* delete conn.
Delete ==
    /\ upc \in {"built", "ready"}
    /\ running' = FALSE
    /\ upc' = "join"
    /\ UNCHANGED <<kind, threadVars, userCbk, userArg, conCbk, countVars>>

\* The thread ends within 200 ms or is terminated, wherever it is; the counters
\* stay as they are, nothing uses them any more.
Join ==
    /\ upc = "join"
    /\ thread' = IF thread = "ended" THEN "ended" ELSE "terminated"
    /\ upc' = "gone"
    /\ UNCHANGED <<kind, running, pkt, taken, userCbk, userArg, conCbk, countVars>>

User ==
    \/ CreateListener \/ SetFunction \/ SetThis \/ InitCounters
    \/ SetUserFunction \/ SetUserThis \/ SetUserArg \/ Delete \/ Join

-----------------------------------------------------------------------------
(* The listener thread. *)

Loop ==
    /\ thread = "loop"
    /\ thread' = IF running THEN "recv" ELSE "ended"
    /\ UNCHANGED <<kind, userVars, running, pkt, taken, conCbk, countVars>>

\* WSARecvMsg: any packet may be lost, come again, come late.
Receive ==
    /\ thread = "recv" /\ taken < MaxTaken
    /\ taken' = taken + 1
    /\ \E n \in 1..MaxSeq : pkt' = n
    /\ thread' = "test"
    /\ UNCHANGED <<kind, userVars, running, conCbk, countVars>>

ReceiveFails ==
    /\ thread = "recv"
    /\ thread' = "loop"
    /\ UNCHANGED <<kind, userVars, running, pkt, taken, conCbk, countVars>>

\* cbk.empty(), which looks at the function only.
TestCallback ==
    /\ thread = "test"
    /\ thread' = IF conCbk = "empty" THEN "loop" ELSE "call"
    /\ UNCHANGED <<kind, userVars, running, pkt, taken, conCbk, countVars>>

\* A member function, perhaps without an object; feedback that is too short is
\* left out.
CallCallback ==
    /\ thread = "call"
    /\ thread' \in IF conCbk = "half" THEN {"crashed"}
                   ELSE IF kind = "counter" THEN {"count"} ELSE {"raise", "loop"}
    /\ UNCHANGED <<kind, userVars, running, pkt, taken, conCbk, countVars>>

\* Mutant of CountPacket: the number is stored before the difference is taken.
CountPacket_StoresFirst ==
    /\ thread = "count"
    /\ sequenceNumber' = pkt
    /\ dropCount' = dropCount + pkt - (sequenceNumber' + 1)
    /\ packetCount' = packetCount + 1
    /\ got' = Append(got, pkt)
    /\ thread' = "raise"
    /\ UNCHANGED <<kind, userVars, running, pkt, taken, conCbk, base>>

CountPacket ==
    /\ thread = "count"
    /\ dropCount' = dropCount + pkt - (sequenceNumber + 1)
    /\ sequenceNumber' = pkt
    /\ packetCount' = packetCount + 1
    /\ got' = Append(got, pkt)
    /\ thread' = "raise"
    /\ UNCHANGED <<kind, userVars, running, pkt, taken, conCbk, base>>

\* Mutant of RaiseEvent: the callback is not tested.
RaiseEvent_Untested ==
    /\ thread = "raise"
    /\ thread' = IF userCbk = "set" /\ userArg THEN "after" ELSE "crashed"
    /\ UNCHANGED <<kind, userVars, running, pkt, taken, conCbk, countVars>>

\* The user's callback; receivers of feedback do not test whether it is set.  It
\* may use the argument that is not set yet.
RaiseEvent ==
    /\ thread = "raise"
    /\ thread' \in
        IF userCbk = "set" THEN {"after"} \cup (IF userArg THEN {} ELSE {"crashed"})
        ELSE IF userCbk = "empty" /\ kind = "counter" THEN {"after"}
        ELSE {"crashed"}
    /\ UNCHANGED <<kind, userVars, running, pkt, taken, conCbk, countVars>>

\* Mutant of FinishPacket: the counters never start again.
FinishPacket_NoReset ==
    /\ thread = "after"
    /\ packetCount' = IF kind = "counter" THEN packetCount ELSE packetCount + 1
    /\ thread' = "loop"
    /\ UNCHANGED <<kind, userVars, running, pkt, taken, conCbk, sequenceNumber,
                   dropCount, base, got>>

\* The rest of UDPCallback: counters that start again, or packetNum.
FinishPacket ==
    /\ thread = "after"
    /\ IF kind = "counter" /\ packetCount % Window = 0
       THEN /\ packetCount' = 0 /\ dropCount' = 0
            /\ base' = sequenceNumber /\ got' = <<>>
       ELSE /\ packetCount' = IF kind = "counter" THEN packetCount
                              ELSE packetCount + 1
            /\ UNCHANGED <<dropCount, base, got>>
    /\ thread' = "loop"
    /\ UNCHANGED <<kind, userVars, running, pkt, taken, conCbk, sequenceNumber>>

Listener ==
    \/ Loop \/ Receive \/ ReceiveFails \/ TestCallback \/ CallCallback
    \/ CountPacket \/ RaiseEvent \/ FinishPacket

-----------------------------------------------------------------------------
Handling == {"test", "call", "count", "raise", "after"}

\* The listener has a packet while the receiver is not ready for it: it is under
\* construction, its callback is being set, or it needs one and has none.
Overlap ==
    /\ thread \in Handling \cup {"crashed"}
    /\ \/ upc \notin {"built", "ready", "join", "gone"}
       \/ kind = "feedback" /\ userCbk = "empty"

Init ==
    /\ kind \in {"counter", "feedback"}
    /\ upc = "new" /\ running = FALSE /\ thread = "none" /\ pkt = 0
    /\ conCbk = "empty" /\ userCbk = "empty" /\ userArg = FALSE
    /\ sequenceNumber \in Junk /\ dropCount \in Junk
    /\ IF kind = "counter" THEN packetCount \in Junk ELSE packetCount = 0
    /\ taken = 0 /\ base = 0 /\ got = <<>> /\ early = FALSE

Next ==
    /\ thread # "crashed"
    /\ User \/ Listener
    /\ early' = (early \/ Overlap')

Spec == Init /\ [][Next]_vars

-----------------------------------------------------------------------------
(* Properties. *)

Counting == kind = "counter" /\ upc \in {"built", "userThis", "userArg", "ready",
                                         "join"}

\* Type invariant.  The counters start again before they exceed the window.
TypeOK ==
    /\ kind \in {"counter", "feedback"}
    /\ upc \in {"new", "function", "this", "counters", "built", "userThis",
                "userArg", "ready", "join", "gone"}
    /\ thread \in {"none", "loop", "recv", "ended", "terminated", "crashed"}
                  \cup Handling
    /\ running \in BOOLEAN /\ userArg \in BOOLEAN /\ early \in BOOLEAN
    /\ conCbk \in {"empty", "half", "set"} /\ userCbk \in {"empty", "half", "set"}
    /\ pkt \in 0..MaxSeq /\ taken \in 0..MaxTaken
    /\ sequenceNumber \in Int /\ packetCount \in Int /\ dropCount \in Int
    /\ base \in Int /\ got \in Seq(1..MaxSeq)
    /\ Counting /\ ~early => packetCount \in 0..Window

\* Numbers sent since the counters started that were not received since, and
\* receptions of others and of one number twice.
Missing == ((base + 1)..sequenceNumber) \ ToSet(got)
Extra == Len(got) - Cardinality(ToSet(got) \cap ((base + 1)..sequenceNumber))

\* Whatever the network does to the order, when the newest packet is the last
\* one counted the drops are the missing packets, less one for each that came
\* twice or too late.  A receiver starts from 0: what was sent before it was
\* there counts as missing.
DropsAreMissing ==
    Counting /\ ~early /\ base <= sequenceNumber
             /\ (\A k \in DOMAIN got : got[k] <= sequenceNumber)
        => dropCount = Cardinality(Missing) - Extra

\* No packet makes the listener call what is not there, unless it came while the
\* receiver or its callback was being set up.
CrashesOnlyEarly == thread = "crashed" => early
=============================================================================
