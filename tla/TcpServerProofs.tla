--------------------------- MODULE TcpServerProofs ---------------------------
(***************************************************************************)
(* Who handles a slot, what becomes of the data and how the threads end,   *)
(* for every number of threads, slots, sockets, connections and data.      *)
(***************************************************************************)
EXTENDS TcpServer, SequenceTheorems, FiniteSetTheorems, TLAPS

USE SlotsAssumption, BoundsAssumption, ThreadsAssumption

AccDone(k) == port[k].key = "acc" /\ port[k].ok

\* A slot that was ever taken has a socket, and only these are handled; the
\* socket of a slot belongs to it.
Linked ==
    /\ \A c \in Slots : slot[c] # "free" => sock[c] # None
    /\ \A c \in Slots : sock[c] # None => home[sock[c]] = c /\ conn[sock[c]] # "none"
    /\ \A s \in Socks : home[s] # None => sock[home[s]] # None
    /\ \A s \in Socks : reads[s] > 0 \/ s \in accepts => home[s] # None
    /\ accOv # None => sock[accOv] # None
    /\ accepts # {} => accOv # None
    /\ \A k \in 1..Len(port) : AccDone(k) => accOv # None
    /\ \A k \in 1..Len(port) : port[k].key = "client" =>
           port[k].slot # None /\ sock[port[k].slot] # None
    /\ \A p \in Procs : pc[p] \in Busy => cur[p] # None /\ sock[cur[p]] # None
    /\ pc[Main] = "socks" => cur[Main] # None
    /\ \A c \in user : sock[c] # None

\* What is over when the user stops listening and when it destroys the server.
Phases ==
    /\ pc[Main] \in {"socks", "join", "done"} => ~listening
    /\ ~listening => accepts = {}

CoreInv == TypeOK /\ Linked /\ Phases

Single(S) == \A x, y \in S : x = y

\* The places of the port that hold completions of a kind.
At(E) == {k \in 1..Len(port) : port[k] \in E}

\* The threads that will start the next accept.
Chain(p) == pc[p] \in {"start", "post", "accept"} \/ (pc[p] \in Busy /\ back[p] = "start")
Chaining == {p \in Procs : Chain(p)}
Accepted == {e \in Completions : e.key = "acc" /\ e.ok}

\* One accept at a time: pending, completed or in the hands of a thread.
OneAccept ==
    /\ Single(accepts) /\ Single(At(Accepted)) /\ Single(Chaining)
    /\ accepts = {} \/ At(Accepted) = {}
    /\ accepts = {} \/ Chaining = {}
    /\ At(Accepted) = {} \/ Chaining = {}
    /\ pc[Main] = "init" => accepts = {} /\ At(Accepted) = {} /\ Chaining = {}

\* The slot that is waiting for a connection.
PendingInv ==
    /\ accepts # {} => accepts = {sock[accOv]}
    /\ accepts # {} \/ At(Accepted) # {} => slot[accOv] = "pending"
    /\ \A p \in Procs : pc[p] \in {"post", "accept"} => slot[cur[p]] = "pending"
    /\ \A p \in Procs : pc[p] = "post" /\ listening => conn[sock[cur[p]]] = "accepting"

ReadLabels == {"tell", "read", "deliver", "close", "crashed"}

\* Who has a connection: a thread, a completed read or a pending one.
Readers(c) == {p \in Procs : pc[p] \in ReadLabels /\ cur[p] = c}
ReadOf(c) == {e \in Completions : e.key = "client" /\ e.slot = c}
ReadsOn(c) == {s \in Socks : home[s] = c /\ reads[s] > 0}

\* A slot that has a connection has one reader, the others have none.
ConnectedInv ==
    /\ \A s \in Socks : reads[s] \in {0, 1} /\ (reads[s] > 0 => sock[home[s]] = s)
    /\ \A c \in Slots :
        /\ Single(Readers(c)) /\ Single(At(ReadOf(c)))
        /\ Readers(c) = {} \/ At(ReadOf(c)) = {}
        /\ Readers(c) = {} \/ ReadsOn(c) = {}
        /\ At(ReadOf(c)) = {} \/ ReadsOn(c) = {}
        /\ slot[c] = "connected" <=>
               Readers(c) # {} \/ At(ReadOf(c)) # {} \/ ReadsOn(c) # {}

\* The slots that are being freed, and those the user knows of.
CleaningInv ==
    /\ \A p \in Procs : pc[p] = "free" => slot[cur[p]] = "cleaning"
    /\ \A p, q \in Procs : pc[p] = "free" /\ pc[q] = "free" /\ cur[p] = cur[q] => p = q
    /\ \A c \in user : slot[c] = "connected" /\ cbk[c]

Orderly == OneAccept /\ PendingInv /\ ConnectedInv /\ CleaningInv
UsualInv == Usual => Orderly

NoQuick == \A k \in DOMAIN odd : odd[k] # "quick"

\* Where a piece of data is: at a socket, in a completion, in a thread's hands.
Waiting(d) == {s \in Socks : d \in unread[s]}
With(d) == {e \in Completions : d \in e.data}
InHand(d) == {p \in Procs : pc[p] = "deliver" /\ d \in data[p]}

\* A piece of data is in one place, or the user has it.
DataInv ==
    NoQuick => \A d \in Pieces :
        /\ Single(Waiting(d)) /\ Single(At(With(d))) /\ Single(InHand(d))
        /\ Waiting(d) = {} \/ At(With(d)) = {}
        /\ Waiting(d) = {} \/ InHand(d) = {}
        /\ At(With(d)) = {} \/ InHand(d) = {}
        /\ Waiting(d) # {} \/ At(With(d)) # {} \/ InHand(d) # {} =>
               heard[d] = 0 /\ d <= sent
        /\ heard[d] \in {0, 1} /\ (heard[d] = 1 => d <= sent)

Closing(q) == {k \in DOMAIN q : q[k].key = "close"}

\* Before the destructor runs no thread is told to end.
EndInv ==
    /\ ThreadsWillEnd
    /\ pc[Main] \notin {"socks", "join", "done"} =>
           Closing(port) = {} /\ \A t \in Threads : pc[t] # "done"

-----------------------------------------------------------------------------
(* Sequences. *)

LEMMA Tailed ==
    ASSUME NEW S, NEW q \in Seq(S), q # <<>>
    PROVE  /\ Tail(q) \in Seq(S) /\ Len(Tail(q)) = Len(q) - 1
           /\ 1 \in 1..Len(q) /\ Head(q) = q[1] /\ Head(q) \in S
           /\ \A k \in 1..Len(Tail(q)) :
                 k + 1 \in 1..Len(q) /\ k + 1 # 1 /\ Tail(q)[k] = q[k + 1]
OBVIOUS

LEMMA Appended ==
    ASSUME NEW S, NEW q \in Seq(S), NEW e \in S
    PROVE  /\ Append(q, e) \in Seq(S) /\ Len(Append(q, e)) = Len(q) + 1
           /\ \A k \in 1..Len(q) : k # Len(q) + 1 /\ Append(q, e)[k] = q[k]
           /\ Append(q, e)[Len(q) + 1] = e
           /\ \A k \in 1..(Len(q) + 1) : k \in 1..Len(q) \/ k = Len(q) + 1
OBVIOUS

LEMMA Joined ==
    ASSUME NEW S, NEW q \in Seq(S), NEW r \in Seq(S)
    PROVE  /\ q \o r \in Seq(S) /\ Len(q \o r) = Len(q) + Len(r)
           /\ \A k \in 1..Len(q) : (q \o r)[k] = q[k]
           /\ \A k \in 1..Len(q \o r) : k \notin 1..Len(q) =>
                 k - Len(q) \in 1..Len(r) /\ (q \o r)[k] = r[k - Len(q)]
<1>1. /\ q \o r \in Seq(S) /\ Len(q \o r) = Len(q) + Len(r)
      /\ \A k \in 1..(Len(q) + Len(r)) :
            (q \o r)[k] = IF k <= Len(q) THEN q[k] ELSE r[k - Len(q)]
  BY ConcatProperties
<1>2. QED
  BY <1>1

LEMMA SocksFinite ==
    ASSUME NEW a \in SUBSET Socks
    PROVE  IsFiniteSet(a) /\ Cardinality(a) \in Nat
<1>1. IsFiniteSet(Socks)
  BY FS_Interval DEF Socks
<1>2. QED
  BY <1>1, FS_Subset, FS_CardinalityType

\* What closing a socket leaves in the port: the reads, then the accept.
LEMMA AbortedIs ==
    ASSUME TypeOK, NEW s \in Socks
    PROVE  /\ Aborted(s) \in Seq(Completions) /\ reads[s] <= Len(Aborted(s))
           /\ \A k \in 1..Len(Aborted(s)) :
                 LET e == Aborted(s)[k]
                 IN /\ ~e.ok /\ e.data = {}
                    /\ IF k <= reads[s] THEN e.key = "client" /\ e.slot = home[s]
                                        ELSE e.key = "acc"
<1> DEFINE f == Completion("client", home[s], FALSE, {})
           a == Completion("acc", None, FALSE, {})
           u == [k \in 1..reads[s] |-> f]
           v == IF s \in accepts THEN <<a>> ELSE <<>>
<1>1. home[s] \in Slots \cup {None} /\ reads[s] \in Nat
  BY DEF TypeOK
<1>2. /\ {} \in SUBSET Pieces /\ FALSE \in BOOLEAN /\ None \in Slots \cup {None}
      /\ "acc" \in {"acc", "client", "close"} /\ "client" \in {"acc", "client", "close"}
  OBVIOUS
<1>3. /\ f \in Completions /\ f.key = "client" /\ f.slot = home[s] /\ f.ok = FALSE
      /\ f.data = {}
  BY <1>1, <1>2 DEF Completion, Completions
<1>4. a \in Completions /\ a.key = "acc" /\ a.ok = FALSE /\ a.data = {}
  BY <1>2 DEF Completion, Completions
<1>5. Aborted(s) = u \o v
  BY DEF Aborted
<1> HIDE DEF f, a
<1>6. /\ u \in Seq(Completions) /\ Len(u) = reads[s]
      /\ \A k \in 1..Len(u) : u[k] = f
  BY <1>1, <1>3
<1>7. v \in Seq(Completions) /\ \A k \in 1..Len(v) : v[k] = a
  BY <1>4
<1> HIDE DEF u, v
<1>8. /\ u \o v \in Seq(Completions) /\ reads[s] <= Len(u \o v)
      /\ \A k \in 1..Len(u \o v) : (u \o v)[k] = IF k <= reads[s] THEN f ELSE a
  <2>1. /\ u \o v \in Seq(Completions) /\ Len(u \o v) = Len(u) + Len(v)
        /\ \A k \in 1..Len(u) : (u \o v)[k] = u[k]
        /\ \A k \in 1..Len(u \o v) : k \notin 1..Len(u) =>
              k - Len(u) \in 1..Len(v) /\ (u \o v)[k] = v[k - Len(u)]
    BY <1>6, <1>7, Joined
  <2>2. Len(v) \in Nat /\ reads[s] <= Len(u \o v)
    BY <1>1, <1>6, <1>7, <2>1
  <2>3. ASSUME NEW k \in 1..Len(u \o v)
        PROVE  (u \o v)[k] = IF k <= reads[s] THEN f ELSE a
    <3>1. CASE k \in 1..Len(u)
      <4>1. k <= reads[s]
        BY <1>6, <3>1
      <4>2. QED
        BY <1>6, <2>1, <3>1, <4>1, Zenon
    <3>2. CASE k \notin 1..Len(u)
      <4>1. ~(k <= reads[s])
        BY <1>1, <1>6, <3>2
      <4>2. QED
        BY <1>7, <2>1, <3>2, <4>1, Zenon
    <3>3. QED
      BY <3>1, <3>2
  <2>4. QED
    BY <2>1, <2>2, <2>3
<1>9. QED
  BY <1>3, <1>4, <1>5, <1>8

LEMMA AbortedAcceptsIs ==
    ASSUME TypeOK
    PROVE  /\ AbortedAccepts \in Seq(Completions)
           /\ \A k \in 1..Len(AbortedAccepts) :
                 LET e == AbortedAccepts[k]
                 IN e.key = "acc" /\ ~e.ok /\ e.data = {}
<1> DEFINE a == Completion("acc", None, FALSE, {})
           n == Cardinality(accepts)
<1>1. n \in Nat
  BY SocksFinite DEF TypeOK
<1>2. /\ {} \in SUBSET Pieces /\ FALSE \in BOOLEAN /\ None \in Slots \cup {None}
      /\ "acc" \in {"acc", "client", "close"} /\ "client" \in {"acc", "client", "close"}
  OBVIOUS
<1>3. a \in Completions /\ a.key = "acc" /\ a.ok = FALSE /\ a.data = {}
  BY <1>2 DEF Completion, Completions
<1>4. AbortedAccepts = [k \in 1..n |-> a]
  BY DEF AbortedAccepts
<1> HIDE DEF a, n
<1>5. QED
  BY <1>1, <1>3, <1>4

-----------------------------------------------------------------------------
(* What changes what. *)

LEMMA NextIs ==
    Next => \/ \E p \in Procs : Step(p)
            \/ \E t \in Threads : TakeClose(t) \/ TakeAccept(t) \/ TakeRead(t)
            \/ \E c \in Slots : Close(c)
            \/ \E s \in Socks : PeerSends(s) \/ PeerEnds(s) \/ CompleteRead(s)
            \/ BeginListen \/ EndListen \/ ClearCallback \/ Destroy \/ DestroySocket \/ Join
            \/ PeerConnects \/ CompleteAccept \/ BreakAccept
BY Zenon DEF Next, Listener, User, Destructor, Peers, Kernel, Procs

LEMMA WhoChanges ==
    ASSUME Next
    PROVE  /\ \/ UNCHANGED slot
              \/ \E p \in Procs : TakeSlot(p) \/ HandleAccept(p) \/ EndClient(p) \/ FreeEntry(p)
           /\ \/ UNCHANGED <<sock, home>>
              \/ \E p \in Procs : TakeSlot(p)
           /\ \/ UNCHANGED cbk
              \/ \E p \in Procs : TakeSlot(p) \/ SocketFails(p) \/ Tell(p)
           /\ \/ UNCHANGED user
              \/ \E p \in Procs : Tell(p) \/ EndClient(p)
              \/ \E c \in Slots : Close(c)
           /\ \/ UNCHANGED conn
              \/ \E p \in Procs : TakeSlot(p) \/ AcceptAtOnce(p) \/ EndClient(p)
              \/ \E s \in Socks : PeerEnds(s)
              \/ \E c \in Slots : Close(c)
              \/ DestroySocket
              \/ CompleteAccept
           /\ \/ UNCHANGED reads
              \/ \E p \in Procs : ReadPending(p) \/ EndClient(p)
              \/ \E s \in Socks : CompleteRead(s)
              \/ \E c \in Slots : Close(c)
              \/ DestroySocket
           /\ \/ UNCHANGED unread
              \/ \E p \in Procs : ReadAtOnce(p) \/ EndClient(p)
              \/ \E s \in Socks : PeerSends(s) \/ CompleteRead(s)
              \/ \E c \in Slots : Close(c)
              \/ DestroySocket
           /\ \/ UNCHANGED listening
              \/ BeginListen
              \/ EndListen
              \/ Destroy
           /\ \/ UNCHANGED <<asking, made>>
              \/ \E p \in Procs : AcceptAtOnce(p) \/ AcceptFails(p)
              \/ EndListen
              \/ Destroy
              \/ PeerConnects
              \/ CompleteAccept
              \/ BreakAccept
           /\ \/ UNCHANGED accepts
              \/ \E p \in Procs : AcceptPending(p) \/ EndClient(p)
              \/ \E c \in Slots : Close(c)
              \/ EndListen
              \/ Destroy
              \/ DestroySocket
              \/ CompleteAccept
              \/ BreakAccept
           /\ \/ UNCHANGED accOv
              \/ \E p \in Procs : AcceptAtOnce(p) \/ AcceptPending(p) \/ AcceptFails(p)
           /\ \/ UNCHANGED accCbk
              \/ BeginListen
              \/ ClearCallback
           /\ \/ UNCHANGED port
              \/ \E p \in Procs : AcceptAtOnce(p) \/ ReadAtOnce(p) \/ EndClient(p)
              \/ \E t \in Threads : TakeClose(t) \/ TakeAccept(t) \/ TakeRead(t)
              \/ \E s \in Socks : CompleteRead(s)
              \/ \E c \in Slots : Close(c)
              \/ EndListen
              \/ Destroy
              \/ DestroySocket
              \/ CompleteAccept
              \/ BreakAccept
           /\ \/ UNCHANGED sent
              \/ \E s \in Socks : PeerSends(s)
           /\ \/ UNCHANGED heard
              \/ \E p \in Procs : Deliver(p)
           /\ \/ UNCHANGED odd
              \/ \E p \in Procs : SocketFails(p) \/ AcceptAtOnce(p) \/ ReadAtOnce(p)
              \/ \E c \in Slots : Close(c)
<1> USE DEF slotVars, connVars, accVars, procVars, histVars
<1>1. CASE \E p \in Procs : TakeSlot(p)
  BY <1>1 DEF TakeSlot
<1>2. CASE \E p \in Procs : SocketFails(p)
  BY <1>2 DEF SocketFails
<1>3. CASE \E p \in Procs : NoFreeSlot(p)
  BY <1>3 DEF NoFreeSlot
<1>4. CASE \E p \in Procs : AcceptAtOnce(p)
  BY <1>4 DEF AcceptAtOnce
<1>5. CASE \E p \in Procs : AcceptPending(p)
  BY <1>5 DEF AcceptPending
<1>6. CASE \E p \in Procs : AcceptFails(p)
  BY <1>6 DEF AcceptFails
<1>7. CASE \E p \in Procs : HandleAccept(p)
  BY <1>7 DEF HandleAccept
<1>8. CASE \E p \in Procs : ReadPending(p)
  BY <1>8 DEF ReadPending
<1>9. CASE \E p \in Procs : ReadAtOnce(p)
  BY <1>9 DEF ReadAtOnce
<1>10. CASE \E p \in Procs : ReadFails(p)
  BY <1>10 DEF ReadFails
<1>11. CASE \E p \in Procs : Deliver(p)
  <2>1. UNCHANGED <<slotVars, connVars, accVars, accOv, accCbk, port, user, made, sent, odd>>
    BY <1>11 DEF Deliver
  <2>2. QED
    BY <1>11, <2>1
<1>12. CASE \E p \in Procs : EndClient(p)
  BY <1>12 DEF EndClient, CloseSocket
<1>13. CASE \E p \in Procs : FreeEntry(p)
  BY <1>13 DEF FreeEntry
<1>14. CASE \E t \in Threads : TakeClose(t)
  BY <1>14 DEF TakeClose, Take
<1>15. CASE \E t \in Threads : TakeAccept(t)
  BY <1>15 DEF TakeAccept, Take
<1>16. CASE \E t \in Threads : TakeRead(t)
  BY <1>16 DEF TakeRead, Take
<1>17. CASE \E c \in Slots : Close(c)
  BY <1>17 DEF Close, CloseSocket
<1>18. CASE \E s \in Socks : PeerSends(s)
  BY <1>18 DEF PeerSends
<1>19. CASE \E s \in Socks : PeerEnds(s)
  BY <1>19 DEF PeerEnds
<1>20. CASE \E s \in Socks : CompleteRead(s)
  BY <1>20 DEF CompleteRead
<1>21. CASE BeginListen
  BY <1>21 DEF BeginListen
<1>22. CASE EndListen
  BY <1>22 DEF EndListen
<1>23. CASE Destroy
  <2>1. UNCHANGED <<slotVars, connVars, accOv, accCbk, user, histVars>>
    BY <1>23 DEF Destroy
  <2>2. QED
    BY <1>23, <2>1
<1>24. CASE DestroySocket
  BY <1>24 DEF DestroySocket, CloseSocket
<1>25. CASE Join
  BY <1>25 DEF Join
<1>26. CASE PeerConnects
  BY <1>26 DEF PeerConnects
<1>27. CASE CompleteAccept
  BY <1>27 DEF CompleteAccept
<1>28. CASE \E p \in Procs : Tell(p)
  BY <1>28 DEF Tell
<1>29. CASE ClearCallback
  BY <1>29 DEF ClearCallback
<1>30. CASE BreakAccept
  BY <1>30 DEF BreakAccept
<1>31. QED
  BY <1>1, <1>2, <1>3, <1>4, <1>5, <1>6, <1>7, <1>8, <1>9, <1>10, <1>11, <1>12, <1>13,
     <1>14, <1>15, <1>16, <1>17, <1>18, <1>19, <1>20, <1>21, <1>22, <1>23, <1>24, <1>25,
     <1>26, <1>27, <1>28, <1>29, <1>30, NextIs, Zenon DEF Step

-----------------------------------------------------------------------------
(* The types, and who has a socket. *)

LEMMA TypeInit == Init => TypeOK
<1> SUFFICES ASSUME Init PROVE TypeOK
  OBVIOUS
<1> USE DEF Init, TypeOK
<1>1. cbk \in [Slots -> BOOLEAN] /\ listening \in BOOLEAN
  BY Zenon
<1>2. /\ slot \in [Slots -> {"free", "pending", "connected", "cleaning"}]
      /\ sock \in [Slots -> Socks \cup {None}]
      /\ conn \in [Socks -> {"none", "accepting", "connected", "ended", "closed"}]
      /\ home \in [Socks -> Slots \cup {None}]
      /\ reads \in [Socks -> Nat] /\ unread \in [Socks -> SUBSET Pieces]
  OBVIOUS
<1>3. /\ asking \in 0..made /\ accepts \in SUBSET Socks /\ accOv \in Slots \cup {None}
      /\ user \in SUBSET Slots
      /\ made \in 0..MaxConns /\ sent \in 0..MaxData /\ heard \in [Pieces -> Nat]
  OBVIOUS
<1>4. port \in Seq(Completions)
  OBVIOUS
<1>5. /\ pc \in [Procs -> Labels] /\ cur \in [Procs -> Slots \cup {None}]
      /\ data \in [Procs -> SUBSET Pieces]
      /\ back \in [Procs -> {"idle", "wait", "start"}]
  BY DEF Home, Labels
<1>6. odd \in Seq({"socket", "quick", "close"}) /\ Len(odd) <= MaxOdd
  OBVIOUS
<1>7. QED
  BY <1>1, <1>2, <1>3, <1>4, <1>5, <1>6

\* What the kernel is told of a socket that is closed.
LEMMA ClosedTyped ==
    ASSUME TypeOK, NEW s \in Socks, CloseSocket(s)
    PROVE  /\ conn' \in [Socks -> {"none", "accepting", "connected", "ended", "closed"}]
           /\ reads' \in [Socks -> Nat] /\ unread' \in [Socks -> SUBSET Pieces]
           /\ accepts' \in SUBSET Socks
           /\ port' \in Seq(Completions)
<1>1. port' \in Seq(Completions)
  <2>1. Aborted(s) \in Seq(Completions) /\ port \in Seq(Completions)
    BY AbortedIs DEF TypeOK
  <2>2. port' = port \o Aborted(s)
    BY DEF CloseSocket
  <2>3. QED
    BY <2>1, <2>2, Joined
<1>2. QED
  BY <1>1 DEF TypeOK, CloseSocket

\* The sockets and slots that threads and completions refer to.
LEMMA Subjects ==
    TypeOK /\ Linked =>
        /\ \A p \in Procs : pc[p] \in Busy => cur[p] \in Slots /\ sock[cur[p]] \in Socks
        /\ \A k \in 1..Len(port) : port[k].key = "client" =>
               port[k].slot \in Slots /\ sock[port[k].slot] \in Socks
        /\ \A s \in Socks : reads[s] > 0 \/ s \in accepts => home[s] \in Slots
        /\ \A c \in user : c \in Slots /\ sock[c] \in Socks
        /\ \A c \in Slots : slot[c] # "free" => sock[c] \in Socks
        /\ pc[Main] = "socks" => cur[Main] \in Slots
        /\ Main \in Procs /\ \A t \in Threads : t \in Procs /\ t # Main
<1> SUFFICES ASSUME TypeOK, Linked
             PROVE  /\ \A p \in Procs : pc[p] \in Busy => cur[p] \in Slots /\ sock[cur[p]] \in Socks
                    /\ \A k \in 1..Len(port) : port[k].key = "client" =>
                           port[k].slot \in Slots /\ sock[port[k].slot] \in Socks
                    /\ \A s \in Socks : reads[s] > 0 \/ s \in accepts => home[s] \in Slots
                    /\ \A c \in user : c \in Slots /\ sock[c] \in Socks
                    /\ \A c \in Slots : slot[c] # "free" => sock[c] \in Socks
                    /\ pc[Main] = "socks" => cur[Main] \in Slots
                    /\ Main \in Procs /\ \A t \in Threads : t \in Procs /\ t # Main
  OBVIOUS
<1>1. /\ \A p \in Procs : cur[p] \in Slots \cup {None}
      /\ \A c \in Slots : sock[c] \in Socks \cup {None}
      /\ \A s \in Socks : home[s] \in Slots \cup {None}
      /\ user \subseteq Slots
  BY DEF TypeOK
<1>2. \A k \in 1..Len(port) : port[k].slot \in Slots \cup {None}
  <2>1. \A k \in 1..Len(port) : port[k] \in Completions
    BY DEF TypeOK
  <2>2. \A e \in Completions : e.slot \in Slots \cup {None}
    BY Zenon DEF Completions
  <2>3. QED
    BY <2>1, <2>2, Zenon
<1>3. Main \in Procs /\ \A t \in Threads : t \in Procs /\ t # Main
  BY DEF Procs
<1>4. QED
  BY <1>1, <1>2, <1>3, Zenon DEF Linked

\* The sockets that the code closes.
LEMMA ClosingSocks ==
    ASSUME TypeOK, Linked
    PROVE  /\ \A p \in Procs : EndClient(p) => sock[cur[p]] \in Socks
           /\ \A c \in Slots : Close(c) => sock[c] \in Socks
           /\ DestroySocket => sock[cur[Main]] \in Socks \/ UNCHANGED <<connVars, accVars, port>>
<1>1. ASSUME NEW p \in Procs, EndClient(p) PROVE sock[cur[p]] \in Socks
  BY <1>1, Subjects DEF EndClient, Busy
<1>2. ASSUME NEW c \in Slots, Close(c) PROVE sock[c] \in Socks
  BY <1>2, Subjects DEF Close
<1>3. ASSUME DestroySocket
      PROVE  sock[cur[Main]] \in Socks \/ UNCHANGED <<connVars, accVars, port>>
  <2>1. cur[Main] \in Slots
    BY <1>3, Subjects DEF DestroySocket
  <2>2. QED
    BY <1>3, <2>1, Subjects DEF DestroySocket
<1>4. QED
  BY <1>1, <1>2, <1>3

\* A completion that is taken.
LEMMA HeadTyped ==
    ASSUME TypeOK, Linked, NEW t \in Threads, NEW key, Take(t, key)
    PROVE  /\ port \in Seq(Completions) /\ port # <<>> /\ Head(port) = port[1]
           /\ 1 \in 1..Len(port) /\ port[1] \in Completions /\ port[1].key = key
           /\ t \in Procs /\ t # Main
           /\ port[1].slot \in Slots \cup {None} /\ port[1].data \in SUBSET Pieces
           /\ port' = Tail(port) /\ port' \in Seq(Completions)
           /\ Len(port') = Len(port) - 1
           /\ \A k \in 1..Len(port') :
                 k + 1 \in 1..Len(port) /\ k + 1 # 1 /\ port'[k] = port[k + 1]
<1>1. /\ port \in Seq(Completions) /\ port # <<>> /\ Head(port).key = key
      /\ port' = Tail(port) /\ t \in Procs /\ t # Main
  BY Subjects DEF Take, TypeOK
<1>2. \A e \in Completions : e.slot \in Slots \cup {None} /\ e.data \in SUBSET Pieces
  BY Zenon DEF Completions
<1>3. /\ Tail(port) \in Seq(Completions) /\ Len(Tail(port)) = Len(port) - 1
      /\ 1 \in 1..Len(port) /\ Head(port) = port[1] /\ Head(port) \in Completions
      /\ \A k \in 1..Len(Tail(port)) :
            k + 1 \in 1..Len(port) /\ k + 1 # 1 /\ Tail(port)[k] = port[k + 1]
  BY <1>1, Tailed
<1>4. QED
  BY <1>1, <1>2, <1>3

\* Each step that posts a completion posts it behind the others.
LEMMA Posts ==
    ASSUME TypeOK, NEW e \in Completions, port' = Append(port, e)
    PROVE  /\ port' \in Seq(Completions) /\ Len(port') = Len(port) + 1
           /\ \A k \in 1..Len(port) : k # Len(port) + 1 /\ port'[k] = port[k]
           /\ port'[Len(port) + 1] = e /\ Len(port) + 1 \in 1..Len(port')
           /\ \A k \in 1..Len(port') : k \in 1..Len(port) \/ k = Len(port) + 1
BY Appended DEF TypeOK

LEMMA Closes ==
    ASSUME TypeOK, Linked, NEW s \in Socks, CloseSocket(s)
    PROVE  /\ port' \in Seq(Completions) /\ Len(port) <= Len(port')
           /\ \A k \in 1..Len(port) : port'[k] = port[k]
           /\ \A k \in 1..Len(port') : k \notin 1..Len(port) =>
                 /\ ~port'[k].ok /\ port'[k].data = {}
                 /\ \/ port'[k].key = "acc"
                    \/ /\ port'[k].key = "client" /\ port'[k].slot = home[s]
                       /\ reads[s] > 0 /\ home[s] \in Slots
<1>1. /\ Aborted(s) \in Seq(Completions)
      /\ \A k \in 1..Len(Aborted(s)) :
            /\ ~Aborted(s)[k].ok /\ Aborted(s)[k].data = {}
            /\ \/ Aborted(s)[k].key = "acc"
               \/ Aborted(s)[k].key = "client" /\ Aborted(s)[k].slot = home[s] /\ reads[s] > 0
  BY AbortedIs DEF TypeOK
<1>2. port \in Seq(Completions) /\ port' = port \o Aborted(s)
  BY DEF TypeOK, CloseSocket
<1>3. reads[s] > 0 => home[s] \in Slots
  BY Subjects
<1> DEFINE r == Aborted(s)
<1>6. \A k \in 1..Len(r) :
          /\ ~r[k].ok /\ r[k].data = {}
          /\ \/ r[k].key = "acc"
             \/ r[k].key = "client" /\ r[k].slot = home[s] /\ reads[s] > 0
  BY <1>1
<1> HIDE DEF r
<1>4. /\ port' \in Seq(Completions) /\ Len(port') = Len(port) + Len(r)
      /\ \A k \in 1..Len(port) : port'[k] = port[k]
      /\ \A k \in 1..Len(port') : k \notin 1..Len(port) =>
            k - Len(port) \in 1..Len(r) /\ port'[k] = r[k - Len(port)]
  BY <1>1, <1>2, Joined DEF r
<1>5. Len(port) <= Len(port')
  BY <1>1, <1>2, <1>4 DEF r
<1>7. ASSUME NEW k \in 1..Len(port'), k \notin 1..Len(port)
      PROVE  /\ ~port'[k].ok /\ port'[k].data = {}
             /\ \/ port'[k].key = "acc"
                \/ /\ port'[k].key = "client" /\ port'[k].slot = home[s]
                   /\ reads[s] > 0 /\ home[s] \in Slots
  <2>1. k - Len(port) \in 1..Len(r) /\ port'[k] = r[k - Len(port)]
    BY <1>4, <1>7, Zenon
  <2>2. QED
    BY <1>3, <1>6, <2>1
<1>8. QED
  BY <1>4, <1>5, <1>7, Zenon

LEMMA ListenEnds ==
    ASSUME TypeOK, EndListen
    PROVE  /\ port' \in Seq(Completions) /\ Len(port) <= Len(port')
           /\ \A k \in 1..Len(port) : port'[k] = port[k]
           /\ \A k \in 1..Len(port') : k \notin 1..Len(port) =>
                 port'[k].key = "acc" /\ ~port'[k].ok /\ port'[k].data = {}
<1> DEFINE r == AbortedAccepts
<1>1. /\ r \in Seq(Completions)
      /\ \A k \in 1..Len(r) : r[k].key = "acc" /\ ~r[k].ok /\ r[k].data = {}
  BY AbortedAcceptsIs, Zenon
<1>2. port \in Seq(Completions) /\ port' = port \o r
  BY DEF TypeOK, EndListen
<1> HIDE DEF r
<1>3. /\ port' \in Seq(Completions) /\ Len(port') = Len(port) + Len(r)
      /\ \A k \in 1..Len(port) : port'[k] = port[k]
      /\ \A k \in 1..Len(port') : k \notin 1..Len(port) =>
            k - Len(port) \in 1..Len(r) /\ port'[k] = r[k - Len(port)]
  BY <1>1, <1>2, Joined
<1>4. Len(port) <= Len(port')
  BY <1>1, <1>2, <1>3
<1>5. QED
  BY <1>1, <1>3, <1>4, Zenon

\* The destructor's completions are those after the ones that were there.
LEMMA Destroys ==
    ASSUME TypeOK, Destroy
    PROVE  /\ Cardinality(Threads) \in Nat
           /\ port' \in Seq(Completions) /\ Len(port) + Cardinality(Threads) <= Len(port')
           /\ \A k \in 1..Len(port) : port'[k] = port[k]
           /\ \A k \in 1..Len(port') : k \notin 1..Len(port) =>
                 /\ port'[k].data = {}
                 /\ \/ port'[k].key = "close" /\ k <= Len(port) + Cardinality(Threads)
                    \/ /\ port'[k].key = "acc" /\ ~port'[k].ok
                       /\ ~(k <= Len(port) + Cardinality(Threads))
<1> DEFINE r == AbortedAccepts
           n == Cardinality(Threads)
           e == Completion("close", None, TRUE, {})
           u == [k \in 1..n |-> e]
           q == port \o u
<1>1. /\ r \in Seq(Completions)
      /\ \A k \in 1..Len(r) : r[k].key = "acc" /\ ~r[k].ok /\ r[k].data = {}
  BY AbortedAcceptsIs, Zenon
<1>2. port \in Seq(Completions) /\ port' = q \o r
  BY DEF TypeOK, Destroy
<1>3. n \in Nat
  BY FS_CardinalityType
<1>4. e \in Completions /\ e.key = "close" /\ e.data = {}
  BY DEF Completion, Completions
<1> HIDE DEF r, e, n
<1>5. u \in Seq(Completions) /\ Len(u) = n /\ \A k \in 1..n : u[k] = e
  BY <1>3, <1>4
<1> HIDE DEF u
<1>6. /\ q \in Seq(Completions) /\ Len(q) = Len(port) + n
      /\ \A k \in 1..Len(port) : q[k] = port[k]
      /\ \A k \in 1..Len(q) : k \notin 1..Len(port) =>
            k - Len(port) \in 1..n /\ q[k] = u[k - Len(port)]
  <2>1. /\ q \in Seq(Completions) /\ Len(q) = Len(port) + Len(u)
        /\ \A k \in 1..Len(port) : q[k] = port[k]
        /\ \A k \in 1..Len(q) : k \notin 1..Len(port) =>
              k - Len(port) \in 1..Len(u) /\ q[k] = u[k - Len(port)]
    BY <1>2, <1>5, Joined
  <2>2. QED
    BY <1>5, <2>1
<1> HIDE DEF q
<1>7. /\ port' \in Seq(Completions) /\ Len(port') = Len(q) + Len(r)
      /\ \A k \in 1..Len(q) : port'[k] = q[k]
      /\ \A k \in 1..Len(port') : k \notin 1..Len(q) =>
            k - Len(q) \in 1..Len(r) /\ port'[k] = r[k - Len(q)]
  <2>1. q \in Seq(Completions)
    BY <1>6
  <2>2. q \o r \in Seq(Completions) /\ Len(q \o r) = Len(q) + Len(r)
    BY <1>1, <2>1, Joined
  <2>3. /\ \A k \in 1..Len(q) : (q \o r)[k] = q[k]
        /\ \A k \in 1..Len(q \o r) : k \notin 1..Len(q) =>
              k - Len(q) \in 1..Len(r) /\ (q \o r)[k] = r[k - Len(q)]
    BY <1>1, <2>1, Joined
  <2>4. port' = q \o r
    BY <1>2
  <2> HIDE DEF q
  <2>5. QED
    BY <2>2, <2>3, <2>4, Zenon
<1>8. Len(port) \in Nat /\ Len(r) \in Nat /\ Len(q) \in Nat
  BY <1>1, <1>2, <1>6
<1>9. Len(port) + n <= Len(port') /\ \A k \in 1..Len(port) : k \in 1..Len(q)
  BY <1>3, <1>6, <1>7, <1>8
<1>10. ASSUME NEW k \in 1..Len(port'), k \notin 1..Len(port)
       PROVE  /\ port'[k].data = {}
              /\ \/ port'[k].key = "close" /\ k <= Len(port) + n
                 \/ port'[k].key = "acc" /\ ~port'[k].ok /\ ~(k <= Len(port) + n)
  <2>1. CASE k \in 1..Len(q)
    <3>1. port'[k] = e
      BY <1>5, <1>6, <1>7, <1>10, <2>1, Zenon
    <3>2. k <= Len(port) + n
      BY <1>6, <2>1
    <3>3. QED
      BY <1>4, <3>1, <3>2
  <2>2. CASE k \notin 1..Len(q)
    <3>1. port'[k].key = "acc" /\ ~port'[k].ok /\ port'[k].data = {}
      BY <1>1, <1>7, <2>2, Zenon
    <3>2. ~(k <= Len(port) + n)
      BY <1>6, <1>7, <1>8, <2>2
    <3>3. QED
      BY <3>1, <3>2
  <2>3. QED
    BY <2>1, <2>2
<1>11. QED
  <2>1. \A k \in 1..Len(port) : port'[k] = port[k]
    BY <1>6, <1>7, <1>9, Zenon
  <2>2. QED
    BY <1>3, <1>7, <1>9, <1>10, <2>1, Zenon DEF n

\* What a step that posts one completion posts.
LEMMA Posted ==
    ASSUME TypeOK, Linked
    PROVE  /\ \A p \in Procs : AcceptAtOnce(p) =>
                 \E e \in Completions : /\ port' = Append(port, e) /\ e.key = "acc" /\ e.ok
                                        /\ e.data = {}
           /\ \A p \in Procs : ReadAtOnce(p) =>
                 \E e \in Completions : /\ port' = Append(port, e) /\ e.key = "client"
                                        /\ e.slot = cur[p] /\ e.slot \in Slots
           /\ CompleteAccept =>
                 \E e \in Completions : /\ port' = Append(port, e) /\ e.key = "acc" /\ e.ok
                                        /\ e.data = {}
           /\ BreakAccept =>
                 \E e \in Completions : /\ port' = Append(port, e) /\ e.key = "acc" /\ ~e.ok
                                        /\ e.data = {}
           /\ \A s \in Socks : CompleteRead(s) =>
                 \E e \in Completions : /\ port' = Append(port, e) /\ e.key = "client"
                                        /\ e.slot = home[s] /\ e.slot \in Slots
                                        /\ (e.data = {} \/ e.data = unread[s])
<1>1. Completion("acc", None, TRUE, {}) \in Completions
  BY DEF Completion, Completions
<1>2. /\ Completion("acc", None, TRUE, {}).key = "acc"
      /\ Completion("acc", None, TRUE, {}).ok
      /\ Completion("acc", None, TRUE, {}).data = {}
  BY DEF Completion
<1>4. ASSUME NEW p \in Procs, AcceptAtOnce(p)
      PROVE  \E e \in Completions : port' = Append(port, e) /\ e.key = "acc" /\ e.ok /\ e.data = {}
  BY <1>1, <1>2, <1>4, Zenon DEF AcceptAtOnce
<1>5. ASSUME NEW p \in Procs, ReadAtOnce(p)
      PROVE  \E e \in Completions : /\ port' = Append(port, e) /\ e.key = "client"
                                    /\ e.slot = cur[p] /\ e.slot \in Slots
  <2>1. cur[p] \in Slots /\ unread[sock[cur[p]]] \in SUBSET Pieces
    BY <1>5, Subjects DEF ReadAtOnce, Busy, TypeOK
  <2>2. port' = Append(port, Completion("client", cur[p], TRUE, unread[sock[cur[p]]]))
    BY <1>5, Zenon DEF ReadAtOnce
  <2> DEFINE e == Completion("client", cur[p], TRUE, unread[sock[cur[p]]])
  <2>3. e \in Completions /\ e.key = "client" /\ e.slot = cur[p]
    BY <2>1 DEF Completion, Completions
  <2> HIDE DEF e
  <2>4. port' = Append(port, e) /\ e.slot \in Slots
    BY <2>1, <2>2, <2>3 DEF e
  <2>5. QED
    BY <2>3, <2>4
<1>6. ASSUME CompleteAccept
      PROVE  \E e \in Completions : port' = Append(port, e) /\ e.key = "acc" /\ e.ok /\ e.data = {}
  BY <1>1, <1>2, <1>6, Zenon DEF CompleteAccept
<1>9. ASSUME BreakAccept
      PROVE  \E e \in Completions : port' = Append(port, e) /\ e.key = "acc" /\ ~e.ok /\ e.data = {}
  <2>1. /\ Completion("acc", None, FALSE, {}) \in Completions
        /\ Completion("acc", None, FALSE, {}).key = "acc"
        /\ ~Completion("acc", None, FALSE, {}).ok
        /\ Completion("acc", None, FALSE, {}).data = {}
    BY DEF Completion, Completions
  <2>2. port' = Append(port, Completion("acc", None, FALSE, {}))
    BY <1>9 DEF BreakAccept
  <2>3. QED
    BY <2>1, <2>2, Zenon
<1>7. ASSUME NEW s \in Socks, CompleteRead(s)
      PROVE  \E e \in Completions : /\ port' = Append(port, e) /\ e.key = "client"
                                    /\ e.slot = home[s] /\ e.slot \in Slots
                                    /\ (e.data = {} \/ e.data = unread[s])
  <2>1. home[s] \in Slots /\ unread[s] \in SUBSET Pieces /\ {} \in SUBSET Pieces
    BY <1>7, Subjects DEF CompleteRead, TypeOK
  <2>2. \/ port' = Append(port, Completion("client", home[s], TRUE, unread[s]))
        \/ port' = Append(port, Completion("client", home[s], FALSE, {}))
    BY <1>7, Zenon DEF CompleteRead
  <2> DEFINE e == Completion("client", home[s], TRUE, unread[s])
             f == Completion("client", home[s], FALSE, {})
  <2>3. e \in Completions /\ e.key = "client" /\ e.slot = home[s] /\ e.data = unread[s]
    BY <2>1 DEF Completion, Completions
  <2>4. f \in Completions /\ f.key = "client" /\ f.slot = home[s] /\ f.data = {}
    BY <2>1 DEF Completion, Completions
  <2>5. port' = Append(port, e) \/ port' = Append(port, f)
    BY <2>2
  <2> HIDE DEF e, f
  <2>6. e.slot \in Slots /\ f.slot \in Slots
    BY <2>1, <2>3, <2>4
  <2>7. QED
    BY <2>3, <2>4, <2>5, <2>6
<1>8. QED
  BY <1>4, <1>5, <1>6, <1>7, <1>9

LEMMA TypeStep == ASSUME TypeOK, Linked, Next PROVE TypeOK'
<1>1. slot' \in [Slots -> {"free", "pending", "connected", "cleaning"}]
  BY WhoChanges DEF TypeOK, TakeSlot, HandleAccept, EndClient, FreeEntry
<1>2. sock' \in [Slots -> Socks \cup {None}] /\ home' \in [Socks -> Slots \cup {None}]
  <2>1. \/ UNCHANGED <<sock, home>>
        \/ \E c \in Slots, s \in Socks : /\ sock' = [sock EXCEPT ![c] = s]
                                       /\ home' = [home EXCEPT ![s] = c]
    BY WhoChanges, Zenon DEF TakeSlot
  <2>2. sock \in [Slots -> Socks \cup {None}] /\ home \in [Socks -> Slots \cup {None}]
    BY DEF TypeOK
  <2>3. ASSUME NEW c \in Slots, NEW s \in Socks
        PROVE  /\ [sock EXCEPT ![c] = s] \in [Slots -> Socks \cup {None}]
               /\ [home EXCEPT ![s] = c] \in [Socks -> Slots \cup {None}]
    BY <2>2
  <2>4. QED
    BY <2>1, <2>2, <2>3
<1>3. cbk' \in [Slots -> BOOLEAN]
  <2>1. \/ UNCHANGED cbk
        \/ \E c : cbk' = [cbk EXCEPT ![c] = FALSE] \/ cbk' = [cbk EXCEPT ![c] = TRUE]
    BY WhoChanges, Zenon DEF TakeSlot, SocketFails, Tell
  <2>2. cbk \in [Slots -> BOOLEAN]
    BY DEF TypeOK
  <2>3. QED
    BY <2>1, <2>2
<1>4. user' \in SUBSET Slots
  <2>1. ASSUME NEW p \in Procs, Tell(p) PROVE cur[p] \in Slots
    BY <2>1, Subjects DEF Tell, Busy
  <2>2. \/ UNCHANGED user
        \/ \E c \in Slots : user' = user \cup {c}
        \/ \E c : user' = user \ {c}
    <3>1. \/ UNCHANGED user
          \/ \E p \in Procs : Tell(p) \/ EndClient(p)
          \/ \E c \in Slots : Close(c)
      BY WhoChanges, Zenon
    <3>2. QED
      BY <2>1, <3>1, Zenon DEF Tell, EndClient, Close
  <2>3. QED
    BY <2>2 DEF TypeOK
<1>5. conn' \in [Socks -> {"none", "accepting", "connected", "ended", "closed"}]
  <2>1. \/ UNCHANGED conn
        \/ \E s \in Socks : CloseSocket(s)
        \/ \E s \in Socks, x \in {"accepting", "connected", "ended"} :
               conn' = [conn EXCEPT ![s] = x]
    <3>1. \/ UNCHANGED conn
          \/ \E p \in Procs : TakeSlot(p) \/ AcceptAtOnce(p) \/ EndClient(p)
          \/ \E s \in Socks : PeerEnds(s)
          \/ \E c \in Slots : Close(c)
          \/ DestroySocket
          \/ CompleteAccept
      BY WhoChanges, Zenon
    <3>2. QED
      BY <3>1, ClosingSocks, Subjects
         DEF TypeOK, TakeSlot, AcceptAtOnce, EndClient, PeerEnds, Close, DestroySocket,
             CompleteAccept, connVars, Busy
  <2>2. QED
    BY <2>1, ClosedTyped DEF TypeOK
<1>6. reads' \in [Socks -> Nat]
  <2>1. \/ UNCHANGED reads
        \/ \E s \in Socks : CloseSocket(s)
        \/ \E s \in Socks : reads' = [reads EXCEPT ![s] = @ + 1]
        \/ \E s \in Socks : reads[s] > 0 /\ reads' = [reads EXCEPT ![s] = @ - 1]
    <3>1. \/ UNCHANGED reads
          \/ \E p \in Procs : ReadPending(p) \/ EndClient(p)
          \/ \E s \in Socks : CompleteRead(s)
          \/ \E c \in Slots : Close(c)
          \/ DestroySocket
      BY WhoChanges, Zenon
    <3>2. QED
      BY <3>1, ClosingSocks, Subjects
         DEF ReadPending, EndClient, CompleteRead, Close, DestroySocket, connVars, Busy
  <2>2. reads \in [Socks -> Nat]
    BY DEF TypeOK
  <2>3. CASE UNCHANGED reads \/ \E s \in Socks : CloseSocket(s)
    BY <2>2, <2>3, ClosedTyped
  <2>4. ASSUME NEW s \in Socks, NEW n \in Nat, reads' = [reads EXCEPT ![s] = n]
        PROVE  reads' \in [Socks -> Nat]
    BY <2>2, <2>4
  <2>5. CASE \E s \in Socks : reads' = [reads EXCEPT ![s] = @ + 1]
    BY <2>2, <2>4, <2>5
  <2>6. CASE \E s \in Socks : reads[s] > 0 /\ reads' = [reads EXCEPT ![s] = @ - 1]
    <3>1. PICK s \in Socks : reads[s] > 0 /\ reads' = [reads EXCEPT ![s] = @ - 1]
      BY <2>6
    <3>2. reads[s] - 1 \in Nat
      BY <2>2, <3>1
    <3>3. QED
      BY <2>4, <3>1, <3>2
  <2>7. QED
    BY <2>1, <2>3, <2>5, <2>6
<1>7. unread' \in [Socks -> SUBSET Pieces]
  <2>1. \/ UNCHANGED unread
        \/ \E s \in Socks : CloseSocket(s)
        \/ \E s \in Socks : unread' = [unread EXCEPT ![s] = {}]
        \/ \E s \in Socks : PeerSends(s)
    <3>1. \/ UNCHANGED unread
          \/ \E p \in Procs : ReadAtOnce(p) \/ EndClient(p)
          \/ \E s \in Socks : PeerSends(s) \/ CompleteRead(s)
          \/ \E c \in Slots : Close(c)
          \/ DestroySocket
      BY WhoChanges, Zenon
    <3>2. QED
      BY <3>1, ClosingSocks, Subjects
         DEF ReadAtOnce, EndClient, CompleteRead, Close, DestroySocket, connVars, Busy
  <2>2. ASSUME NEW s \in Socks, PeerSends(s) PROVE sent' \in Pieces
    BY <2>2 DEF TypeOK, PeerSends, Pieces
  <2>3. unread \in [Socks -> SUBSET Pieces]
    BY DEF TypeOK
  <2>4. CASE \/ UNCHANGED unread \/ \E s \in Socks : CloseSocket(s)
             \/ \E s \in Socks : unread' = [unread EXCEPT ![s] = {}]
    BY <2>3, <2>4, ClosedTyped
  <2>5. CASE \E s \in Socks : PeerSends(s)
    <3>1. PICK s \in Socks : PeerSends(s)
      BY <2>5
    <3>2. unread' = [unread EXCEPT ![s] = unread[s] \cup {sent'}]
      BY <3>1 DEF PeerSends
    <3>3. unread[s] \cup {sent'} \in SUBSET Pieces
      BY <2>2, <2>3, <3>1
    <3>4. QED
      BY <2>3, <3>2, <3>3
  <2>6. QED
    BY <2>1, <2>4, <2>5
<1>8. listening' \in BOOLEAN
  BY WhoChanges, Zenon DEF TypeOK, BeginListen, EndListen, Destroy, StopListening
<1>9. made' \in 0..MaxConns /\ asking' \in 0..made'
  <2>1. \/ UNCHANGED <<asking, made>>
        \/ asking' = 0 /\ made' = made
        \/ asking > 0 /\ asking' = asking - 1 /\ made' = made
        \/ made < MaxConns /\ asking' = asking + 1 /\ made' = made + 1
    <3>1. \/ UNCHANGED <<asking, made>>
          \/ \E p \in Procs : AcceptAtOnce(p) \/ AcceptFails(p)
          \/ EndListen \/ Destroy \/ PeerConnects \/ CompleteAccept \/ BreakAccept
      BY WhoChanges, Zenon
    <3>2. QED
      BY <3>1 DEF AcceptAtOnce, AcceptFails, EndListen, Destroy, StopListening, PeerConnects,
                  CompleteAccept, BreakAccept, histVars
  <2>2. asking \in 0..made /\ made \in 0..MaxConns
    BY DEF TypeOK
  <2>3. QED
    BY <2>1, <2>2
<1>10. accepts' \in SUBSET Socks
  <2>1. \/ UNCHANGED accepts
        \/ \E s \in Socks : CloseSocket(s) \/ accepts' = accepts \cup {s}
        \/ accepts' = {} \/ \E s \in Socks : accepts' = accepts \ {s}
    <3>1. \/ UNCHANGED accepts
          \/ \E p \in Procs : AcceptPending(p) \/ EndClient(p)
          \/ \E c \in Slots : Close(c)
          \/ EndListen \/ Destroy \/ DestroySocket \/ CompleteAccept \/ BreakAccept
      BY WhoChanges, Zenon
    <3>2. QED
      BY <3>1, ClosingSocks, Subjects
         DEF AcceptPending, EndClient, Close, EndListen, Destroy, StopListening,
             DestroySocket, CompleteAccept, BreakAccept, accVars, Busy, TypeOK
  <2>2. QED
    BY <2>1 DEF TypeOK, CloseSocket
<1>11. accOv' \in Slots \cup {None}
  BY WhoChanges DEF TypeOK, AcceptAtOnce, AcceptPending, AcceptFails
<1>21. accCbk' \in BOOLEAN
  BY WhoChanges, Zenon DEF TypeOK, BeginListen, ClearCallback
<1>12. sent' \in 0..MaxData
  BY WhoChanges DEF TypeOK, PeerSends
<1>13. heard' \in [Pieces -> Nat]
  BY WhoChanges DEF TypeOK, Deliver
<1>14. odd' \in Seq({"socket", "quick", "close"}) /\ Len(odd') <= MaxOdd
  <2>1. \/ UNCHANGED odd
        \/ \E what \in {"socket", "quick", "close"} : Unusual(what)
    BY WhoChanges, Zenon DEF SocketFails, AcceptAtOnce, ReadAtOnce, Close
  <2>2. odd \in Seq({"socket", "quick", "close"}) /\ Len(odd) <= MaxOdd
    BY DEF TypeOK
  <2>3. ASSUME NEW what \in {"socket", "quick", "close"}, Unusual(what)
        PROVE  odd' \in Seq({"socket", "quick", "close"}) /\ Len(odd') <= MaxOdd
    <3>1. Len(odd) < MaxOdd /\ odd' = Append(odd, what)
      BY <2>3 DEF Unusual
    <3>2. QED
      BY <2>2, <3>1
  <2>4. QED
    BY <2>1, <2>2, <2>3
<1>15. pc' \in [Procs -> Labels]
  <2>1. \E p \in Procs, x \in Labels : UNCHANGED pc \/ pc' = [pc EXCEPT ![p] = x]
    <3>1. ASSUME NEW p \in Procs, Step(p)
          PROVE  \E x \in Labels : pc' = [pc EXCEPT ![p] = x]
      <4>1. back[p] \in Labels /\ Home(p) \in Labels
        BY DEF TypeOK, Home, Labels
      <4>2. \E x \in {"post", "accept", "tell", "read", "deliver", "close", "free",
                      "crashed", back[p], Home(p)} :
                pc' = [pc EXCEPT ![p] = x]
        BY <3>1, Zenon DEF Step, Goto, TakeSlot, SocketFails, NoFreeSlot,
           AcceptAtOnce, AcceptPending,
               AcceptFails, HandleAccept, Tell, ReadPending, ReadAtOnce, ReadFails, Deliver,
               EndClient, FreeEntry
      <4>3. QED
        BY <4>1, <4>2 DEF Labels
    <3>2. QED
      BY <3>1, NextIs, Subjects
         DEF Goto, Labels, TakeClose, TakeAccept, TakeRead, Close, BeginListen, Destroy,
             DestroySocket, Join, EndListen, ClearCallback, PeerConnects,
             CompleteAccept, BreakAccept, PeerSends,
             PeerEnds, CompleteRead
  <2>2. QED
    BY <2>1 DEF TypeOK
<1>16. cur' \in [Procs -> Slots \cup {None}]
  <2>1. \/ UNCHANGED cur
        \/ \E p \in Procs, c \in Slots \cup {None} : cur' = [cur EXCEPT ![p] = c]
    <3>1. ASSUME NEW p \in Procs, Step(p)
          PROVE  UNCHANGED cur \/ \E c \in Slots : cur' = [cur EXCEPT ![p] = c]
      BY <3>1, Zenon DEF Step, TakeSlot, SocketFails, NoFreeSlot, AcceptAtOnce, AcceptPending,
             AcceptFails, HandleAccept, Tell, ReadPending, ReadAtOnce, ReadFails, Deliver,
             EndClient, FreeEntry, procVars
    <3>2. ASSUME NEW t \in Threads, TakeClose(t) \/ TakeAccept(t) \/ TakeRead(t)
          PROVE  \/ UNCHANGED cur
                 \/ \E c \in Slots \cup {None} : cur' = [cur EXCEPT ![t] = c]
      <4>1. accOv \in Slots \cup {None}
        BY DEF TypeOK
      <4>2. QED
        BY <3>2, <4>1, HeadTyped DEF TakeClose, TakeAccept, TakeRead, procVars
    <3>3. ASSUME DestroySocket
          PROVE  UNCHANGED cur \/ \E c \in Slots : cur' = [cur EXCEPT ![Main] = c]
      <4>1. cur[Main] \in Slots
        BY <3>3, Subjects DEF DestroySocket
      <4>2. cur[Main] < NumSlots => cur[Main] + 1 \in Slots
        BY <4>1 DEF Slots
      <4>3. QED
        BY <3>3, <4>2 DEF DestroySocket
    <3>4. 1 \in Slots
      BY DEF Slots
    <3>5. QED
      BY <3>1, <3>2, <3>3, <3>4, NextIs, Subjects
         DEF Close, BeginListen, EndListen, ClearCallback, Destroy, Join, PeerConnects,
             CompleteAccept, BreakAccept, PeerSends, PeerEnds, CompleteRead, procVars
  <2>2. QED
    BY <2>1 DEF TypeOK
<1>17. data' \in [Procs -> SUBSET Pieces]
  <2>1. UNCHANGED data \/ \E p \in Procs, d \in SUBSET Pieces : data' = [data EXCEPT ![p] = d]
    <3>1. ASSUME NEW p \in Procs, Step(p)
          PROVE  UNCHANGED data \/ \E d \in SUBSET Pieces : data' = [data EXCEPT ![p] = d]
      <4>1. CASE ReadAtOnce(p)
        <5>1. unread[sock[cur[p]]] \in SUBSET Pieces
          BY <4>1, Subjects DEF ReadAtOnce, Busy, TypeOK
        <5>2. QED
          BY <4>1, <5>1 DEF ReadAtOnce
      <4>2. CASE ~ReadAtOnce(p)
        BY <3>1, <4>2, Zenon DEF Step, TakeSlot, SocketFails, NoFreeSlot,
           AcceptAtOnce, AcceptPending,
               AcceptFails, HandleAccept, Tell, ReadPending, ReadFails, Deliver,
               EndClient, FreeEntry, procVars
      <4>3. QED
        BY <4>1, <4>2
    <3>2. ASSUME NEW t \in Threads, TakeClose(t) \/ TakeAccept(t) \/ TakeRead(t)
          PROVE  UNCHANGED data \/ \E d \in SUBSET Pieces : data' = [data EXCEPT ![t] = d]
      BY <3>2, HeadTyped DEF TakeClose, TakeAccept, TakeRead, procVars
    <3>3. QED
      BY <3>1, <3>2, NextIs, Subjects
         DEF Close, BeginListen, EndListen, ClearCallback, Destroy, DestroySocket, Join,
             PeerConnects, CompleteAccept, BreakAccept, PeerSends, PeerEnds, CompleteRead, procVars
  <2>2. QED
    BY <2>1 DEF TypeOK
<1>18. back' \in [Procs -> {"idle", "wait", "start"}]
  <2>1. \/ UNCHANGED back
        \/ \E p \in Procs, x \in {"idle", "wait", "start"} : back' = [back EXCEPT ![p] = x]
    <3>1. ASSUME NEW p \in Procs, Step(p)
          PROVE  UNCHANGED back \/ back' = [back EXCEPT ![p] = "start"]
      BY <3>1, Zenon DEF Step, TakeSlot, SocketFails, NoFreeSlot, AcceptAtOnce, AcceptPending,
             AcceptFails, HandleAccept, Tell, ReadPending, ReadAtOnce, ReadFails, Deliver,
             EndClient, FreeEntry, procVars
    <3>2. QED
      BY <3>1, NextIs, Subjects
         DEF TakeClose, TakeAccept, TakeRead, Close, BeginListen, EndListen, ClearCallback,
             Destroy, DestroySocket, Join, PeerConnects, CompleteAccept, BreakAccept,
             PeerSends, PeerEnds, CompleteRead, procVars
  <2>2. QED
    BY <2>1 DEF TypeOK
<1>19. port' \in Seq(Completions)
  <2>1. \/ UNCHANGED port
        \/ \E e \in Completions : port' = Append(port, e)
        \/ \E t \in Threads, key \in {"acc", "client", "close"} : Take(t, key)
        \/ \E s \in Socks : CloseSocket(s)
        \/ EndListen \/ Destroy
    <3>1. \/ UNCHANGED port
          \/ \E p \in Procs : AcceptAtOnce(p) \/ ReadAtOnce(p) \/ EndClient(p)
          \/ \E t \in Threads : TakeClose(t) \/ TakeAccept(t) \/ TakeRead(t)
          \/ \E s \in Socks : CompleteRead(s)
          \/ \E c \in Slots : Close(c)
          \/ EndListen \/ Destroy \/ DestroySocket \/ CompleteAccept \/ BreakAccept
      BY WhoChanges, Zenon
    <3>2. QED
      BY <3>1, ClosingSocks, Posted
         DEF EndClient, TakeClose, TakeAccept, TakeRead, Close, DestroySocket
  <2>2. QED
    <3>1. CASE UNCHANGED port
      BY <3>1 DEF TypeOK
    <3>2. CASE \E e \in Completions : port' = Append(port, e)
      BY <3>2, Posts
    <3>3. CASE \E t \in Threads, key \in {"acc", "client", "close"} : Take(t, key)
      BY <3>3, HeadTyped
    <3>4. CASE \E s \in Socks : CloseSocket(s)
      BY <3>4, Closes
    <3>5. CASE EndListen
      BY <3>5, ListenEnds
    <3>6. CASE Destroy
      BY <3>6, Destroys
    <3>7. QED
      BY <2>1, <3>1, <3>2, <3>3, <3>4, <3>5, <3>6
<1>20. QED
  <2>1. /\ slot' \in [Slots -> {"free", "pending", "connected", "cleaning"}]
        /\ sock' \in [Slots -> Socks \cup {None}] /\ cbk' \in [Slots -> BOOLEAN]
        /\ conn' \in [Socks -> {"none", "accepting", "connected", "ended", "closed"}]
        /\ home' \in [Socks -> Slots \cup {None}]
        /\ reads' \in [Socks -> Nat] /\ unread' \in [Socks -> SUBSET Pieces]
    BY <1>1, <1>2, <1>3, <1>5, <1>6, <1>7
  <2>2. QED
    BY <2>1, <1>4, <1>8, <1>9, <1>10, <1>11, <1>12, <1>13, <1>14, <1>15, <1>16, <1>17,
       <1>18, <1>19, <1>21, Zenon DEF TypeOK

-----------------------------------------------------------------------------
(* Every handler has a slot, and every slot that is handled has a socket. *)

\* The steps that close a socket.
Closer(s) ==
    \/ \E p \in Procs : EndClient(p) /\ s = sock[cur[p]]
    \/ \E c \in Slots : Close(c) /\ s = sock[c]
    \/ DestroySocket /\ s = sock[cur[Main]]

\* What a step puts into the port, behind what is there.
Posting(k) ==
    \/ port'[k].key = "acc" /\ ~port'[k].ok /\ port'[k].data = {}
    \/ /\ port'[k].key = "acc" /\ port'[k].ok /\ port'[k].data = {}
       /\ CompleteAccept \/ \E p \in Procs : AcceptAtOnce(p)
    \/ /\ port'[k].key = "client"
       /\ \E p \in Procs : ReadAtOnce(p) /\ port'[k].slot = cur[p]
    \/ /\ port'[k].key = "client"
       /\ \E s \in Socks :
              /\ reads[s] > 0 /\ port'[k].slot = home[s]
              /\ \/ Closer(s) /\ CloseSocket(s) /\ port'[k].data = {}
                 \/ CompleteRead(s) /\ port'[k].data \in {{}, unread[s]}
    \/ port'[k].key = "close" /\ port'[k].data = {} /\ Destroy

LEMMA PortStep ==
    ASSUME TypeOK, Linked, Next
    PROVE  \/ UNCHANGED port
           \/ \E t \in Threads : TakeClose(t) \/ TakeAccept(t) \/ TakeRead(t)
           \/ /\ \A k \in 1..Len(port) : k \in 1..Len(port') /\ port'[k] = port[k]
              /\ \A k \in 1..Len(port') : k \in 1..Len(port) \/ Posting(k)
<1>1. \/ UNCHANGED port
      \/ \E p \in Procs : AcceptAtOnce(p) \/ ReadAtOnce(p) \/ EndClient(p)
      \/ \E t \in Threads : TakeClose(t) \/ TakeAccept(t) \/ TakeRead(t)
      \/ \E s \in Socks : CompleteRead(s)
      \/ \E c \in Slots : Close(c)
      \/ EndListen \/ Destroy \/ DestroySocket \/ CompleteAccept \/ BreakAccept
  BY WhoChanges, Zenon
<1> DEFINE Grown == /\ \A k \in 1..Len(port) : k \in 1..Len(port') /\ port'[k] = port[k]
                    /\ \A k \in 1..Len(port') : k \in 1..Len(port) \/ Posting(k)
<1>2. Len(port) \in Nat
  BY DEF TypeOK
<1>3. ASSUME NEW e \in Completions, port' = Append(port, e),
             port'[Len(port) + 1] = e => Posting(Len(port) + 1)
      PROVE  Grown
  <2>1. /\ Len(port') = Len(port) + 1
        /\ \A k \in 1..Len(port) : port'[k] = port[k]
        /\ port'[Len(port) + 1] = e
        /\ \A k \in 1..Len(port') : k \in 1..Len(port) \/ k = Len(port) + 1
    BY <1>3, Posts
  <2>2. \A k \in 1..Len(port) : k \in 1..Len(port')
    BY <1>2, <2>1
  <2>3. QED
    BY <1>3, <2>1, <2>2, Zenon
<1>4. ASSUME CompleteAccept \/ \E p \in Procs : AcceptAtOnce(p) PROVE Grown
  <2>1. PICK e \in Completions : port' = Append(port, e) /\ e.key = "acc" /\ e.ok /\ e.data = {}
    BY <1>4, Posted, Zenon
  <2>2. port'[Len(port) + 1] = e => Posting(Len(port) + 1)
    BY <1>4, <2>1 DEF Posting
  <2>3. QED
    BY <1>3, <2>1, <2>2
<1>6. ASSUME BreakAccept PROVE Grown
  <2>1. PICK e \in Completions : port' = Append(port, e) /\ e.key = "acc" /\ ~e.ok /\ e.data = {}
    BY <1>6, Posted, Zenon
  <2>2. port'[Len(port) + 1] = e => Posting(Len(port) + 1)
    BY <2>1 DEF Posting
  <2>3. QED
    BY <1>3, <2>1, <2>2
<1>5. ASSUME NEW p \in Procs, ReadAtOnce(p) PROVE Grown
  <2>1. PICK e \in Completions : port' = Append(port, e) /\ e.key = "client" /\ e.slot = cur[p]
    BY <1>5, Posted, Zenon
  <2>2. port'[Len(port) + 1] = e => Posting(Len(port) + 1)
    BY <1>5, <2>1 DEF Posting
  <2>3. QED
    BY <1>3, <2>1, <2>2
<1>7. ASSUME NEW s \in Socks, CompleteRead(s) PROVE Grown
  <2>1. PICK e \in Completions : /\ port' = Append(port, e) /\ e.key = "client"
                                 /\ e.slot = home[s] /\ (e.data = {} \/ e.data = unread[s])
    BY <1>7, Posted, Zenon
  <2>2. reads[s] > 0
    BY <1>7 DEF CompleteRead
  <2>3. port'[Len(port) + 1] = e => Posting(Len(port) + 1)
    BY <1>7, <2>1, <2>2 DEF Posting
  <2>4. QED
    BY <1>3, <2>1, <2>3
<1>8. ASSUME NEW s \in Socks, CloseSocket(s), Closer(s) PROVE Grown
  <2>1. /\ port' \in Seq(Completions) /\ Len(port) <= Len(port')
        /\ \A k \in 1..Len(port) : port'[k] = port[k]
        /\ \A k \in 1..Len(port') : k \notin 1..Len(port) => Posting(k)
    BY <1>8, Closes DEF Posting
  <2>2. \A k \in 1..Len(port) : k \in 1..Len(port')
    BY <1>2, <2>1
  <2>3. QED
    BY <2>1, <2>2, Zenon
<1>9. ASSUME EndListen PROVE Grown
  <2>1. /\ port' \in Seq(Completions) /\ Len(port) <= Len(port')
        /\ \A k \in 1..Len(port) : port'[k] = port[k]
        /\ \A k \in 1..Len(port') : k \notin 1..Len(port) => Posting(k)
    BY <1>9, ListenEnds DEF Posting
  <2>2. \A k \in 1..Len(port) : k \in 1..Len(port')
    BY <1>2, <2>1
  <2>3. QED
    BY <2>1, <2>2, Zenon
<1>10. ASSUME Destroy PROVE Grown
  <2>1. /\ port' \in Seq(Completions) /\ Len(port) + Cardinality(Threads) <= Len(port')
        /\ Cardinality(Threads) \in Nat
        /\ \A k \in 1..Len(port) : port'[k] = port[k]
        /\ \A k \in 1..Len(port') : k \notin 1..Len(port) => Posting(k)
    BY <1>10, Destroys DEF Posting
  <2>2. \A k \in 1..Len(port) : k \in 1..Len(port')
    BY <1>2, <2>1
  <2>3. QED
    BY <2>1, <2>2, Zenon
<1>11. ASSUME NEW p \in Procs, EndClient(p) PROVE Grown
  <2>1. sock[cur[p]] \in Socks /\ CloseSocket(sock[cur[p]])
    BY <1>11, ClosingSocks DEF EndClient
  <2>2. Closer(sock[cur[p]])
    BY <1>11 DEF Closer
  <2>3. QED
    BY <1>8, <2>1, <2>2, Zenon
<1>12. ASSUME NEW c \in Slots, Close(c) PROVE Grown
  <2>1. sock[c] \in Socks /\ CloseSocket(sock[c])
    BY <1>12, ClosingSocks DEF Close
  <2>2. Closer(sock[c])
    BY <1>12 DEF Closer
  <2>3. QED
    BY <1>8, <2>1, <2>2, Zenon
<1>13. ASSUME DestroySocket PROVE UNCHANGED port \/ Grown
  <2>1. \/ UNCHANGED port
        \/ sock[cur[Main]] \in Socks /\ CloseSocket(sock[cur[Main]])
    BY <1>13, ClosingSocks DEF DestroySocket, accVars
  <2>2. Closer(sock[cur[Main]])
    BY <1>13 DEF Closer
  <2>3. QED
    BY <1>8, <2>1, <2>2, Zenon
<1>14. QED
  BY <1>1, <1>4, <1>5, <1>6, <1>7, <1>9, <1>10, <1>11, <1>12, <1>13, Zenon

\* A thread moves by its own steps.
LEMMA WhoMoves ==
    ASSUME TypeOK, Next, NEW p \in Procs
    PROVE  \/ Step(p)
           \/ p \in Threads /\ (TakeClose(p) \/ TakeAccept(p) \/ TakeRead(p))
           \/ /\ p = Main
              /\ (\E c \in Slots : Close(c)) \/ BeginListen \/ EndListen \/ ClearCallback \/ Destroy
                  \/ DestroySocket \/ Join
           \/ pc'[p] = pc[p] /\ cur'[p] = cur[p] /\ data'[p] = data[p] /\ back'[p] = back[p]
<1> DEFINE Stays == pc'[p] = pc[p] /\ cur'[p] = cur[p] /\ data'[p] = data[p] /\ back'[p] = back[p]
<1>1. /\ pc \in [Procs -> Labels] /\ cur \in [Procs -> Slots \cup {None}]
      /\ data \in [Procs -> SUBSET Pieces]
      /\ back \in [Procs -> {"idle", "wait", "start"}]
      /\ Main \in Procs /\ \A t \in Threads : t \in Procs
  BY DEF TypeOK, Procs
<1>2. ASSUME NEW q \in Procs, q # p,
             UNCHANGED pc \/ \E x : pc' = [pc EXCEPT ![q] = x],
             UNCHANGED cur \/ \E x : cur' = [cur EXCEPT ![q] = x],
             UNCHANGED data \/ \E x : data' = [data EXCEPT ![q] = x],
             UNCHANGED back \/ \E x : back' = [back EXCEPT ![q] = x]
      PROVE  Stays
  BY <1>1, <1>2
<1>3. ASSUME NEW q \in Procs, Step(q), q # p PROVE Stays
  <2>1. \E x : pc' = [pc EXCEPT ![q] = x]
    BY <1>3, Zenon DEF Step, Goto, TakeSlot, SocketFails, NoFreeSlot, AcceptAtOnce,
       AcceptPending,
           AcceptFails, HandleAccept, Tell, ReadPending, ReadAtOnce, ReadFails, Deliver,
           EndClient, FreeEntry
  <2>2. UNCHANGED cur \/ \E x : cur' = [cur EXCEPT ![q] = x]
    BY <1>3, Zenon DEF Step, TakeSlot, SocketFails, NoFreeSlot, AcceptAtOnce, AcceptPending,
           AcceptFails, HandleAccept, Tell, ReadPending, ReadAtOnce, ReadFails, Deliver,
           EndClient, FreeEntry, procVars
  <2>3. UNCHANGED data \/ \E x : data' = [data EXCEPT ![q] = x]
    <3>1. CASE ReadAtOnce(q)
      BY <3>1 DEF ReadAtOnce
    <3>2. CASE ~ReadAtOnce(q)
      BY <1>3, <3>2, Zenon DEF Step, TakeSlot, SocketFails, NoFreeSlot, AcceptAtOnce,
           AcceptPending, AcceptFails, HandleAccept, Tell, ReadPending, ReadFails, Deliver,
           EndClient, FreeEntry, procVars
    <3>3. QED
      BY <3>1, <3>2
  <2>4. UNCHANGED back \/ \E x : back' = [back EXCEPT ![q] = x]
    BY <1>3, Zenon DEF Step, TakeSlot, SocketFails, NoFreeSlot, AcceptAtOnce, AcceptPending,
           AcceptFails, HandleAccept, Tell, ReadPending, ReadAtOnce, ReadFails, Deliver,
           EndClient, FreeEntry, procVars
  <2>5. QED
    BY <1>2, <1>3, <2>1, <2>2, <2>3, <2>4, Zenon
<1>4. ASSUME NEW t \in Threads, TakeClose(t) \/ TakeAccept(t) \/ TakeRead(t), t # p PROVE Stays
  BY <1>1, <1>4 DEF TakeClose, TakeAccept, TakeRead, Goto, procVars
<1>5. ASSUME (\E c \in Slots : Close(c)) \/ BeginListen \/ EndListen \/ ClearCallback \/ Destroy
                  \/ DestroySocket \/ Join,
             p # Main
      PROVE  Stays
  BY <1>1, <1>5 DEF Close, BeginListen, EndListen, ClearCallback, Destroy, DestroySocket, Join,
                    Goto, procVars
<1>6. (\E s \in Socks : PeerSends(s) \/ PeerEnds(s) \/ CompleteRead(s))
          \/ PeerConnects \/ CompleteAccept \/ BreakAccept => Stays
  BY DEF PeerSends, PeerEnds, CompleteRead, PeerConnects, CompleteAccept, BreakAccept, procVars
<1> HIDE DEF Stays
<1>7. QED
  BY <1>3, <1>4, <1>5, <1>6, NextIs, Zenon DEF Stays

\* A slot that has a socket keeps one, a socket keeps its slot.
LEMMA SocketsStay ==
    ASSUME TypeOK, Linked, Next
    PROVE  /\ \A c \in Slots : sock[c] # None => sock'[c] # None
           /\ \A s \in Socks : home[s] # None => home'[s] # None
           /\ \A s \in Socks : conn[s] # "none" => conn'[s] # "none"
<1>1. \/ UNCHANGED <<sock, home>>
      \/ \E c \in Slots, s \in Socks : /\ sock' = [sock EXCEPT ![c] = s]
                                       /\ home' = [home EXCEPT ![s] = c]
  BY WhoChanges, Zenon DEF TakeSlot
<1>2. /\ sock \in [Slots -> Socks \cup {None}] /\ home \in [Socks -> Slots \cup {None}]
      /\ None \notin Slots /\ None \notin Socks
  BY DEF TypeOK, Slots, Socks, None
<1>3. \/ UNCHANGED conn
      \/ \E s \in Socks : CloseSocket(s)
      \/ \E s \in Socks, x \in {"accepting", "connected", "ended"} :
             conn' = [conn EXCEPT ![s] = x]
  <2>1. \/ UNCHANGED conn
        \/ \E p \in Procs : TakeSlot(p) \/ AcceptAtOnce(p) \/ EndClient(p)
        \/ \E s \in Socks : PeerEnds(s)
        \/ \E c \in Slots : Close(c)
        \/ DestroySocket
        \/ CompleteAccept
    BY WhoChanges, Zenon
  <2>2. QED
    BY <2>1, ClosingSocks, Subjects
       DEF TypeOK, TakeSlot, AcceptAtOnce, EndClient, PeerEnds, Close, DestroySocket,
           CompleteAccept, connVars, Busy
<1>4. \/ UNCHANGED conn
      \/ \E s \in Socks, x \in {"accepting", "connected", "ended", "closed"} :
             conn' = [conn EXCEPT ![s] = x]
  BY <1>3, Zenon DEF CloseSocket
<1>5. \A s \in Socks : conn[s] # "none" => conn'[s] # "none"
  BY <1>4 DEF TypeOK
<1>6. QED
  BY <1>1, <1>2, <1>5

LEMMA LinkedInit == Init => Linked
BY DEF Init, Linked, Slots, Socks, None, Busy, Procs, AccDone

LEMMA LinkedStep == ASSUME TypeOK, Linked, Next PROVE Linked'
<1>0. /\ \A c \in Slots : sock[c] # None => sock'[c] # None
      /\ \A s \in Socks : home[s] # None => home'[s] # None
      /\ \A s \in Socks : conn[s] # "none" => conn'[s] # "none"
      /\ None \notin Slots /\ None \notin Socks
  BY SocketsStay DEF Slots, Socks, None
<1>1. \A c \in Slots : slot'[c] # "free" => sock'[c] # None
  <2>1. \/ UNCHANGED slot
        \/ \E p \in Procs : TakeSlot(p) \/ HandleAccept(p) \/ EndClient(p) \/ FreeEntry(p)
    BY WhoChanges, Zenon
  <2>2. \A c \in Slots : slot'[c] # "free" => \/ slot[c] # "free"
                                              \/ \E p \in Procs : pc[p] \in Busy /\ cur[p] = c
                                              \/ sock'[c] \in Socks
    BY <2>1 DEF TypeOK, TakeSlot, HandleAccept, EndClient, FreeEntry, Busy
  <2>3. QED
    BY <1>0, <2>2, Zenon DEF Linked
<1>2. \A c \in Slots : sock'[c] # None => home'[sock'[c]] = c /\ conn'[sock'[c]] # "none"
  <2>1. CASE UNCHANGED <<sock, home>>
    BY <1>0, <2>1 DEF Linked, TypeOK
  <2>2. CASE \E p \in Procs : TakeSlot(p)
    <3>1. PICK c \in Slots, s \in Socks :
              /\ conn[s] = "none"
              /\ sock' = [sock EXCEPT ![c] = s]
              /\ home' = [home EXCEPT ![s] = c]
              /\ conn' = [conn EXCEPT ![s] = "accepting"]
      BY <2>2, Zenon DEF TakeSlot, NextSock
    <3>2. home'[s] = c /\ conn'[s] = "accepting" /\ sock'[c] = s
      BY <3>1 DEF TypeOK
    <3>3. ASSUME NEW d \in Slots, d # c, sock'[d] # None
          PROVE  home'[sock'[d]] = d /\ conn'[sock'[d]] # "none"
      <4>1. sock'[d] = sock[d] /\ sock[d] \in Socks
        BY <3>1, <3>3 DEF TypeOK
      <4>2. home[sock[d]] = d /\ conn[sock[d]] # "none"
        BY <3>3, <4>1 DEF Linked
      <4>3. sock[d] # s /\ home'[sock[d]] = d
        BY <3>1, <4>1, <4>2 DEF TypeOK
      <4>4. QED
        BY <1>0, <4>1, <4>2, <4>3
    <3>4. QED
      BY <3>2, <3>3
  <2>3. QED
    BY <2>1, <2>2, WhoChanges, Zenon
<1>3. \A s \in Socks : home'[s] # None => sock'[home'[s]] # None
  <2>1. \/ UNCHANGED <<sock, home>>
        \/ \E c \in Slots, s \in Socks : /\ sock' = [sock EXCEPT ![c] = s]
                                         /\ home' = [home EXCEPT ![s] = c]
    BY WhoChanges, Zenon DEF TakeSlot
  <2>2. \A s \in Socks : home[s] # None => home[s] \in Slots /\ sock[home[s]] # None
    BY DEF TypeOK, Linked
  <2>3. QED
    BY <1>0, <2>1, <2>2 DEF TypeOK
<1>4. \A s \in Socks : reads'[s] > 0 \/ s \in accepts' => home'[s] # None
  <2>1. \A p \in Procs : pc[p] \in Busy => home[sock[cur[p]]] # None
    BY <1>0, Subjects DEF Linked
  <2>2. \A s \in Socks : reads'[s] > 0 => reads[s] > 0 \/ home[s] # None
    <3>1. \/ UNCHANGED reads
          \/ \E s \in Socks : CloseSocket(s)
          \/ \E p \in Procs : pc[p] \in Busy /\ reads' = [reads EXCEPT ![sock[cur[p]]] = @ + 1]
          \/ \E s \in Socks : reads[s] > 0 /\ reads' = [reads EXCEPT ![s] = @ - 1]
      <4>1. \/ UNCHANGED reads
            \/ \E p \in Procs : ReadPending(p) \/ EndClient(p)
            \/ \E s \in Socks : CompleteRead(s)
            \/ \E c \in Slots : Close(c)
            \/ DestroySocket
        BY WhoChanges, Zenon
      <4>2. QED
        BY <4>1, ClosingSocks, Subjects
           DEF ReadPending, EndClient, CompleteRead, Close, DestroySocket, connVars, Busy
    <3>2. CASE UNCHANGED reads \/ \E s \in Socks : CloseSocket(s)
      <4>1. UNCHANGED reads \/ \E s \in Socks : reads' = [reads EXCEPT ![s] = 0]
        BY <3>2, Zenon DEF CloseSocket
      <4>2. reads \in [Socks -> Nat]
        BY DEF TypeOK
      <4>3. QED
        BY <4>1, <4>2
    <3>3. CASE \E p \in Procs : pc[p] \in Busy /\ reads' = [reads EXCEPT ![sock[cur[p]]] = @ + 1]
      <4>1. PICK t : home[t] # None /\ reads' = [reads EXCEPT ![t] = @ + 1]
        BY <2>1, <3>3
      <4>2. QED
        BY <4>1 DEF TypeOK
    <3>4. CASE \E s \in Socks : reads[s] > 0 /\ reads' = [reads EXCEPT ![s] = @ - 1]
      BY <3>4 DEF TypeOK
    <3>5. QED
      BY <3>1, <3>2, <3>3, <3>4
  <2>3. \A s \in Socks : s \in accepts' => s \in accepts \/ home[s] # None
    <3>1. \/ UNCHANGED accepts
          \/ \E p \in Procs : AcceptPending(p) \/ EndClient(p)
          \/ \E c \in Slots : Close(c)
          \/ EndListen \/ Destroy \/ DestroySocket \/ CompleteAccept \/ BreakAccept
      BY WhoChanges, Zenon
    <3>2. \/ accepts' \subseteq accepts
          \/ \E p \in Procs : pc[p] \in Busy /\ accepts' = accepts \cup {sock[cur[p]]}
      BY <3>1 DEF AcceptPending, EndClient, Close, EndListen, Destroy, StopListening,
                  DestroySocket, CompleteAccept, BreakAccept, CloseSocket, accVars, Busy
    <3>3. QED
      BY <2>1, <3>2
  <2>4. QED
    BY <1>0, <2>2, <2>3, Zenon DEF Linked
<1>5. accOv' # None => sock'[accOv'] # None
  <2>1. UNCHANGED accOv \/ \E p \in Procs : pc[p] \in Busy /\ accOv' = cur[p]
    BY WhoChanges DEF AcceptAtOnce, AcceptPending, AcceptFails, Busy
  <2>2. accOv # None => accOv \in Slots /\ sock[accOv] # None
    BY DEF Linked, TypeOK
  <2>3. \A p \in Procs : pc[p] \in Busy => cur[p] \in Slots /\ sock[cur[p]] # None
    BY Subjects DEF Linked
  <2>4. QED
    BY <1>0, <2>1, <2>2, <2>3
<1>6. accOv # None \/ (\E p \in Procs : AcceptAtOnce(p) \/ AcceptPending(p)) => accOv' # None
  <2>1. \/ UNCHANGED accOv
        \/ \E p \in Procs : AcceptAtOnce(p) \/ AcceptPending(p) \/ AcceptFails(p)
    BY WhoChanges, Zenon
  <2>2. ASSUME NEW p \in Procs, AcceptAtOnce(p) \/ AcceptPending(p) \/ AcceptFails(p)
        PROVE  accOv' # None
    <3>1. pc[p] \in Busy /\ accOv' = cur[p]
      BY <2>2 DEF AcceptAtOnce, AcceptPending, AcceptFails, Busy
    <3>2. QED
      BY <3>1, Zenon DEF Linked
  <2>3. QED
    BY <2>1, <2>2, Zenon
<1>7. accepts' # {} => accOv' # None
  <2>1. \/ accepts' \subseteq accepts \/ \E p \in Procs : AcceptPending(p)
    <3>1. \/ UNCHANGED accepts
          \/ \E p \in Procs : AcceptPending(p) \/ EndClient(p)
          \/ \E c \in Slots : Close(c)
          \/ EndListen \/ Destroy \/ DestroySocket \/ CompleteAccept \/ BreakAccept
      BY WhoChanges, Zenon
    <3>2. QED
      BY <3>1 DEF EndClient, Close, EndListen, Destroy, StopListening,
                  DestroySocket, CompleteAccept, BreakAccept, CloseSocket, accVars
  <2>2. accepts' \subseteq accepts /\ accepts' # {} => accOv # None
    BY DEF Linked
  <2>3. QED
    BY <1>6, <2>1, <2>2, Zenon
<1>8. \A k \in 1..Len(port') : port'[k].key = "acc" /\ port'[k].ok => accOv' # None
  <2>1. \A k \in 1..Len(port) : port[k].key = "acc" /\ port[k].ok => accOv # None
    BY DEF Linked, AccDone
  <2>2. CompleteAccept => accOv # None
    BY DEF CompleteAccept, Linked
  <2>3. CASE UNCHANGED port
    BY <1>6, <2>1, <2>3
  <2>4. CASE \E t \in Threads : \E key : Take(t, key)
    <3>1. \A k \in 1..Len(port') : k + 1 \in 1..Len(port) /\ port'[k] = port[k + 1]
      BY <2>4, HeadTyped, Zenon
    <3>2. QED
      BY <1>6, <2>1, <3>1, Zenon
  <2>5. CASE \A k \in 1..Len(port') : (k \in 1..Len(port) /\ port'[k] = port[k]) \/ Posting(k)
    <3>1. \A k \in 1..Len(port') : Posting(k) /\ port'[k].key = "acc" /\ port'[k].ok =>
              CompleteAccept \/ \E p \in Procs : AcceptAtOnce(p)
      BY DEF Posting
    <3>2. QED
      BY <1>6, <2>1, <2>2, <2>5, <3>1, Zenon
  <2>6. QED
    BY <2>3, <2>4, <2>5, PortStep, Zenon DEF TakeClose, TakeAccept, TakeRead
<1>9. \A k \in 1..Len(port') : port'[k].key = "client" =>
          port'[k].slot # None /\ sock'[port'[k].slot] # None
  <2>1. \A k \in 1..Len(port) : port[k].key = "client" =>
            port[k].slot # None /\ sock'[port[k].slot] # None
    BY <1>0, Subjects DEF Linked
  <2>2. CASE UNCHANGED port
    BY <2>1, <2>2
  <2>3. CASE \E t \in Threads : \E key : Take(t, key)
    <3>1. \A k \in 1..Len(port') : k + 1 \in 1..Len(port) /\ port'[k] = port[k + 1]
      BY <2>3, HeadTyped, Zenon
    <3>2. QED
      BY <2>1, <3>1, Zenon
  <2>4. CASE \A k \in 1..Len(port') : (k \in 1..Len(port) /\ port'[k] = port[k]) \/ Posting(k)
    <3>1. \A p \in Procs : ReadAtOnce(p) => cur[p] # None /\ sock'[cur[p]] # None
      BY <1>0, Subjects DEF Linked, ReadAtOnce, Busy
    <3>2. \A s \in Socks : reads[s] > 0 => home[s] # None /\ sock'[home[s]] # None
      BY <1>0, Subjects DEF Linked
    <3>3. \A k \in 1..Len(port') : Posting(k) /\ port'[k].key = "client" =>
              \/ \E p \in Procs : ReadAtOnce(p) /\ port'[k].slot = cur[p]
              \/ \E s \in Socks : reads[s] > 0 /\ port'[k].slot = home[s]
      BY DEF Posting
    <3>4. QED
      BY <2>1, <2>4, <3>1, <3>2, <3>3, Zenon
  <2>5. QED
    BY <2>2, <2>3, <2>4, PortStep, Zenon DEF TakeClose, TakeAccept, TakeRead
<1>10. ASSUME NEW p \in Procs, pc'[p] \in Busy PROVE cur'[p] # None /\ sock'[cur'[p]] # None
  <2>1. /\ pc \in [Procs -> Labels] /\ cur \in [Procs -> Slots \cup {None}]
        /\ Main \in Procs /\ \A t \in Threads : t \in Procs
    BY DEF TypeOK, Procs
  <2>2. pc[p] \in Busy => cur[p] # None /\ sock'[cur[p]] # None
    BY <1>0, Subjects DEF Linked
  <2>3. CASE Step(p)
    <3>1. CASE TakeSlot(p)
      <4>1. PICK c \in Slots, s \in Socks : /\ cur' = [cur EXCEPT ![p] = c]
                                            /\ sock' = [sock EXCEPT ![c] = s]
        BY <3>1, Zenon DEF TakeSlot
      <4>2. QED
        BY <1>0, <2>1, <4>1 DEF TypeOK
    <3>2. CASE ~TakeSlot(p)
      <4>1. UNCHANGED cur
        BY <2>3, <3>2, Zenon DEF Step, SocketFails, NoFreeSlot, AcceptAtOnce, AcceptPending,
               AcceptFails, HandleAccept, Tell, ReadPending, ReadAtOnce, ReadFails, Deliver,
               EndClient, FreeEntry, procVars
      <4>2. \E x : pc' = [pc EXCEPT ![p] = x] /\ (x = Home(p) \/ pc[p] \in Busy)
        BY <2>3, <3>2 DEF Step, SocketFails, NoFreeSlot, AcceptAtOnce, AcceptPending,
               AcceptFails, HandleAccept, Tell, ReadPending, ReadAtOnce, ReadFails, Deliver,
               EndClient, FreeEntry, Goto, Busy
      <4>3. Home(p) \notin Busy
        BY DEF Home, Busy
      <4>4. QED
        BY <1>10, <2>1, <2>2, <4>1, <4>2, <4>3
    <3>3. QED
      BY <3>1, <3>2
  <2>4. CASE p \in Threads /\ (TakeClose(p) \/ TakeAccept(p) \/ TakeRead(p))
    <3>1. \E key : Take(p, key)
      BY <2>4, Zenon DEF TakeClose, TakeAccept, TakeRead
    <3>2. pc[p] = "wait" /\ Head(port) = port[1] /\ 1 \in 1..Len(port)
      BY <2>4, <3>1, HeadTyped DEF Take
    <3>3. /\ port[1].key = "acc" /\ port[1].ok => accOv # None /\ sock'[accOv] # None
          /\ port[1].key = "client" => port[1].slot # None /\ sock'[port[1].slot] # None
      BY <1>0, <3>2, Subjects DEF Linked, AccDone, TypeOK
    <3>4. CASE TakeClose(p)
      BY <1>10, <2>1, <3>2, <3>4 DEF TakeClose, Goto, Busy
    <3>5. CASE TakeAccept(p)
      <4>1. \/ UNCHANGED <<pc, cur>>
            \/ port[1].key = "acc" /\ port[1].ok /\ cur' = [cur EXCEPT ![p] = accOv]
        BY <3>2, <3>5 DEF TakeAccept, Take
      <4>2. QED
        BY <1>10, <2>1, <3>2, <3>3, <4>1 DEF Busy
    <3>6. CASE TakeRead(p)
      <4>1. port[1].key = "client" /\ cur' = [cur EXCEPT ![p] = port[1].slot]
        BY <3>2, <3>6, Zenon DEF TakeRead, Take
      <4>2. QED
        BY <2>1, <3>3, <4>1
    <3>7. QED
      BY <2>4, <3>4, <3>5, <3>6
  <2>5. CASE p = Main /\ \E c \in Slots : Close(c)
    <3>1. PICK c \in Slots : Close(c)
      BY <2>5
    <3>2. c # None /\ sock'[c] # None /\ cur' = [cur EXCEPT ![Main] = c]
      BY <1>0, <3>1, Subjects DEF Close, Linked
    <3>3. QED
      BY <2>1, <2>5, <3>2
  <2>6. CASE p = Main /\ (BeginListen \/ EndListen \/ ClearCallback \/ Destroy
                  \/ DestroySocket \/ Join)
    BY <1>10, <2>1, <2>6 DEF BeginListen, EndListen, ClearCallback, Destroy, DestroySocket, Join,
                             Goto, Busy
  <2>7. CASE pc'[p] = pc[p] /\ cur'[p] = cur[p]
    BY <1>10, <2>2, <2>7
  <2>8. QED
    BY <2>3, <2>4, <2>5, <2>6, <2>7, WhoMoves, Zenon
<1>11. pc'[Main] = "socks" => cur'[Main] # None
  <2>0. Main \in Procs
    BY DEF Procs
  <2>1. pc'[Main] = "socks" => \/ pc'[Main] = pc[Main] /\ cur'[Main] = cur[Main]
                               \/ Destroy \/ DestroySocket
    <3>1. ASSUME NEW x, x # "socks", pc' = [pc EXCEPT ![Main] = x] PROVE pc'[Main] # "socks"
      BY <2>0, <3>1 DEF TypeOK
    <3>2. Step(Main) => pc'[Main] # "socks"
      <4>1. back[Main] # "socks" /\ Home(Main) # "socks"
        BY <2>0 DEF TypeOK, Home
      <4>2. ASSUME Step(Main) PROVE \E x : x # "socks" /\ pc' = [pc EXCEPT ![Main] = x]
        BY <4>1, <4>2 DEF Step, Goto, TakeSlot, SocketFails, NoFreeSlot, AcceptAtOnce,
             AcceptPending, AcceptFails, HandleAccept, Tell, ReadPending, ReadAtOnce, ReadFails,
             Deliver, EndClient, FreeEntry
      <4>3. QED
        BY <3>1, <4>2
    <3>3. (\E c \in Slots : Close(c)) \/ BeginListen \/ EndListen \/ ClearCallback \/ Join =>
              pc'[Main] # "socks"
      BY <3>1 DEF Close, BeginListen, EndListen, ClearCallback, Join, Goto
    <3>4. QED
      BY <2>0, <3>2, <3>3, WhoMoves, ThreadsAssumption, Zenon
  <2>3. Destroy => cur'[Main] = 1
    BY <2>0 DEF Destroy, TypeOK
  <2>4. DestroySocket => cur'[Main] = cur[Main] \/ cur'[Main] = cur[Main] + 1
    BY <2>0 DEF DestroySocket, TypeOK
  <2>5. DestroySocket => cur[Main] \in Slots
    BY Subjects DEF DestroySocket
  <2>6. pc[Main] = "socks" => cur[Main] # None
    BY DEF Linked
  <2>7. QED
    BY <2>0, <2>1, <2>3, <2>4, <2>5, <2>6 DEF Slots, None
<1>12. \A c \in user' : sock'[c] # None
  <2>1. \/ UNCHANGED user
        \/ \E p \in Procs : Tell(p) \/ EndClient(p)
        \/ \E c \in Slots : Close(c)
    BY WhoChanges, Zenon
  <2>2. \/ user' \subseteq user
        \/ \E p \in Procs : pc[p] \in Busy /\ user' = user \cup {cur[p]}
    BY <2>1 DEF Tell, EndClient, Close, Busy
  <2>3. \A p \in Procs : pc[p] \in Busy => sock'[cur[p]] # None
    BY <1>0, Subjects DEF Linked
  <2>4. \A c \in user : sock'[c] # None
    BY <1>0, Subjects DEF Linked
  <2>5. QED
    BY <2>2, <2>3, <2>4
<1>13. QED
  BY <1>1, <1>2, <1>3, <1>4, <1>5, <1>7, <1>8, <1>9, <1>10, <1>11, <1>12, Zenon
     DEF Linked, AccDone

Ending == {"socks", "join", "done"}

LEMMA MainMoves ==
    ASSUME TypeOK, Next
    PROVE  \/ pc[Main] \notin Ending /\ pc'[Main] \notin Ending
           \/ pc[Main] \notin Ending /\ pc'[Main] = "socks" /\ Destroy
           \/ /\ pc[Main] \in Ending /\ pc'[Main] \in Ending
              /\ pc'[Main] \in {"socks", "join"} => pc[Main] \in {"socks", "join"}
<1>1. Main \in Procs /\ Main \notin Threads /\ pc \in [Procs -> Labels]
  BY DEF Procs, TypeOK
<1>2. ASSUME NEW x, pc' = [pc EXCEPT ![Main] = x] PROVE pc'[Main] = x
  BY <1>1, <1>2
<1>3. Step(Main) => pc[Main] \notin Ending /\ pc'[Main] \notin Ending
  <2>1. back[Main] \notin Ending /\ Home(Main) \notin Ending
    BY <1>1 DEF TypeOK, Home, Ending
  <2>2. ASSUME Step(Main)
        PROVE  pc[Main] \notin Ending /\ \E x : x \notin Ending /\ pc' = [pc EXCEPT ![Main] = x]
    BY <2>1, <2>2 DEF Step, Goto, TakeSlot, SocketFails, NoFreeSlot, AcceptAtOnce,
         AcceptPending, AcceptFails, HandleAccept, Tell, ReadPending, ReadAtOnce, ReadFails,
         Deliver, EndClient, FreeEntry, Ending
  <2>3. QED
    BY <1>2, <2>2
<1>4. (\E c \in Slots : Close(c)) \/ BeginListen \/ EndListen \/ ClearCallback =>
          pc[Main] \notin Ending /\ pc'[Main] \notin Ending
  BY <1>2 DEF Close, BeginListen, EndListen, ClearCallback, Goto, Ending
<1>5. Destroy => pc[Main] \notin Ending /\ pc'[Main] = "socks"
  BY <1>2 DEF Destroy, Goto, Ending
<1>6. DestroySocket => pc[Main] = "socks" /\ pc'[Main] \in {"socks", "join"}
  BY <1>2 DEF DestroySocket, Goto
<1>7. Join => pc[Main] = "join" /\ pc'[Main] = "done"
  BY <1>2 DEF Join, Goto
<1>8. \/ Step(Main) \/ (\E c \in Slots : Close(c)) \/ BeginListen \/ EndListen \/ ClearCallback
      \/ Destroy \/ DestroySocket \/ Join \/ pc'[Main] = pc[Main]
  BY <1>1, WhoMoves, Zenon
<1>9. QED
  BY <1>3, <1>4, <1>5, <1>6, <1>7, <1>8 DEF Ending

LEMMA PhasesStep == ASSUME CoreInv, Next PROVE Phases'
<1> USE DEF CoreInv
<1>1. Main \in Procs
  BY DEF Procs
<1>2. pc'[Main] \in {"socks", "join", "done"} => ~listening'
  <2>1. pc'[Main] \in {"socks", "join", "done"} =>
            pc[Main] \in {"socks", "join", "done"} \/ Destroy
    BY MainMoves DEF Ending
  <2>2. UNCHANGED listening \/ BeginListen \/ EndListen \/ Destroy
    BY WhoChanges, Zenon
  <2>3. EndListen \/ Destroy => ~listening'
    BY DEF EndListen, Destroy, StopListening
  <2>4. BeginListen => pc'[Main] = "start"
    BY <1>1 DEF BeginListen, Goto, TypeOK
  <2>5. CASE UNCHANGED listening
    BY <2>1, <2>3, <2>5, Zenon DEF Phases
  <2>6. QED
    BY <2>2, <2>3, <2>4, <2>5
<1>3. ~listening' => accepts' = {}
  <2>1. \/ accepts' = accepts \/ accepts' = {}
        \/ \E s : accepts' = accepts \ {s}
        \/ listening /\ UNCHANGED listening
    <3>1. \/ UNCHANGED accepts
          \/ \E p \in Procs : AcceptPending(p) \/ EndClient(p)
          \/ \E c \in Slots : Close(c)
          \/ EndListen \/ Destroy \/ DestroySocket \/ CompleteAccept \/ BreakAccept
      BY WhoChanges, Zenon
    <3>2. QED
      BY <3>1 DEF AcceptPending, EndClient, Close, EndListen, Destroy, StopListening,
                  DestroySocket, CompleteAccept, BreakAccept, CloseSocket, accVars
  <2>2. UNCHANGED listening \/ BeginListen \/ EndListen \/ Destroy
    BY WhoChanges, Zenon
  <2>3. EndListen \/ Destroy => accepts' = {}
    BY DEF EndListen, Destroy, StopListening
  <2>4. BeginListen => listening'
    BY DEF BeginListen
  <2>5. ~listening => accepts = {}
    BY DEF Phases
  <2>6. QED
    BY <2>1, <2>2, <2>3, <2>4, <2>5
<1>4. QED
  BY <1>2, <1>3 DEF Phases

LEMMA CoreStutter == CoreInv /\ UNCHANGED vars => CoreInv'
<1> SUFFICES ASSUME CoreInv, UNCHANGED vars PROVE CoreInv'
  OBVIOUS
<1> USE DEF CoreInv, vars, slotVars, connVars, accVars, procVars, histVars
<1>1. TypeOK'
  BY DEF TypeOK
<1>2. Linked'
  BY DEF Linked, AccDone
<1>3. Phases'
  BY DEF Phases
<1>4. QED
  BY <1>1, <1>2, <1>3

LEMMA CoreCorrect == Spec => []CoreInv
<1>1. Init => CoreInv
  BY TypeInit, LinkedInit DEF CoreInv, Phases, Init, Procs
<1>2. CoreInv /\ [Next]_vars => CoreInv'
  BY TypeStep, LinkedStep, PhasesStep, CoreStutter DEF CoreInv
<1>3. QED
  BY <1>1, <1>2, PTL DEF Spec

\* The server's state keeps its types: whatever is read, completed, handed on or
\* freed belongs to a slot and a socket that there are.
THEOREM TypeCorrect == Spec => []TypeOK
BY CoreCorrect, PTL DEF CoreInv
-----------------------------------------------------------------------------
(* The end of the threads. *)

NotDone == {t \in Threads : pc[t] # "done"}

LEMMA DoneStays ==
    ASSUME TypeOK, Next, NEW t \in Threads
    PROVE  \/ TakeClose(t) /\ pc[t] # "done" /\ pc'[t] = "done"
           \/ pc[t] = "done" <=> pc'[t] = "done"
<1>1. t \in Procs /\ t # Main /\ pc \in [Procs -> Labels]
  BY DEF Procs, TypeOK
<1>2. ASSUME NEW x, pc' = [pc EXCEPT ![t] = x] PROVE pc'[t] = x
  BY <1>1, <1>2
<1>3. Step(t) => pc[t] # "done" /\ pc'[t] # "done"
  <2>1. back[t] # "done" /\ Home(t) # "done"
    BY <1>1 DEF TypeOK, Home
  <2>2. ASSUME Step(t)
        PROVE  pc[t] # "done" /\ \E x : x # "done" /\ pc' = [pc EXCEPT ![t] = x]
    BY <2>1, <2>2 DEF Step, Goto, TakeSlot, SocketFails, NoFreeSlot, AcceptAtOnce,
         AcceptPending, AcceptFails, HandleAccept, Tell, ReadPending, ReadAtOnce, ReadFails,
         Deliver, EndClient, FreeEntry
  <2>3. QED
    BY <1>2, <2>2
<1>4. TakeClose(t) => pc[t] # "done" /\ pc'[t] = "done"
  BY <1>2 DEF TakeClose, Take, Goto
<1>5. TakeAccept(t) => pc[t] # "done" /\ pc'[t] # "done"
  BY <1>2 DEF TakeAccept, Take, Goto
<1>6. TakeRead(t) => pc[t] # "done" /\ pc'[t] # "done"
  BY <1>2 DEF TakeRead, Take, Goto
<1>7. Step(t) \/ TakeClose(t) \/ TakeAccept(t) \/ TakeRead(t) \/ pc'[t] = pc[t]
  BY <1>1, WhoMoves, Zenon
<1>8. QED
  BY <1>3, <1>4, <1>5, <1>6, <1>7

\* What is taken from the front of the port is one less to close down, or none.
LEMMA ClosingTaken ==
    ASSUME TypeOK, Linked, NEW t \in Threads, NEW key, Take(t, key)
    PROVE  /\ IsFiniteSet(Closing(port))
           /\ IsFiniteSet(Closing(port)')
           /\ key = "close" => Cardinality(Closing(port)') = Cardinality(Closing(port)) - 1
           /\ key # "close" => Cardinality(Closing(port)') = Cardinality(Closing(port))
           /\ Closing(port) = {} => key # "close" /\ Closing(port)' = {}
<1>1. /\ port \in Seq(Completions) /\ port' \in Seq(Completions)
      /\ 1 \in 1..Len(port) /\ port[1].key = key
      /\ Len(port') = Len(port) - 1
      /\ \A k \in 1..Len(port') : k + 1 \in 1..Len(port) /\ k + 1 # 1 /\ port'[k] = port[k + 1]
  BY HeadTyped
<1> DEFINE A == Closing(port) \ {1}
           B == Closing(port)'
           n == Len(port)
<1>2. n \in Nat /\ Closing(port) = {k \in 1..n : port[k].key = "close"}
  BY <1>1 DEF Closing
<1>3. B = {k \in 1..(n - 1) : port[k + 1].key = "close"}
  BY <1>1 DEF Closing
<1>4. IsFiniteSet(Closing(port)) /\ IsFiniteSet(A)
  <2>1. Closing(port) \subseteq 1..n /\ A \subseteq 1..n
    BY <1>2
  <2>2. IsFiniteSet(1..n)
    BY <1>2, FS_Interval
  <2>3. QED
    BY <2>1, <2>2, FS_Subset
<1>5. A = {k \in 2..n : port[k].key = "close"}
  BY <1>2
<1> DEFINE f == [k \in A |-> k - 1]
<1> HIDE DEF A, B, n
<1>6. f \in Bijection(A, B)
  <2>1. \A k \in A : k - 1 \in B /\ k \in Int
    BY <1>2, <1>3, <1>5
  <2>2. \A j, k \in A : j - 1 = k - 1 => j = k
    BY <2>1
  <2>3. \A k \in B : k + 1 \in A /\ (k + 1) - 1 = k
    BY <1>2, <1>3, <1>5
  <2>4. f \in [A -> B]
    BY <2>1
  <2>5. \A j, k \in A : f[j] = f[k] => j = k
    BY <2>2
  <2>6. \A k \in B : \E j \in A : f[j] = k
    BY <2>3
  <2> HIDE DEF f
  <2>7. f \in Injection(A, B)
    BY <2>4, <2>5 DEF Injection, IsInjective
  <2>8. f \in Surjection(A, B)
    BY <2>4, <2>6 DEF Surjection
  <2>9. QED
    BY <2>7, <2>8, Zenon DEF Bijection
<1>7. IsFiniteSet(B) /\ Cardinality(B) = Cardinality(A)
  BY <1>4, <1>6, FS_Bijection, Zenon DEF ExistsBijection
<1>8. CASE key = "close"
  <2>1. 1 \in Closing(port)
    BY <1>1, <1>8 DEF Closing
  <2>2. Cardinality(A) = Cardinality(Closing(port)) - 1
    BY <1>4, <2>1, FS_RemoveElement DEF A
  <2>3. QED
    BY <1>4, <1>7, <1>8, <2>1, <2>2 DEF B
<1>9. CASE key # "close"
  <2>1. 1 \notin Closing(port)
    BY <1>1, <1>9 DEF Closing
  <2>2. A = Closing(port)
    BY <2>1 DEF A
  <2>3. Closing(port) = {} => B = {}
    <3>1. Cardinality(Closing(port)) = 0 => B = {}
      BY <1>7, <2>2, FS_EmptySet
    <3>2. QED
      BY <3>1, FS_EmptySet
  <2>4. QED
    BY <1>4, <1>7, <1>9, <2>2, <2>3 DEF B
<1>10. QED
  BY <1>8, <1>9

LEMMA ClosingPosted ==
    ASSUME CoreInv, Destroy
    PROVE  Closing(port) = {} =>
               IsFiniteSet(Closing(port)') /\ Cardinality(Closing(port)') = Cardinality(Threads)
<1> DEFINE n == Cardinality(Threads)
           m == Len(port)
<1>1. /\ n \in Nat /\ port' \in Seq(Completions) /\ m + n <= Len(port')
      /\ \A k \in 1..m : port'[k] = port[k]
      /\ \A k \in 1..Len(port') : k \notin 1..m =>
            \/ port'[k].key = "close" /\ k <= m + n
            \/ port'[k].key = "acc" /\ ~(k <= m + n)
  BY Destroys DEF CoreInv
<1>2. port \in Seq(Completions) /\ m \in Nat
  BY DEF CoreInv, TypeOK
<1>3. ASSUME Closing(port) = {} PROVE Closing(port)' = (m + 1)..(m + n)
  <2>1. \A k \in 1..m : port[k].key # "close"
    BY <1>2, <1>3 DEF Closing
  <2>2. Closing(port)' = {k \in 1..Len(port') : port'[k].key = "close"}
    BY <1>1 DEF Closing
  <2>3. Len(port') \in Nat
    BY <1>1
  <2> HIDE DEF n, m
  <2>4. ASSUME NEW k \in (m + 1)..(m + n) PROVE k \in Closing(port)'
    <3>1. k \in 1..Len(port') /\ k \notin 1..m /\ k <= m + n
      BY <1>1, <1>2, <2>3
    <3>2. QED
      BY <1>1, <2>2, <3>1
  <2>5. ASSUME NEW k \in Closing(port)' PROVE k \in (m + 1)..(m + n)
    <3>1. k \in 1..Len(port') /\ port'[k].key = "close"
      BY <2>2
    <3>2. k \notin 1..m
      BY <1>1, <2>1, <3>1
    <3>3. k <= m + n
      BY <1>1, <3>1, <3>2
    <3>4. QED
      BY <1>1, <1>2, <2>3, <3>1, <3>2, <3>3
  <2>6. QED
    BY <2>4, <2>5
<1>4. IsFiniteSet((m + 1)..(m + n)) /\ Cardinality((m + 1)..(m + n)) = n
  <2> HIDE DEF n, m
  <2>1. m + 1 \in Int /\ m + n \in Int
    BY <1>1, <1>2
  <2>2. /\ IsFiniteSet((m + 1)..(m + n))
        /\ Cardinality((m + 1)..(m + n)) = IF m + 1 > m + n THEN 0 ELSE (m + n) - (m + 1) + 1
    BY <2>1, FS_Interval
  <2>3. QED
    BY <1>1, <1>2, <2>2
<1>5. QED
  BY <1>3, <1>4

LEMMA EndStep == ASSUME CoreInv, EndInv, Next PROVE EndInv'
<1> USE DEF CoreInv
<1>1. CASE Destroy
  <2>1. pc[Main] \notin Ending /\ pc'[Main] = "socks"
    BY <1>1 DEF Destroy, Goto, Ending, TypeOK, Procs
  <2>2. Closing(port) = {} /\ \A t \in Threads : pc[t] # "done"
    BY <2>1 DEF EndInv, Ending
  <2>3. \A t \in Threads : pc'[t] = pc[t]
    BY <1>1 DEF Destroy, Goto, Procs, TypeOK
  <2>4. NotDone' = Threads
    BY <2>2, <2>3 DEF NotDone
  <2>5. Cardinality(Closing(port)') = Cardinality(NotDone')
    BY <1>1, <2>2, <2>4, ClosingPosted
  <2>6. QED
    BY <2>1, <2>5 DEF EndInv, ThreadsWillEnd, Closing, NotDone
<1>2. CASE \E t \in Threads : TakeClose(t)
  <2>1. PICK t \in Threads : TakeClose(t)
    BY <1>2
  <2>2. /\ IsFiniteSet(Closing(port)) /\ Closing(port) # {}
        /\ Cardinality(Closing(port)') = Cardinality(Closing(port)) - 1
    BY <2>1, ClosingTaken DEF TakeClose
  <2>3. pc[t] = "wait" /\ pc' = [pc EXCEPT ![t] = "done"] /\ t \in Procs /\ t # Main
        /\ Main \in Procs
    BY <2>1 DEF TakeClose, Take, Goto, Procs
  <2>4. pc'[Main] = pc[Main] /\ NotDone' = NotDone \ {t} /\ t \in NotDone
    BY <2>3 DEF NotDone, TypeOK, Procs
  <2>5. IsFiniteSet(NotDone)
    BY FS_Subset DEF NotDone
  <2>6. Cardinality(NotDone') = Cardinality(NotDone) - 1
    BY <2>4, <2>5, FS_RemoveElement
  <2>7. pc[Main] \in Ending
    BY <2>2 DEF EndInv, Ending
  <2>8. pc[Main] \in {"socks", "join"} => Cardinality(Closing(port)) = Cardinality(NotDone)
    BY DEF EndInv, ThreadsWillEnd, Closing, NotDone
  <2>9. pc'[Main] \in {"socks", "join"} => Cardinality(Closing(port)') = Cardinality(NotDone')
    BY <2>2, <2>4, <2>6, <2>8
  <2>10. QED
    BY <2>4, <2>7, <2>9 DEF EndInv, ThreadsWillEnd, Closing, NotDone, Ending
<1>3. CASE ~Destroy /\ ~\E t \in Threads : TakeClose(t)
  <2>1. NotDone' = NotDone
    <3>1. \A t \in Threads : pc[t] = "done" <=> pc'[t] = "done"
      BY <1>3, DoneStays
    <3>2. QED
      BY <3>1 DEF NotDone
  <2>2. /\ Cardinality(Closing(port)') = Cardinality(Closing(port))
        /\ Closing(port) = {} => Closing(port)' = {}
    <3>1. CASE UNCHANGED port
      BY <3>1 DEF Closing
    <3>2. CASE \E t \in Threads : TakeAccept(t) \/ TakeRead(t)
      <4>1. PICK t \in Threads : Take(t, "acc") \/ Take(t, "client")
        BY <3>2 DEF TakeAccept, TakeRead
      <4>2. QED
        BY <4>1, ClosingTaken
    <3>3. CASE /\ \A k \in 1..Len(port) : k \in 1..Len(port') /\ port'[k] = port[k]
               /\ \A k \in 1..Len(port') : k \in 1..Len(port) \/ Posting(k)
      <4>1. \A k \in 1..Len(port') : k \in 1..Len(port) \/ port'[k].key # "close"
        BY <1>3, <3>3 DEF Posting
      <4>2. DOMAIN port = 1..Len(port) /\ DOMAIN port' = 1..Len(port')
        BY TypeStep DEF TypeOK
      <4>3. Closing(port)' = Closing(port)
        BY <3>3, <4>1, <4>2 DEF Closing
      <4>4. QED
        BY <4>3
    <3>4. QED
      BY <1>3, <3>1, <3>2, <3>3, PortStep, Zenon
  <2>3. \/ pc[Main] \notin Ending /\ pc'[Main] \notin Ending
        \/ /\ pc[Main] \in Ending /\ pc'[Main] \in Ending
           /\ pc'[Main] \in {"socks", "join"} => pc[Main] \in {"socks", "join"}
    BY <1>3, MainMoves, Zenon
  <2>4. pc[Main] \in {"socks", "join"} => Cardinality(Closing(port)) = Cardinality(NotDone)
    BY DEF EndInv, ThreadsWillEnd, Closing, NotDone
  <2>5. pc[Main] \notin Ending => Closing(port) = {} /\ \A t \in Threads : pc[t] # "done"
    BY DEF EndInv, Ending
  <2>6. pc'[Main] \in {"socks", "join"} => Cardinality(Closing(port)') = Cardinality(NotDone')
    BY <2>1, <2>2, <2>3, <2>4 DEF Ending
  <2>7. pc'[Main] \notin Ending => Closing(port)' = {} /\ \A t \in Threads : pc'[t] # "done"
    BY <2>1, <2>2, <2>3, <2>5 DEF NotDone
  <2>8. QED
    BY <2>6, <2>7 DEF EndInv, ThreadsWillEnd, Closing, NotDone, Ending
<1>4. QED
  BY <1>1, <1>2, <1>3

LEMMA EndInductive == Spec => []EndInv
<1>1. Init => EndInv
  BY DEF Init, EndInv, ThreadsWillEnd, Closing, Procs
<1>2. EndInv /\ UNCHANGED vars => EndInv'
  BY DEF EndInv, ThreadsWillEnd, Closing, vars
<1>3. CoreInv /\ EndInv /\ [Next]_vars => EndInv'
  BY <1>2, EndStep
<1>4. QED
  BY <1>1, <1>3, CoreCorrect, PTL DEF Spec

\* While the destructor waits there is a completion that ends a thread for each
\* thread that goes on, whatever happened before.
THEOREM EndCorrect == Spec => []ThreadsWillEnd
BY EndInductive, PTL DEF EndInv
-----------------------------------------------------------------------------
(* Completions of a kind, in the port. *)

\* What is not at the front stays in the port.
LEMMA AtTaken ==
    ASSUME TypeOK, Linked, NEW t \in Threads, NEW key, Take(t, key), NEW E, Single(At(E))
    PROVE  /\ Single(At(E)')
           /\ At(E) = {} => At(E)' = {}
           /\ port[1] \in E => At(E) # {} /\ At(E)' = {}
           /\ port[1] \notin E /\ At(E) # {} => At(E)' # {}
<1>1. /\ 1 \in 1..Len(port) /\ Len(port) \in Nat /\ Len(port') = Len(port) - 1
      /\ \A k \in 1..Len(port') : k + 1 \in 1..Len(port) /\ k + 1 # 1 /\ port'[k] = port[k + 1]
  BY HeadTyped
<1>2. \A k \in At(E)' : k \in Int /\ k + 1 \in At(E) /\ k + 1 # 1
  BY <1>1 DEF At
<1>3. Single(At(E)')
  BY <1>2 DEF Single
<1>4. port[1] \in E => 1 \in At(E)
  BY <1>1 DEF At
<1>5. ASSUME NEW k \in At(E), k # 1 PROVE k - 1 \in At(E)'
  <2>1. k \in 1..Len(port) /\ port[k] \in E
    BY DEF At
  <2>2. k - 1 \in 1..Len(port') /\ (k - 1) + 1 = k
    BY <1>1, <1>5, <2>1
  <2>3. port'[k - 1] = port[k]
    BY <1>1, <2>2
  <2>4. QED
    BY <2>1, <2>2, <2>3 DEF At
<1>6. 1 \in At(E) => port[1] \in E
  BY DEF At
<1>7. QED
  BY <1>2, <1>3, <1>4, <1>5, <1>6 DEF Single

LEMMA AtStep ==
    ASSUME TypeOK, Linked, Next, NEW E
    PROVE  \/ At(E)' = At(E)
           \/ \E t \in Threads : TakeClose(t) \/ TakeAccept(t) \/ TakeRead(t)
           \/ \E k \in 1..Len(port') : port'[k] \in E /\ Posting(k)
<1>1. CASE UNCHANGED port
  BY <1>1 DEF At
<1>2. CASE /\ \A k \in 1..Len(port) : k \in 1..Len(port') /\ port'[k] = port[k]
           /\ \A k \in 1..Len(port') : k \in 1..Len(port) \/ Posting(k)
  BY <1>2 DEF At
<1>3. QED
  BY <1>1, <1>2, PortStep, Zenon

\* A completion more, behind the others.
LEMMA AtPosted ==
    ASSUME TypeOK, NEW e \in Completions, port' = Append(port, e), NEW E
    PROVE  /\ e \in E => At(E)' = At(E) \cup {Len(port) + 1}
           /\ e \notin E => At(E)' = At(E)
           /\ Len(port) + 1 \notin At(E)
<1>1. /\ Len(port') = Len(port) + 1
      /\ \A k \in 1..Len(port) : k # Len(port) + 1 /\ port'[k] = port[k]
      /\ port'[Len(port) + 1] = e /\ Len(port) + 1 \in 1..Len(port')
      /\ \A k \in 1..Len(port') : k \in 1..Len(port) \/ k = Len(port) + 1
  BY Posts
<1>2. Len(port) \in Nat
  BY DEF TypeOK
<1>3. \A k \in 1..Len(port) : k \in 1..Len(port')
  BY <1>1, <1>2
<1>4. QED
  BY <1>1, <1>3 DEF At

-----------------------------------------------------------------------------
(* Where a piece of data is. *)

\* How the places change as long as no call is over at once.
LEMMA QuickStays ==
    ASSUME TypeOK, Next, NoQuick'
    PROVE  NoQuick /\ \A p \in Procs : ~AcceptAtOnce(p) /\ ~ReadAtOnce(p)
<1>1. odd \in Seq({"socket", "quick", "close"})
  BY DEF TypeOK
<1>2. ASSUME NEW what \in {"socket", "quick", "close"}, Unusual(what)
      PROVE  what # "quick" /\ NoQuick
  <2>1. odd' = Append(odd, what)
    BY <1>2 DEF Unusual
  <2>2. /\ DOMAIN odd' = 1..(Len(odd) + 1) /\ DOMAIN odd = 1..Len(odd)
        /\ odd'[Len(odd) + 1] = what /\ Len(odd) + 1 \in DOMAIN odd'
        /\ \A k \in DOMAIN odd : k \in DOMAIN odd' /\ odd'[k] = odd[k]
    BY <1>1, <2>1
  <2>3. QED
    BY <2>2 DEF NoQuick
<1>3. UNCHANGED odd \/ \E what \in {"socket", "quick", "close"} : Unusual(what)
  BY WhoChanges, Zenon DEF SocketFails, AcceptAtOnce, ReadAtOnce, Close
<1>4. NoQuick
  BY <1>2, <1>3 DEF NoQuick
<1>5. ~Unusual("quick")
  BY <1>2
<1>6. QED
  BY <1>4, <1>5 DEF AcceptAtOnce, ReadAtOnce

LEMMA HandStep ==
    ASSUME TypeOK, Next, NoQuick', NEW d, NEW p \in InHand(d)'
    PROVE  \/ p \in InHand(d) /\ ~Deliver(p)
           \/ p \in Threads /\ TakeRead(p) /\ d \in port[1].data
<1>1. p \in Procs /\ pc'[p] = "deliver" /\ d \in data'[p] /\ pc \in [Procs -> Labels]
  BY DEF InHand, TypeOK
<1>2. ASSUME NEW x, pc' = [pc EXCEPT ![p] = x] PROVE x = "deliver"
  BY <1>1, <1>2
<1>3. ~Step(p)
  <2>1. back[p] # "deliver" /\ Home(p) # "deliver"
    BY <1>1 DEF TypeOK, Home
  <2>2. ~ReadAtOnce(p)
    BY <1>1, QuickStays
  <2>3. Step(p) => \E x : x # "deliver" /\ pc' = [pc EXCEPT ![p] = x]
    BY <2>1, <2>2 DEF Step, Goto, TakeSlot, SocketFails, NoFreeSlot, AcceptAtOnce,
         AcceptPending, AcceptFails, HandleAccept, Tell, ReadPending, ReadFails,
         Deliver, EndClient, FreeEntry
  <2>4. QED
    BY <1>2, <2>3
<1>4. ~TakeClose(p)
  BY <1>2 DEF TakeClose, Goto
<1>5. CASE TakeAccept(p)
  <2>1. pc[p] = "wait"
    BY <1>5 DEF TakeAccept, Take
  <2>2. QED
    BY <1>1, <1>2, <1>5, <2>1 DEF TakeAccept, Goto
<1>6. CASE p = Main
  <2>1. /\ ~BeginListen /\ ~EndListen /\ ~ClearCallback /\ ~Destroy /\ ~Join
        /\ \A c \in Slots : ~Close(c)
    BY <1>2, <1>6 DEF BeginListen, EndListen, ClearCallback, Destroy, Join, Close, Goto
  <2>2. ~DestroySocket
    BY <1>1, <1>2, <1>6 DEF DestroySocket, Goto
  <2>3. pc'[p] = pc[p] /\ data'[p] = data[p]
    BY <1>1, <1>3, <1>6, <2>1, <2>2, WhoMoves, ThreadsAssumption, Zenon
  <2>4. QED
    BY <1>1, <1>3, <2>3 DEF InHand, Step
<1>7. CASE pc'[p] = pc[p] /\ data'[p] = data[p]
  BY <1>1, <1>3, <1>7 DEF InHand, Step
<1>8. CASE p \in Threads /\ TakeRead(p)
  <2>1. data' = [data EXCEPT ![p] = Head(port).data] /\ port # <<>>
    BY <1>8 DEF TakeRead, Take
  <2>2. Head(port) = port[1]
    BY <2>1, Tailed DEF TypeOK
  <2>3. QED
    BY <1>1, <1>8, <2>1, <2>2 DEF TypeOK
<1>9. QED
  BY <1>1, <1>3, <1>4, <1>5, <1>6, <1>7, <1>8, WhoMoves, Zenon

LEMMA WithStep ==
    ASSUME TypeOK, Linked, Next, NoQuick', NEW d, Single(At(With(d)))
    PROVE  \/ Single(At(With(d))') /\ (At(With(d)) = {} => At(With(d))' = {})
           \/ \E s \in Socks : CompleteRead(s) /\ d \in unread[s]
<1>1. CASE At(With(d))' = At(With(d))
  BY <1>1
<1>2. CASE \E t \in Threads : \E key : Take(t, key)
  BY <1>2, AtTaken
<1>3. CASE \E k \in 1..Len(port') : port'[k] \in With(d) /\ Posting(k)
  BY <1>3, QuickStays DEF Posting, With
<1>4. QED
  BY <1>1, <1>2, <1>3, AtStep, Zenon DEF TakeClose, TakeAccept, TakeRead

LEMMA WaitingStep ==
    ASSUME TypeOK, Linked, Next, NoQuick', NEW d
    PROVE  \/ Waiting(d)' \subseteq Waiting(d)
           \/ \E s \in Socks : PeerSends(s) /\ d = sent' /\ Waiting(d)' \subseteq Waiting(d) \cup {s}
<1>1. unread \in [Socks -> SUBSET Pieces]
  BY DEF TypeOK
<1>2. \/ UNCHANGED unread
      \/ \E s \in Socks : unread' = [unread EXCEPT ![s] = {}]
      \/ \E s \in Socks : PeerSends(s)
  <2>1. \/ UNCHANGED unread
        \/ \E p \in Procs : ReadAtOnce(p) \/ EndClient(p)
        \/ \E s \in Socks : PeerSends(s) \/ CompleteRead(s)
        \/ \E c \in Slots : Close(c)
        \/ DestroySocket
    BY WhoChanges, Zenon
  <2>2. \A p \in Procs : ~ReadAtOnce(p)
    BY QuickStays
  <2>3. QED
    BY <2>1, <2>2, ClosingSocks
       DEF EndClient, CompleteRead, Close, DestroySocket, CloseSocket, connVars
<1>3. CASE UNCHANGED unread \/ \E s \in Socks : unread' = [unread EXCEPT ![s] = {}]
  BY <1>1, <1>3 DEF Waiting
<1>4. CASE \E s \in Socks : PeerSends(s)
  <2>1. PICK s \in Socks : PeerSends(s)
    BY <1>4
  <2>2. unread' = [unread EXCEPT ![s] = unread[s] \cup {sent'}]
    BY <2>1 DEF PeerSends
  <2>3. \A t \in Socks : d \in unread'[t] => d \in unread[t] \/ (t = s /\ d = sent')
    BY <1>1, <2>2
  <2>4. QED
    BY <2>1, <2>3 DEF Waiting
<1>5. QED
  BY <1>2, <1>3, <1>4

LEMMA HeardStep ==
    ASSUME TypeOK, Next, NEW d \in Pieces
    PROVE  \/ heard'[d] = heard[d]
           \/ /\ \E p \in InHand(d) : Deliver(p)
              /\ heard'[d] = heard[d] + 1
<1>1. CASE UNCHANGED heard
  BY <1>1
<1>2. CASE \E p \in Procs : Deliver(p)
  BY <1>2 DEF Deliver, InHand
<1>3. QED
  BY <1>1, <1>2, WhoChanges, Zenon

LEMMA DataStep == ASSUME CoreInv, DataInv, Next PROVE DataInv'
<1> USE DEF CoreInv
<1> SUFFICES ASSUME NoQuick', NEW d \in Pieces
             PROVE  /\ Single(Waiting(d)') /\ Single(At(With(d))') /\ Single(InHand(d)')
                    /\ Waiting(d)' = {} \/ At(With(d))' = {}
                    /\ Waiting(d)' = {} \/ InHand(d)' = {}
                    /\ At(With(d))' = {} \/ InHand(d)' = {}
                    /\ Waiting(d)' # {} \/ At(With(d))' # {} \/ InHand(d)' # {} =>
                           heard'[d] = 0 /\ d <= sent'
                    /\ heard'[d] \in {0, 1} /\ (heard'[d] = 1 => d <= sent')
  BY Zenon DEF DataInv, Single
<1> DEFINE W == Waiting(d)
           C == At(With(d))
           H == InHand(d)
<1>1. /\ Single(W) /\ Single(C) /\ Single(H)
      /\ W = {} \/ C = {}
      /\ W = {} \/ H = {}
      /\ C = {} \/ H = {}
      /\ W # {} \/ C # {} \/ H # {} => heard[d] = 0 /\ d <= sent
      /\ heard[d] \in {0, 1} /\ (heard[d] = 1 => d <= sent)
  BY QuickStays, Zenon DEF DataInv
<1>2. /\ d \in Nat /\ sent \in Nat /\ sent' \in Nat /\ sent <= sent'
      /\ UNCHANGED sent \/ \E s \in Socks : PeerSends(s)
  <2>1. UNCHANGED sent \/ \E s \in Socks : PeerSends(s)
    BY WhoChanges, Zenon
  <2>2. sent' = sent \/ sent' = sent + 1
    BY <2>1 DEF PeerSends
  <2>3. d \in Nat /\ sent \in Nat
    BY DEF TypeOK, Pieces
  <2>4. QED
    BY <2>1, <2>2, <2>3
<1>3. \A p \in H' : (p \in H /\ ~Deliver(p)) \/ (p \in Threads /\ TakeRead(p) /\ d \in port[1].data)
  BY HandStep
<1>4. CASE \E s \in Socks : PeerSends(s) /\ d = sent'
  <2>1. PICK s \in Socks : PeerSends(s) /\ d = sent'
    BY <1>4
  <2>2. d = sent + 1 /\ UNCHANGED <<port, heard>> /\ UNCHANGED <<pc, data>>
    BY <2>1 DEF PeerSends, procVars
  <2>3. W = {} /\ C = {} /\ H = {} /\ heard[d] = 0
    BY <1>1, <1>2, <2>2
  <2>4. C' = {} /\ H' = {}
    BY <2>2, <2>3 DEF At, InHand
  <2>5. \E t : W' \subseteq {t}
    BY <2>3, WaitingStep
  <2>6. QED
    BY <1>2, <2>1, <2>2, <2>3, <2>4, <2>5 DEF Single
<1>5. CASE \E s \in Socks : CompleteRead(s) /\ d \in unread[s]
  <2>1. PICK s \in Socks : CompleteRead(s) /\ d \in unread[s]
    BY <1>5
  <2>2. s \in W
    BY <2>1 DEF Waiting
  <2>3. W = {s} /\ C = {} /\ H = {} /\ heard[d] = 0 /\ d <= sent
    BY <1>1, <2>2 DEF Single
  <2>4. /\ unread' = [unread EXCEPT ![s] = {}]
        /\ UNCHANGED <<heard, sent>> /\ UNCHANGED <<pc, data>>
    BY <2>1 DEF CompleteRead, procVars, histVars
  <2>5. W' = {}
    BY <2>3, <2>4 DEF Waiting, TypeOK
  <2>6. H' = {}
    BY <2>3, <2>4 DEF InHand
  <2>7. C' \subseteq {Len(port) + 1}
    <3>1. PICK e \in Completions : port' = Append(port, e)
      BY <2>1, Posted, Zenon
    <3>2. QED
      BY <2>3, <3>1, AtPosted
  <2>8. QED
    BY <2>3, <2>4, <2>5, <2>6, <2>7 DEF Single
<1>6. CASE \E t \in Threads : TakeRead(t) /\ d \in port[1].data
  <2>1. PICK t \in Threads : TakeRead(t) /\ d \in port[1].data
    BY <1>6
  <2>2. Take(t, "client")
    BY <2>1 DEF TakeRead
  <2>3. C # {} /\ C' = {}
    <3>1. port[1] \in With(d)
      BY <2>1, <2>2, HeadTyped DEF With
    <3>2. QED
      BY <1>1, <2>2, <3>1, AtTaken
  <2>4. W = {} /\ H = {} /\ heard[d] = 0 /\ d <= sent
    BY <1>1, <2>3
  <2>5. UNCHANGED <<unread, heard, sent>>
    BY <2>2 DEF Take, connVars, histVars
  <2>6. W' = {}
    BY <2>4, <2>5 DEF Waiting
  <2>7. \A p \in Threads : TakeRead(p) => p = t
    <3>1. \A p \in Threads : TakeRead(p) => p \in Procs /\ pc[p] = "wait" /\ pc'[p] # "wait"
      BY DEF TakeRead, Take, Goto, TypeOK, Procs
    <3>2. \A p \in Procs : p # t => pc'[p] = pc[p]
      BY <2>1 DEF TakeRead, Goto, TypeOK
    <3>3. QED
      BY <3>1, <3>2
  <2>8. Single(H')
    BY <1>3, <2>4, <2>7 DEF Single
  <2>9. QED
    BY <2>3, <2>4, <2>5, <2>6, <2>8 DEF Single
<1>7. CASE \E p \in H : Deliver(p)
  <2>1. PICK p \in H : Deliver(p)
    BY <1>7
  <2>2. H = {p} /\ W = {} /\ C = {} /\ heard[d] = 0 /\ d <= sent
    BY <1>1, <2>1 DEF Single
  <2>3. UNCHANGED <<unread, port, sent>>
    BY <2>1 DEF Deliver, connVars
  <2>4. W' = {} /\ C' = {}
    BY <2>2, <2>3 DEF Waiting, At
  <2>5. ~\E t \in Threads : TakeRead(t)
    BY <2>1, <2>3, HeadTyped DEF TakeRead, TypeOK
  <2>6. H' = {}
    BY <1>3, <2>1, <2>2, <2>5
  <2>7. QED
    BY <2>2, <2>3, <2>4, <2>6, HeardStep DEF Single
<1>8. CASE /\ ~\E s \in Socks : PeerSends(s) /\ d = sent'
           /\ ~\E s \in Socks : CompleteRead(s) /\ d \in unread[s]
           /\ ~\E t \in Threads : TakeRead(t) /\ d \in port[1].data
           /\ ~\E p \in H : Deliver(p)
  <2>1. W' \subseteq W
    BY <1>8, WaitingStep
  <2>2. Single(C') /\ (C = {} => C' = {})
    BY <1>1, <1>8, WithStep
  <2>3. H' \subseteq H
    BY <1>3, <1>8
  <2>4. heard'[d] = heard[d]
    BY <1>8, HeardStep
  <2> HIDE DEF W, C, H
  <2>5. QED
    BY <1>1, <1>2, <2>1, <2>2, <2>3, <2>4 DEF W, C, H, Single
<1>9. QED
  BY <1>4, <1>5, <1>6, <1>7, <1>8, Zenon

LEMMA DataInductive == Spec => []DataInv
<1>1. Init => DataInv
  <2> SUFFICES ASSUME Init PROVE DataInv
    OBVIOUS
  <2>1. \A d \in Pieces : Waiting(d) = {} /\ At(With(d)) = {} /\ InHand(d) = {} /\ heard[d] = 0
    BY DEF Init, Waiting, At, InHand
  <2>2. QED
    BY <2>1 DEF DataInv, Single
<1>2. DataInv /\ UNCHANGED vars => DataInv'
  <2> SUFFICES ASSUME DataInv, UNCHANGED vars PROVE DataInv'
    OBVIOUS
  <2>1. UNCHANGED <<odd, unread, port, pc, data, heard, sent>>
    BY DEF vars, connVars, procVars, histVars
  <2>2. QED
    BY <2>1 DEF DataInv, NoQuick, Single, Waiting, At, InHand
<1>3. CoreInv /\ DataInv /\ [Next]_vars => DataInv'
  BY <1>2, DataStep
<1>4. QED
  BY <1>1, <1>3, CoreCorrect, PTL DEF Spec

\* Unless a call is over at once, whose completion comes all the same, read_cbk
\* gets no piece of data twice, however many reads are made.
THEOREM HeardOnce == Spec => []NothingHeardTwice
<1>1. DataInv => NothingHeardTwice
  BY DEF DataInv, NothingHeardTwice, NoQuick
<1>2. QED
  BY <1>1, DataInductive, PTL
-----------------------------------------------------------------------------
(* Who starts the next accept. *)

LEMMA UsualStays ==
    ASSUME TypeOK, Next, Usual'
    PROVE  /\ Usual
           /\ \A p \in Procs : ~SocketFails(p) /\ ~AcceptAtOnce(p) /\ ~ReadAtOnce(p)
           /\ \A c \in Slots : ~Close(c)
<1>1. odd \in Seq({"socket", "quick", "close"})
  BY DEF TypeOK
<1>2. ASSUME NEW what \in {"socket", "quick", "close"} PROVE ~Unusual(what)
  BY <1>1 DEF Unusual, Usual
<1>3. /\ \A p \in Procs : ~SocketFails(p) /\ ~AcceptAtOnce(p) /\ ~ReadAtOnce(p)
      /\ \A c \in Slots : ~Close(c)
  BY <1>2 DEF SocketFails, AcceptAtOnce, ReadAtOnce, Close
<1>4. UNCHANGED odd
  BY <1>3, WhoChanges, Zenon
<1>5. QED
  BY <1>3, <1>4 DEF Usual

\* A thread gets into the chain with an accept that is completed.
LEMMA ChainStep ==
    ASSUME TypeOK, Next, Usual', NEW p \in Procs, Chain(p)'
    PROVE  \/ Chain(p) /\ ~AcceptPending(p)
           \/ p \in Threads /\ TakeAccept(p) /\ port[1] \in Accepted
           \/ p = Main /\ BeginListen
<1>1. /\ pc \in [Procs -> Labels] /\ back \in [Procs -> {"idle", "wait", "start"}]
      /\ Home(p) \in {"idle", "wait"} /\ port \in Seq(Completions)
  BY DEF TypeOK, Home
<1>2. ASSUME NEW x, pc' = [pc EXCEPT ![p] = x] PROVE pc'[p] = x
  BY <1>1, <1>2
<1>3. ~AcceptPending(p)
  BY <1>1, <1>2 DEF AcceptPending, Goto, Chain, Busy
<1>4. CASE Step(p)
  <2>1. /\ ~SocketFails(p) /\ ~NoFreeSlot(p) /\ ~AcceptAtOnce(p)
        /\ ~AcceptFails(p) /\ ~ReadAtOnce(p)
    BY <1>1, <1>2, UsualStays DEF NoFreeSlot, AcceptFails, Goto, Chain, Busy
  <2>2. TakeSlot(p) \/ HandleAccept(p) => Chain(p)
    BY DEF TakeSlot, HandleAccept, Chain
  <2>3. ASSUME \/ Tell(p) \/ ReadPending(p) \/ ReadFails(p) \/ Deliver(p)
               \/ EndClient(p) \/ FreeEntry(p)
        PROVE  Chain(p)
    <3>1. /\ pc[p] \in Busy /\ UNCHANGED back
          /\ \E x \in {"read", "close", "free", "crashed", back[p]} : pc' = [pc EXCEPT ![p] = x]
      BY <2>3 DEF Tell, ReadPending, ReadFails, Deliver, EndClient, FreeEntry, procVars, Goto, Busy
    <3>2. back[p] = "start"
      BY <1>1, <1>2, <3>1 DEF Chain, Busy
    <3>3. QED
      BY <3>1, <3>2 DEF Chain
  <2>4. QED
    BY <1>3, <1>4, <2>1, <2>2, <2>3 DEF Step
<1>5. CASE p \in Threads /\ (TakeClose(p) \/ TakeAccept(p) \/ TakeRead(p))
  <2>1. ~TakeClose(p)
    BY <1>2 DEF TakeClose, Goto, Chain, Busy
  <2>2. ~TakeRead(p)
    BY <1>1, <1>2 DEF TakeRead, Goto, Chain, Busy
  <2>3. TakeAccept(p)
    BY <1>5, <2>1, <2>2
  <2>4. pc[p] = "wait" /\ port # <<>> /\ Head(port).key = "acc"
    BY <2>3 DEF TakeAccept, Take
  <2>5. Head(port).ok
    BY <2>3, <2>4 DEF TakeAccept, Chain, Busy
  <2>6. QED
    BY <1>1, <1>5, <2>3, <2>4, <2>5, Tailed DEF Accepted
<1>6. CASE p = Main /\ (EndListen \/ ClearCallback \/ Destroy \/ DestroySocket \/ Join)
  BY <1>1, <1>2, <1>6 DEF EndListen, ClearCallback, Destroy, DestroySocket, Join, Goto, Chain,
                          Busy
<1>7. CASE pc'[p] = pc[p] /\ back'[p] = back[p]
  BY <1>3, <1>7 DEF Chain
<1>8. QED
  BY <1>4, <1>5, <1>6, <1>7, WhoMoves, UsualStays, Zenon

\* It leaves it when the accept is pending, when there is no slot for one or no
\* listening socket.
LEMMA ChainGoesOn ==
    ASSUME TypeOK, Next, Usual', NEW p \in Procs, Chain(p)
    PROVE  Chain(p)' \/ AcceptPending(p) \/ NoFreeSlot(p) \/ AcceptFails(p)
<1>1. /\ pc \in [Procs -> Labels] /\ back \in [Procs -> {"idle", "wait", "start"}]
  BY DEF TypeOK
<1>2. CASE Step(p)
  <2>1. ~SocketFails(p) /\ ~AcceptAtOnce(p) /\ ~ReadAtOnce(p)
    BY UsualStays
  <2>2. TakeSlot(p) => Chain(p)'
    BY <1>1 DEF TakeSlot, Goto, Chain
  <2>3. HandleAccept(p) => Chain(p)'
    BY <1>1 DEF HandleAccept, Goto, Chain, Busy
  <2>4. ASSUME \/ Tell(p) \/ ReadPending(p) \/ ReadFails(p) \/ Deliver(p)
               \/ EndClient(p) \/ FreeEntry(p)
        PROVE  Chain(p)'
    <3>1. /\ pc[p] \notin {"start", "post", "accept"} /\ UNCHANGED back
          /\ \E x \in {"read", "close", "free", "crashed", back[p]} : pc' = [pc EXCEPT ![p] = x]
      BY <2>4 DEF Tell, ReadPending, ReadFails, Deliver, EndClient, FreeEntry, procVars, Goto
    <3>2. QED
      BY <1>1, <3>1 DEF Chain, Busy
  <2>5. QED
    BY <1>2, <2>1, <2>2, <2>3, <2>4 DEF Step
<1>3. CASE p \in Threads /\ (TakeClose(p) \/ TakeAccept(p) \/ TakeRead(p))
  BY <1>3 DEF TakeClose, TakeAccept, TakeRead, Take, Chain, Busy
<1>4. CASE p = Main /\ (BeginListen \/ EndListen \/ ClearCallback \/ Destroy
                  \/ DestroySocket \/ Join)
  BY <1>4 DEF BeginListen, EndListen, ClearCallback, Destroy, DestroySocket, Join, Chain, Busy,
              Goto
<1>5. CASE pc'[p] = pc[p] /\ back'[p] = back[p]
  BY <1>5 DEF Chain
<1>6. QED
  BY <1>2, <1>3, <1>4, <1>5, WhoMoves, UsualStays, Zenon

LEMMA OneAcceptStep ==
    ASSUME CoreInv, OneAccept, Next, Usual'
    PROVE  /\ OneAccept'
           /\ \A p \in Procs : Chain(p) =>
                 /\ accepts = {} /\ At(Accepted) = {} /\ \A q \in Procs : Chain(q) => q = p
           /\ \A p \in Procs : AcceptPending(p) => accepts' = {sock[cur[p]]}
           /\ (~\E p \in Procs : AcceptPending(p)) => accepts' \subseteq accepts
           /\ At(Accepted)' # {} => At(Accepted) # {} \/ (CompleteAccept /\ accepts # {})
<1> USE DEF CoreInv
<1> DEFINE A == accepts
           C == At(Accepted)
           H == Chaining
<1>1. /\ Single(A) /\ Single(C) /\ Single(H)
      /\ A = {} \/ C = {}
      /\ A = {} \/ H = {}
      /\ C = {} \/ H = {}
      /\ pc[Main] = "init" => A = {} /\ C = {} /\ H = {}
  BY DEF OneAccept
<1>2. \A p \in H' : \/ p \in H /\ ~AcceptPending(p)
                    \/ p \in Threads /\ TakeAccept(p) /\ port[1] \in Accepted
                    \/ p = Main /\ BeginListen
  BY ChainStep DEF Chaining
<1>3. \A p \in Procs : Chain(p) => /\ accepts = {} /\ At(Accepted) = {}
                                   /\ \A q \in Procs : Chain(q) => q = p
  BY <1>1 DEF Chaining, Single
<1>4. ASSUME NEW p \in Procs, AcceptPending(p) PROVE Chain(p) /\ A = {} /\ A' = {sock[cur[p]]}
  <2>1. Chain(p) /\ A' = A \cup {sock[cur[p]]}
    BY <1>4 DEF AcceptPending, Chain
  <2>2. QED
    BY <1>3, <2>1
<1>5. (~\E p \in Procs : AcceptPending(p)) => A' \subseteq A
  <2>1. \/ UNCHANGED accepts
        \/ \E p \in Procs : AcceptPending(p) \/ EndClient(p)
        \/ \E c \in Slots : Close(c)
        \/ EndListen \/ Destroy \/ DestroySocket \/ CompleteAccept \/ BreakAccept
    BY WhoChanges, Zenon
  <2>2. QED
    BY <2>1 DEF EndClient, Close, EndListen, Destroy, StopListening,
                DestroySocket, CompleteAccept, BreakAccept, CloseSocket, accVars
<1>6. (Single(C') /\ (C = {} => C' = {})) \/ CompleteAccept
  <2>1. CASE C' = C
    BY <1>1, <2>1
  <2>2. CASE \E t \in Threads : \E key : Take(t, key)
    BY <1>1, <2>2, AtTaken
  <2>3. CASE \E k \in 1..Len(port') : port'[k] \in Accepted /\ Posting(k)
    BY <2>3, UsualStays DEF Posting, Accepted
  <2>4. QED
    BY <2>1, <2>2, <2>3, AtStep, Zenon DEF TakeClose, TakeAccept, TakeRead
<1>7. Main \in Procs /\ \A t \in Threads : t \in Procs
  BY DEF Procs
<1>8. pc'[Main] = "init" => pc[Main] = "init" /\ ~BeginListen
  <2>1. Main \in Procs /\ Home(Main) # "init" /\ back[Main] # "init" /\ pc \in [Procs -> Labels]
    BY DEF Procs, Home, TypeOK
  <2>2. ASSUME NEW x, pc' = [pc EXCEPT ![Main] = x], x # "init" PROVE pc'[Main] # "init"
    BY <2>1, <2>2
  <2>3. Step(Main) => \E x : pc' = [pc EXCEPT ![Main] = x] /\ x # "init"
    BY <2>1 DEF Step, Goto, TakeSlot, SocketFails, NoFreeSlot, AcceptAtOnce,
         AcceptPending, AcceptFails, HandleAccept, Tell, ReadPending, ReadAtOnce, ReadFails,
         Deliver, EndClient, FreeEntry
  <2>4. BeginListen => pc'[Main] # "init"
    BY <2>2 DEF BeginListen, Goto
  <2>5. QED
    BY <2>1, <2>2, <2>3, <2>4, MainMoves, WhoMoves, ThreadsAssumption DEF Ending,
       EndListen, ClearCallback, Destroy, DestroySocket, Join, Goto, Close
<1>9. CASE \E p \in Procs : AcceptPending(p)
  <2>1. PICK p \in Procs : AcceptPending(p)
    BY <1>9
  <2>2. H = {p} /\ A = {} /\ C = {} /\ A' = {sock[cur[p]]} /\ pc[Main] # "init"
    BY <1>1, <1>3, <1>4, <2>1 DEF Chaining
  <2>3. UNCHANGED port /\ C' = {}
    BY <2>1, <2>2 DEF AcceptPending, At
  <2>4. H' = {}
    <3>1. ~BeginListen
      BY <2>2 DEF BeginListen
    <3>2. ~\E t \in Threads : TakeAccept(t)
      BY <2>3, HeadTyped DEF TakeAccept
    <3>3. QED
      BY <1>2, <2>1, <2>2, <3>1, <3>2
  <2>5. Single(A') /\ A' # {}
    BY <2>2 DEF Single
  <2>6. QED
    BY <1>3, <1>4, <1>8, <1>9, <2>2, <2>3, <2>4, <2>5, Zenon DEF OneAccept, Single
<1>10. CASE CompleteAccept
  <2>1. A # {} /\ C = {} /\ H = {} /\ pc[Main] # "init"
    BY <1>1, <1>10 DEF CompleteAccept
  <2>2. A' = {}
    BY <1>1, <1>10 DEF CompleteAccept, Single
  <2>3. H' = {}
    BY <1>10, <2>1 DEF CompleteAccept, procVars, Chaining, Chain
  <2>4. Single(C')
    <3>1. PICK e \in Completions : port' = Append(port, e)
      BY <1>10, Posted, Zenon
    <3>2. C' \subseteq {Len(port) + 1}
      BY <2>1, <3>1, AtPosted
    <3>3. QED
      BY <3>2 DEF Single
  <2>5. QED
    BY <1>3, <1>4, <1>5, <1>8, <1>10, <2>1, <2>2, <2>3, <2>4, Zenon DEF OneAccept, Single
<1>11. CASE \E t \in Threads : TakeAccept(t) /\ port[1] \in Accepted
  <2>1. PICK t \in Threads : TakeAccept(t) /\ port[1] \in Accepted
    BY <1>11
  <2>2. Take(t, "acc")
    BY <2>1 DEF TakeAccept
  <2>3. C # {} /\ C' = {}
    BY <1>1, <2>1, <2>2, AtTaken
  <2>4. A = {} /\ H = {} /\ pc[Main] # "init"
    BY <1>1, <2>3
  <2>5. A' = {}
    BY <2>2, <2>4 DEF Take, accVars
  <2>6. \A p \in H' : p = t
    <3>1. ~BeginListen
      BY <2>4 DEF BeginListen
    <3>2. \A p \in Procs : TakeAccept(p) => pc[p] = "wait"
      BY DEF TakeAccept, Take
    <3>3. \A p \in Procs : p # t => pc'[p] = pc[p]
      BY <2>1 DEF TakeAccept, Goto, TypeOK
    <3>4. \A p \in H' : pc'[p] # "wait" /\ p \in Procs
      BY DEF Chaining, Chain, Busy
    <3>5. QED
      BY <1>2, <2>4, <3>1, <3>2, <3>3, <3>4
  <2>7. QED
    BY <1>3, <1>4, <1>5, <1>8, <2>3, <2>4, <2>5, <2>6, Zenon DEF OneAccept, Single
<1>12. CASE BeginListen
  <2>1. A = {} /\ C = {} /\ H = {}
    BY <1>1, <1>12 DEF BeginListen
  <2>2. UNCHANGED <<accepts, port>>
    BY <1>12 DEF BeginListen
  <2>3. A' = {} /\ C' = {}
    BY <2>1, <2>2 DEF At
  <2>4. ~\E t \in Threads : TakeAccept(t)
    BY <2>2, HeadTyped DEF TakeAccept
  <2>5. \A p \in H' : p = Main
    BY <1>2, <2>1, <2>4
  <2>6. QED
    BY <1>3, <1>4, <1>5, <1>8, <1>12, <2>1, <2>3, <2>5, Zenon DEF OneAccept, Single
<1>13. CASE /\ ~\E p \in Procs : AcceptPending(p)
            /\ ~CompleteAccept /\ ~BeginListen
            /\ ~\E t \in Threads : TakeAccept(t) /\ port[1] \in Accepted
  <2>1. A' \subseteq A /\ H' \subseteq H /\ Single(C') /\ (C = {} => C' = {})
    BY <1>2, <1>5, <1>6, <1>13
  <2> HIDE DEF A, C, H
  <2>2. /\ Single(A') /\ Single(C') /\ Single(H')
        /\ A' = {} \/ C' = {}
        /\ A' = {} \/ H' = {}
        /\ C' = {} \/ H' = {}
        /\ pc'[Main] = "init" => A' = {} /\ C' = {} /\ H' = {}
    BY <1>1, <1>8, <2>1 DEF Single
  <2>3. QED
    BY <1>3, <1>13, <2>1, <2>2, Zenon DEF OneAccept, A, C, H
<1>14. QED
  BY <1>9, <1>10, <1>11, <1>12, <1>13, Zenon

-----------------------------------------------------------------------------
(* What becomes of a slot. *)

LEMMA SlotStep ==
    ASSUME CoreInv, Orderly, Next, NEW c \in Slots
    PROVE  \/ slot'[c] = slot[c]
           \/ \E p \in Procs : TakeSlot(p) /\ slot[c] = "free" /\ slot'[c] = "pending"
           \/ \E p \in Procs : /\ HandleAccept(p) /\ cur[p] = c
                               /\ slot[c] = "pending" /\ slot'[c] = "connected"
           \/ \E p \in Procs : /\ EndClient(p) /\ cur[p] = c
                               /\ slot[c] = "connected" /\ slot'[c] = "cleaning"
           \/ \E p \in Procs : /\ FreeEntry(p) /\ cur[p] = c
                               /\ slot[c] = "cleaning" /\ slot'[c] = "free"
<1> USE DEF CoreInv, Orderly
<1>1. slot \in [Slots -> {"free", "pending", "connected", "cleaning"}]
  BY DEF TypeOK
<1>2. CASE UNCHANGED slot
  BY <1>2
<1>3. CASE \E p \in Procs : TakeSlot(p)
  BY <1>1, <1>3 DEF TakeSlot, FirstFree, Free
<1>4. ASSUME NEW p \in Procs, HandleAccept(p)
      PROVE  \/ slot'[c] = slot[c]
             \/ cur[p] = c /\ slot[c] = "pending" /\ slot'[c] = "connected"
  <2>1. slot[cur[p]] = "pending" /\ slot' = [slot EXCEPT ![cur[p]] = "connected"]
    BY <1>4 DEF HandleAccept, PendingInv
  <2>2. QED
    BY <1>1, <2>1
<1>5. ASSUME NEW p \in Procs, EndClient(p)
      PROVE  \/ slot'[c] = slot[c]
             \/ cur[p] = c /\ slot[c] = "connected" /\ slot'[c] = "cleaning"
  <2>1. slot' = [slot EXCEPT ![cur[p]] = "cleaning"]
    BY <1>5 DEF EndClient
  <2>2. cur[p] = c => p \in Readers(c)
    BY <1>5 DEF EndClient, Readers, ReadLabels
  <2>3. p \in Readers(c) => slot[c] = "connected"
    BY DEF ConnectedInv
  <2>4. QED
    BY <1>1, <2>1, <2>2, <2>3
<1>6. ASSUME NEW p \in Procs, FreeEntry(p)
      PROVE  \/ slot'[c] = slot[c]
             \/ cur[p] = c /\ slot[c] = "cleaning" /\ slot'[c] = "free"
  <2>1. slot[cur[p]] = "cleaning" /\ slot' = [slot EXCEPT ![cur[p]] = "free"]
    BY <1>6 DEF FreeEntry, CleaningInv
  <2>2. QED
    BY <1>1, <2>1
<1>7. QED
  BY <1>2, <1>3, <1>4, <1>5, <1>6, WhoChanges, Zenon

\* A thread that has a pending slot has it from the table or from an accept.
LEMMA PostStep ==
    ASSUME TypeOK, Next, Usual', NEW p \in Procs, pc'[p] \in {"post", "accept"}
    PROVE  \/ TakeSlot(p) /\ pc'[p] = "post"
           \/ p \in Threads /\ TakeAccept(p) /\ port[1] \in Accepted /\ pc'[p] = "accept"
           \/ pc'[p] = pc[p] /\ cur'[p] = cur[p]
<1>1. /\ pc \in [Procs -> Labels] /\ back \in [Procs -> {"idle", "wait", "start"}]
      /\ Home(p) \in {"idle", "wait"} /\ port \in Seq(Completions)
  BY DEF TypeOK, Home
<1>2. ASSUME NEW x, pc' = [pc EXCEPT ![p] = x] PROVE pc'[p] = x
  BY <1>1, <1>2
<1>3. CASE Step(p)
  <2>1. ~SocketFails(p) /\ ~AcceptAtOnce(p) /\ ~ReadAtOnce(p)
    BY UsualStays
  <2>2. ~TakeSlot(p) => \E x \in {"idle", "wait", "tell", "read", "close", "free", "crashed",
                                  back[p]} :
                            pc' = [pc EXCEPT ![p] = x]
    BY <1>1, <1>3, <2>1 DEF Step, NoFreeSlot, AcceptPending, AcceptFails, HandleAccept,
         Tell, ReadPending, ReadFails, Deliver, EndClient, FreeEntry, Goto
  <2>3. TakeSlot(p) => pc'[p] = "post"
    BY <1>2 DEF TakeSlot, Goto
  <2>4. QED
    BY <1>1, <1>2, <2>2, <2>3
<1>4. CASE p \in Threads /\ (TakeClose(p) \/ TakeAccept(p) \/ TakeRead(p))
  <2>1. ~TakeClose(p) /\ ~TakeRead(p)
    BY <1>2 DEF TakeClose, TakeRead, Goto
  <2>2. TakeAccept(p) /\ pc[p] = "wait" /\ port # <<>> /\ Head(port).key = "acc"
    BY <1>4, <2>1 DEF TakeAccept, Take
  <2>3. Head(port).ok
    BY <2>2 DEF TakeAccept
  <2>4. pc'[p] = "accept"
    BY <1>2, <2>2, <2>3 DEF TakeAccept, Goto
  <2>5. QED
    BY <1>1, <1>4, <2>2, <2>3, <2>4, Tailed DEF Accepted
<1>5. CASE p = Main /\ (BeginListen \/ EndListen \/ ClearCallback \/ Destroy
                  \/ DestroySocket \/ Join)
  BY <1>1, <1>2, <1>5 DEF BeginListen, EndListen, ClearCallback, Destroy, DestroySocket, Join,
                          Goto
<1>6. CASE pc'[p] = pc[p] /\ cur'[p] = cur[p]
  BY <1>6
<1>7. QED
  BY <1>3, <1>4, <1>5, <1>6, WhoMoves, UsualStays, Zenon

LEMMA PendingStep == ASSUME CoreInv, Orderly, Next, Usual' PROVE PendingInv'
<1> USE DEF CoreInv, Orderly
<1>1. /\ \A p \in Procs : Chain(p) =>
             /\ accepts = {} /\ At(Accepted) = {} /\ \A q \in Procs : Chain(q) => q = p
      /\ \A p \in Procs : AcceptPending(p) => accepts' = {sock[cur[p]]}
      /\ (~\E p \in Procs : AcceptPending(p)) => accepts' \subseteq accepts
      /\ At(Accepted)' # {} => At(Accepted) # {} \/ (CompleteAccept /\ accepts # {})
  BY OneAcceptStep
<1>2. \A p \in Procs : pc[p] \in {"start", "post", "accept"} => Chain(p)
  BY DEF Chain
<1>3. \A p \in Procs : /\ TakeSlot(p) => pc[p] = "start"
                       /\ HandleAccept(p) => pc[p] = "accept"
                       /\ AcceptPending(p) \/ AcceptFails(p) => pc[p] = "post" /\ accOv' = cur[p]
                       /\ HandleAccept(p) => pc'[p] \in {"tell", "read"}
  BY DEF TakeSlot, HandleAccept, AcceptPending, AcceptFails, Goto, TypeOK
<1>4. \/ UNCHANGED accOv
      \/ \E p \in Procs : AcceptPending(p) \/ AcceptFails(p)
  BY WhoChanges, UsualStays, Zenon
<1>5. \/ UNCHANGED <<sock, home>>
      \/ \E p \in Procs : TakeSlot(p)
  BY WhoChanges, Zenon
<1>6. ASSUME NEW c \in Slots, slot[c] = "pending", ~\E p \in Procs : HandleAccept(p) /\ cur[p] = c
      PROVE  slot'[c] = "pending"
  BY <1>6, SlotStep
<1>7. accepts' # {} => accepts' = {sock'[accOv']}
  <2>1. CASE \E p \in Procs : AcceptPending(p)
    <3>1. PICK p \in Procs : AcceptPending(p)
      BY <2>1
    <3>2. accepts' = {sock[cur[p]]} /\ accOv' = cur[p] /\ UNCHANGED sock
      BY <1>1, <3>1 DEF AcceptPending, slotVars
    <3>3. QED
      BY <3>2
  <2>2. CASE (~\E p \in Procs : AcceptPending(p)) /\ accepts' # {}
    <3>1. accepts' \subseteq accepts /\ accepts # {}
      BY <1>1, <2>2
    <3>2. \A p \in Procs : ~Chain(p)
      BY <1>1, <3>1
    <3>3. UNCHANGED accOv /\ UNCHANGED sock
      BY <1>2, <1>3, <1>4, <1>5, <2>2, <3>2
    <3>4. accepts = {sock[accOv]}
      BY <3>1 DEF PendingInv
    <3>5. QED
      BY <2>2, <3>1, <3>3, <3>4
  <2>3. QED
    BY <2>1, <2>2
<1>8. accepts' # {} \/ At(Accepted)' # {} => slot'[accOv'] = "pending"
  <2>1. CASE \E p \in Procs : AcceptPending(p) \/ AcceptFails(p)
    <3>1. PICK p \in Procs : AcceptPending(p) \/ AcceptFails(p)
      BY <2>1
    <3>2. pc[p] = "post" /\ accOv' = cur[p] /\ UNCHANGED slot
      BY <1>3, <3>1 DEF AcceptPending, AcceptFails, slotVars
    <3>3. QED
      BY <3>2 DEF PendingInv
  <2>2. CASE /\ ~\E p \in Procs : AcceptPending(p) \/ AcceptFails(p)
             /\ accepts' # {} \/ At(Accepted)' # {}
    <3>1. accepts # {} \/ At(Accepted) # {}
      BY <1>1, <2>2
    <3>2. \A p \in Procs : ~Chain(p)
      BY <1>1, <3>1
    <3>3. accOv' = accOv /\ slot[accOv] = "pending"
      BY <1>4, <2>2, <3>1 DEF PendingInv
    <3>4. accOv \in Slots
      <4>1. accOv # None
        BY <3>1 DEF Linked, At, Accepted, AccDone
      <4>2. QED
        BY <4>1 DEF TypeOK
    <3>5. QED
      BY <1>2, <1>3, <1>6, <3>2, <3>3, <3>4
  <2>3. QED
    BY <2>1, <2>2
<1>9. ASSUME NEW p \in Procs, pc'[p] \in {"post", "accept"} PROVE slot'[cur'[p]] = "pending"
  <2>1. CASE TakeSlot(p)
    <3>1. PICK c \in Slots : /\ slot' = [slot EXCEPT ![c] = "pending"]
                             /\ cur' = [cur EXCEPT ![p] = c]
      BY <2>1, Zenon DEF TakeSlot
    <3>2. QED
      BY <3>1 DEF TypeOK
  <2>2. CASE p \in Threads /\ TakeAccept(p) /\ port[1] \in Accepted
    <3>1. /\ UNCHANGED slot /\ port # <<>> /\ Head(port) = port[1] /\ 1 \in 1..Len(port)
      BY <2>2, HeadTyped DEF TakeAccept, Take, slotVars
    <3>2. 1 \in At(Accepted) /\ cur' = [cur EXCEPT ![p] = accOv]
      BY <2>2, <3>1 DEF At, TakeAccept, Accepted
    <3>3. slot[accOv] = "pending" /\ cur'[p] = accOv
      BY <3>2 DEF PendingInv, TypeOK
    <3>4. QED
      BY <3>1, <3>3
  <2>3. CASE pc'[p] = pc[p] /\ cur'[p] = cur[p]
    <3>1. slot[cur[p]] = "pending" /\ cur[p] \in Slots /\ Chain(p)
      BY <1>2, <1>9, <2>3, Subjects DEF PendingInv, Busy
    <3>2. ~\E q \in Procs : HandleAccept(q)
      BY <1>1, <1>2, <1>3, <1>9, <2>3, <3>1
    <3>3. QED
      BY <1>6, <2>3, <3>1, <3>2
  <2>4. QED
    BY <1>9, <2>1, <2>2, <2>3, PostStep
<1>10. ASSUME NEW p \in Procs, pc'[p] = "post", listening'
       PROVE  conn'[sock'[cur'[p]]] = "accepting"
  <2>1. CASE TakeSlot(p)
    <3>1. PICK c \in Slots, s \in Socks : /\ sock' = [sock EXCEPT ![c] = s]
                                          /\ conn' = [conn EXCEPT ![s] = "accepting"]
                                          /\ cur' = [cur EXCEPT ![p] = c]
      BY <2>1, Zenon DEF TakeSlot
    <3>2. QED
      BY <3>1 DEF TypeOK
  <2>2. CASE pc'[p] = pc[p] /\ cur'[p] = cur[p]
    <3>1. /\ pc[p] = "post" /\ Chain(p) /\ slot[cur[p]] = "pending"
          /\ cur[p] \in Slots /\ sock[cur[p]] \in Socks
      BY <1>2, <1>10, <2>2, Subjects DEF PendingInv, Busy
    <3>2. UNCHANGED sock
      BY <1>1, <1>2, <1>3, <1>5, <3>1
    <3>3. ~BeginListen
      BY <3>1 DEF BeginListen, OneAccept, Chaining
    <3>4. listening /\ ~EndListen /\ ~Destroy
      BY <1>10, <3>3, WhoChanges DEF EndListen, Destroy, StopListening
    <3>5. conn[sock[cur[p]]] = "accepting"
      BY <3>1, <3>4 DEF PendingInv
    <3>6. \/ UNCHANGED conn
          \/ \E q \in Procs : EndClient(q)
          \/ \E s \in Socks : PeerEnds(s)
      <4>1. ~DestroySocket
        BY <3>4 DEF DestroySocket, Phases
      <4>2. ~CompleteAccept
        BY <1>1, <3>1 DEF CompleteAccept
      <4>3. \A q \in Procs : ~TakeSlot(q)
        BY <1>1, <1>2, <1>3, <3>1
      <4>4. QED
        BY <4>1, <4>2, <4>3, WhoChanges, UsualStays, Zenon
    <3>7. conn'[sock[cur[p]]] = "accepting"
      <4>1. CASE UNCHANGED conn
        BY <3>5, <4>1
      <4>2. CASE \E q \in Procs : EndClient(q)
        <5>1. PICK q \in Procs : EndClient(q)
          BY <4>2
        <5>2. cur[q] \in Slots /\ sock[cur[q]] \in Socks /\ q \in Readers(cur[q])
          BY <5>1, Subjects DEF EndClient, Busy, Readers, ReadLabels
        <5>3. slot[cur[q]] = "connected"
          BY <5>2 DEF ConnectedInv
        <5>4. sock[cur[q]] # sock[cur[p]]
          <6>1. home[sock[cur[q]]] = cur[q] /\ home[sock[cur[p]]] = cur[p]
            BY <3>1, <5>2 DEF Linked, Socks, None
          <6>2. QED
            BY <3>1, <5>3, <6>1
        <5>5. conn' = [conn EXCEPT ![sock[cur[q]]] = "closed"]
          BY <5>1 DEF EndClient, CloseSocket
        <5>6. QED
          BY <3>1, <3>5, <5>4, <5>5 DEF TypeOK
      <4>3. CASE \E s \in Socks : PeerEnds(s)
        BY <3>1, <3>5, <4>3 DEF PeerEnds, TypeOK
      <4>4. QED
        BY <3>6, <4>1, <4>2, <4>3
    <3>8. QED
      BY <2>2, <3>2, <3>7
  <2>3. QED
    BY <1>10, <2>1, <2>2, PostStep
<1>11. QED
  BY <1>7, <1>8, <1>9, <1>10, Zenon DEF PendingInv

-----------------------------------------------------------------------------
(* Who has a connection. *)

\* Closing a socket completes the read that is pending on it.
LEMMA ReadAborted ==
    ASSUME TypeOK, Linked, NEW s \in Socks, CloseSocket(s), reads[s] \in {0, 1}, NEW c \in Slots
    PROVE  /\ At(ReadOf(c))' = IF reads[s] = 1 /\ home[s] = c
                               THEN At(ReadOf(c)) \cup {Len(port) + 1} ELSE At(ReadOf(c))
           /\ ReadsOn(c)' = ReadsOn(c) \ {s}
<1> DEFINE r == Aborted(s)
<1>1. /\ r \in Seq(Completions) /\ reads[s] <= Len(r)
      /\ \A k \in 1..Len(r) :
            IF k <= reads[s] THEN r[k].key = "client" /\ r[k].slot = home[s] ELSE r[k].key = "acc"
  BY AbortedIs
<1>2. port \in Seq(Completions) /\ port' = port \o r
  BY DEF TypeOK, CloseSocket
<1> HIDE DEF r
<1>3. /\ port' \in Seq(Completions) /\ Len(port') = Len(port) + Len(r)
      /\ \A k \in 1..Len(port) : port'[k] = port[k]
      /\ \A k \in 1..Len(port') : k \notin 1..Len(port) =>
            k - Len(port) \in 1..Len(r) /\ port'[k] = r[k - Len(port)]
  BY <1>1, <1>2, Joined
<1>4. Len(port) \in Nat /\ Len(r) \in Nat /\ Len(port') \in Nat
  BY <1>1, <1>2, <1>3
<1> DEFINE n == Len(port)
           m == Len(r)
<1>5. \A k \in 1..Len(port') : k \notin 1..n =>
          (port'[k] \in ReadOf(c) <=> k = n + 1 /\ reads[s] = 1 /\ home[s] = c)
  <2> SUFFICES ASSUME NEW k \in 1..Len(port'), k \notin 1..n
               PROVE  port'[k] \in ReadOf(c) <=> k = n + 1 /\ reads[s] = 1 /\ home[s] = c
    OBVIOUS
  <2>1. k - n \in 1..m /\ port'[k] = r[k - n] /\ port'[k] \in Completions
    BY <1>3
  <2>2. k - n <= reads[s] <=> k = n + 1 /\ reads[s] = 1
    <3> HIDE DEF n, m
    <3>1. n \in Nat /\ m \in Nat
      BY <1>4 DEF n, m
    <3>2. QED
      BY <2>1, <3>1
  <2>3. IF k - n <= reads[s] THEN r[k - n].key = "client" /\ r[k - n].slot = home[s]
                             ELSE r[k - n].key = "acc"
    BY <1>1, <2>1
  <2>4. QED
    BY <2>1, <2>2, <2>3 DEF ReadOf
<1>6. /\ \A k \in 1..n : k \in 1..Len(port') /\ port'[k] = port[k]
      /\ reads[s] = 1 => n + 1 \in 1..Len(port') /\ n + 1 \notin 1..n
  BY <1>1, <1>3, <1>4
<1>7. At(ReadOf(c))' = {k \in 1..Len(port') : port'[k] \in ReadOf(c)}
  BY DEF At, ReadOf
<1>8. At(ReadOf(c))' = IF reads[s] = 1 /\ home[s] = c
                       THEN At(ReadOf(c)) \cup {Len(port) + 1} ELSE At(ReadOf(c))
  <2> HIDE DEF n, m
  <2>1. At(ReadOf(c)) = {k \in 1..n : port[k] \in ReadOf(c)}
    BY DEF At, n
  <2>2. QED
    BY <1>5, <1>6, <1>7, <2>1 DEF n
<1>9. ReadsOn(c)' = ReadsOn(c) \ {s}
  BY DEF ReadsOn, CloseSocket, TypeOK
<1>10. QED
  BY <1>8, <1>9

LEMMA ReaderStep ==
    ASSUME TypeOK, Linked, Next, Usual', NEW p \in Procs, NEW c \in Slots
    PROVE  \/ p \in Readers(c)' <=> p \in Readers(c)
           \/ HandleAccept(p) /\ cur[p] = c
           \/ (ReadPending(p) \/ EndClient(p)) /\ p \in Readers(c)
           \/ p \in Threads /\ TakeRead(p) /\ port[1] \in ReadOf(c)
<1>1. /\ pc \in [Procs -> Labels] /\ cur \in [Procs -> Slots \cup {None}]
      /\ back[p] \in {"idle", "wait", "start"} /\ Home(p) \in {"idle", "wait"}
  BY DEF TypeOK, Home
<1>2. ASSUME NEW x, pc' = [pc EXCEPT ![p] = x] PROVE pc'[p] = x
  BY <1>1, <1>2
<1>3. ASSUME pc[p] \notin ReadLabels, pc'[p] \notin ReadLabels
      PROVE  p \in Readers(c)' <=> p \in Readers(c)
  BY <1>3 DEF Readers, ReadLabels
<1>4. ASSUME cur'[p] = cur[p], pc[p] \in ReadLabels <=> pc'[p] \in ReadLabels
      PROVE  p \in Readers(c)' <=> p \in Readers(c)
  BY <1>4 DEF Readers, ReadLabels
<1>5. CASE Step(p)
  <2>1. ~SocketFails(p) /\ ~AcceptAtOnce(p) /\ ~ReadAtOnce(p)
    BY UsualStays
  <2>2. CASE TakeSlot(p) \/ NoFreeSlot(p) \/ AcceptPending(p) \/ AcceptFails(p) \/ FreeEntry(p)
    <3>1. /\ pc[p] \notin ReadLabels
          /\ \E x \in {"post", Home(p), back[p]} : pc' = [pc EXCEPT ![p] = x]
      BY <2>2 DEF ReadLabels, TakeSlot, NoFreeSlot, AcceptPending, AcceptFails, FreeEntry, Goto
    <3>2. QED
      BY <1>1, <1>2, <1>3, <3>1 DEF ReadLabels
  <2>3. CASE Tell(p) \/ ReadFails(p) \/ Deliver(p)
    <3>1. /\ pc[p] \in ReadLabels /\ UNCHANGED cur
          /\ \E x \in ReadLabels : pc' = [pc EXCEPT ![p] = x]
      BY <2>3 DEF ReadLabels, Tell, ReadFails, Deliver, Goto, procVars
    <3>2. QED
      BY <1>2, <1>4, <3>1
  <2>4. CASE HandleAccept(p) \/ ReadPending(p) \/ EndClient(p)
    <3>1. UNCHANGED cur /\ (ReadPending(p) \/ EndClient(p) => pc[p] \in ReadLabels)
      BY <2>4 DEF ReadLabels, HandleAccept, ReadPending, EndClient, procVars
    <3>2. CASE cur[p] = c
      BY <2>4, <3>1, <3>2 DEF Readers, ReadLabels
    <3>3. CASE cur[p] # c
      BY <3>1, <3>3 DEF Readers, ReadLabels
    <3>4. QED
      BY <3>2, <3>3
  <2>5. QED
    BY <1>5, <2>1, <2>2, <2>3, <2>4 DEF Step
<1>6. CASE p \in Threads /\ (TakeClose(p) \/ TakeAccept(p))
  <2>1. /\ pc[p] \notin ReadLabels
        /\ UNCHANGED pc \/ \E x \in {"done", "accept"} : pc' = [pc EXCEPT ![p] = x]
    BY <1>6 DEF ReadLabels, TakeClose, TakeAccept, Take, Goto
  <2>2. QED
    BY <1>2, <1>3, <2>1 DEF ReadLabels
<1>7. CASE p \in Threads /\ TakeRead(p)
  <2>1. /\ pc[p] = "wait" /\ cur' = [cur EXCEPT ![p] = port[1].slot]
        /\ port[1] \in Completions /\ port[1].key = "client"
    BY <1>7, HeadTyped DEF TakeRead, Take
  <2>2. cur'[p] = port[1].slot
    BY <1>1, <2>1
  <2>3. QED
    BY <1>7, <2>1, <2>2 DEF Readers, ReadLabels, ReadOf
<1>8. CASE p = Main /\ (BeginListen \/ EndListen \/ ClearCallback \/ Destroy
                  \/ DestroySocket \/ Join)
  <2>1. /\ pc[p] \notin ReadLabels
        /\ UNCHANGED pc \/ \E x \in {"start", "clear", "idle", "socks", "join", "done"} :
               pc' = [pc EXCEPT ![p] = x]
    BY <1>8 DEF ReadLabels, BeginListen, EndListen, ClearCallback, Destroy, DestroySocket, Join,
                Goto
  <2>2. QED
    BY <1>2, <1>3, <2>1 DEF ReadLabels
<1>9. CASE pc'[p] = pc[p] /\ cur'[p] = cur[p]
  BY <1>4, <1>9
<1>10. QED
  BY <1>5, <1>6, <1>7, <1>8, <1>9, WhoMoves, UsualStays, Zenon

\* The threads of a step that read and close are the readers of their slots.
LEMMA ReaderOf ==
    ASSUME CoreInv, Orderly, NEW p \in Procs, ReadPending(p) \/ EndClient(p)
    PROVE  /\ cur[p] \in Slots /\ sock[cur[p]] \in Socks /\ p \in Readers(cur[p])
           /\ home[sock[cur[p]]] = cur[p] /\ reads[sock[cur[p]]] = 0
<1> USE DEF CoreInv, Orderly
<1>1. cur[p] \in Slots /\ sock[cur[p]] \in Socks /\ p \in Readers(cur[p])
  BY Subjects DEF ReadPending, EndClient, Busy, Readers, ReadLabels
<1>2. home[sock[cur[p]]] = cur[p]
  BY <1>1 DEF Linked, Socks, None
<1>3. ReadsOn(cur[p]) = {}
  BY <1>1 DEF ConnectedInv
<1>4. ~(reads[sock[cur[p]]] > 0)
  BY <1>1, <1>2, <1>3 DEF ReadsOn
<1>5. QED
  BY <1>1, <1>2, <1>4 DEF TypeOK

LEMMA ReadsOnStep ==
    ASSUME CoreInv, Orderly, Next, Usual', NEW c \in Slots
    PROVE  \/ ReadsOn(c)' = ReadsOn(c)
           \/ \E p \in Procs : ReadPending(p) /\ p \in Readers(c)
           \/ \E s \in ReadsOn(c) : CompleteRead(s)
           \/ \E s \in ReadsOn(c) : DestroySocket /\ CloseSocket(s)
<1> USE DEF CoreInv, Orderly
<1>1. /\ reads \in [Socks -> Nat] /\ home \in [Socks -> Slots \cup {None}]
      /\ \A s \in Socks : reads[s] \in {0, 1}
  BY DEF TypeOK, ConnectedInv
<1>2. CASE UNCHANGED <<home, reads>>
  BY <1>2 DEF ReadsOn
<1>3. CASE \E p \in Procs : ReadPending(p)
  <2>1. PICK p \in Procs : ReadPending(p)
    BY <1>3
  <2>2. /\ home[sock[cur[p]]] = cur[p] /\ p \in Readers(cur[p]) /\ UNCHANGED home
        /\ reads' = [reads EXCEPT ![sock[cur[p]]] = @ + 1]
    BY <2>1, ReaderOf DEF ReadPending
  <2>3. CASE cur[p] = c
    BY <2>1, <2>2, <2>3
  <2>4. CASE cur[p] # c
    BY <1>1, <2>2, <2>4 DEF ReadsOn
  <2>5. QED
    BY <2>3, <2>4
<1>4. CASE \E s \in Socks : CompleteRead(s)
  <2>1. PICK s \in Socks : CompleteRead(s)
    BY <1>4
  <2>2. reads[s] > 0 /\ reads' = [reads EXCEPT ![s] = @ - 1] /\ UNCHANGED home
    BY <2>1 DEF CompleteRead
  <2>3. CASE home[s] = c
    BY <2>1, <2>2, <2>3 DEF ReadsOn
  <2>4. CASE home[s] # c
    BY <1>1, <2>2, <2>4 DEF ReadsOn
  <2>5. QED
    BY <2>3, <2>4
<1>5. CASE \E p \in Procs : EndClient(p)
  <2>1. PICK p \in Procs : EndClient(p)
    BY <1>5
  <2>2. /\ sock[cur[p]] \in Socks /\ reads[sock[cur[p]]] = 0 /\ UNCHANGED home
        /\ reads' = [reads EXCEPT ![sock[cur[p]]] = 0]
    BY <2>1, ReaderOf DEF EndClient, CloseSocket
  <2>3. QED
    BY <1>1, <2>2 DEF ReadsOn
<1>6. CASE DestroySocket
  <2>1. \/ UNCHANGED <<home, reads>>
        \/ sock[cur[Main]] \in Socks /\ CloseSocket(sock[cur[Main]])
    BY <1>6, ClosingSocks DEF DestroySocket, connVars
  <2>2. ASSUME NEW s \in Socks, CloseSocket(s), s \notin ReadsOn(c)
        PROVE  ReadsOn(c)' = ReadsOn(c)
    <3>1. /\ reads' = [reads EXCEPT ![s] = 0] /\ UNCHANGED home
          /\ ~(home[s] = c /\ reads[s] > 0)
      BY <2>2 DEF CloseSocket, ReadsOn
    <3>2. \A t \in Socks : home'[t] = home[t] /\ (home[t] = c => (reads'[t] > 0 <=> reads[t] > 0))
      BY <1>1, <3>1
    <3>3. QED
      BY <3>2 DEF ReadsOn
  <2>3. QED
    BY <1>2, <1>6, <2>1, <2>2
<1>7. CASE \E p \in Procs : TakeSlot(p)
  <2>1. PICK e \in Slots, s \in Socks : /\ conn[s] = "none" /\ UNCHANGED reads
                                        /\ home' = [home EXCEPT ![s] = e]
    BY <1>7, Zenon DEF TakeSlot, NextSock
  <2>2. reads[s] = 0
    <3>1. ASSUME reads[s] > 0 PROVE FALSE
      <4>1. home[s] \in Slots /\ sock[home[s]] = s
        BY <3>1, Subjects DEF ConnectedInv
      <4>2. conn[s] # "none"
        BY <4>1 DEF Linked, Socks, None
      <4>3. QED
        BY <2>1, <4>2
    <3>2. QED
      BY <1>1, <3>1
  <2>3. QED
    BY <1>1, <2>1, <2>2 DEF ReadsOn
<1>8. QED
  <2>1. UNCHANGED home \/ \E p \in Procs : TakeSlot(p)
    BY WhoChanges, Zenon
  <2>2. \/ UNCHANGED reads
        \/ \E p \in Procs : ReadPending(p) \/ EndClient(p)
        \/ \E s \in Socks : CompleteRead(s)
        \/ DestroySocket
    BY WhoChanges, UsualStays, Zenon
  <2>3. QED
    BY <1>2, <1>3, <1>4, <1>5, <1>6, <1>7, <2>1, <2>2

LEMMA ReadOfStep ==
    ASSUME CoreInv, Orderly, Next, Usual', NEW c \in Slots
    PROVE  \/ /\ Single(At(ReadOf(c))')
              /\ At(ReadOf(c))' = {} <=> At(ReadOf(c)) = {}
           \/ \E t \in Threads : TakeRead(t) /\ port[1] \in ReadOf(c)
           \/ \E s \in ReadsOn(c) : CompleteRead(s)
           \/ \E s \in ReadsOn(c) : DestroySocket /\ CloseSocket(s)
<1> USE DEF CoreInv, Orderly
<1>1. Single(At(ReadOf(c))) /\ \A s \in Socks : reads[s] \in {0, 1}
  BY DEF ConnectedInv
<1>2. CASE At(ReadOf(c))' = At(ReadOf(c))
  BY <1>1, <1>2
<1>3. CASE \E t \in Threads : TakeClose(t) \/ TakeAccept(t) \/ TakeRead(t)
  <2>1. PICK t \in Threads, key \in {"close", "acc", "client"} :
            Take(t, key) /\ (key = "client" => TakeRead(t))
    BY <1>3 DEF TakeClose, TakeAccept, TakeRead
  <2>2. port[1] \in ReadOf(c) => key = "client"
    BY <2>1, HeadTyped DEF ReadOf
  <2>3. CASE port[1] \in ReadOf(c)
    BY <2>1, <2>2, <2>3
  <2>4. CASE port[1] \notin ReadOf(c)
    BY <1>1, <2>1, <2>4, AtTaken
  <2>5. QED
    BY <2>3, <2>4
<1>4. CASE \E k \in 1..Len(port') : port'[k] \in ReadOf(c) /\ Posting(k)
  <2>1. PICK s \in Socks : /\ reads[s] > 0 /\ home[s] = c
                           /\ (Closer(s) /\ CloseSocket(s)) \/ CompleteRead(s)
    BY <1>4, UsualStays DEF Posting, ReadOf
  <2>2. s \in ReadsOn(c)
    BY <2>1 DEF ReadsOn
  <2>3. ~\E p \in Procs : EndClient(p) /\ s = sock[cur[p]]
    BY <2>1, ReaderOf
  <2>4. QED
    BY <2>1, <2>2, <2>3, UsualStays, Zenon DEF Closer
<1>5. QED
  BY <1>2, <1>3, <1>4, AtStep

LEMMA ConnectedStep == ASSUME CoreInv, Orderly, Next, Usual' PROVE ConnectedInv'
<1> USE DEF CoreInv, Orderly
<1>1. \A s \in Socks : reads[s] \in {0, 1} /\ (reads[s] > 0 => sock[home[s]] = s)
  BY DEF ConnectedInv
<1>2. ASSUME NEW s \in Socks PROVE reads'[s] \in {0, 1} /\ (reads'[s] > 0 => sock'[home'[s]] = s)
  <2>1. reads \in [Socks -> Nat]
    BY DEF TypeOK
  <2>2. \/ reads'[s] = reads[s]
        \/ reads'[s] = 0
        \/ \E p \in Procs : ReadPending(p) /\ s = sock[cur[p]]
    <3>1. \/ UNCHANGED reads
          \/ \E p \in Procs : ReadPending(p) \/ EndClient(p)
          \/ \E t \in Socks : CompleteRead(t)
          \/ \E c \in Slots : Close(c)
          \/ DestroySocket
      BY WhoChanges, Zenon
    <3>2. ASSUME NEW t, CloseSocket(t) PROVE reads'[s] \in {reads[s], 0}
      BY <2>1, <3>2 DEF CloseSocket
    <3>3. ASSUME NEW t \in Socks, CompleteRead(t) PROVE reads'[s] \in {reads[s], 0}
      BY <1>1, <2>1, <3>3 DEF CompleteRead
    <3>4. ASSUME NEW p \in Procs, ReadPending(p)
          PROVE  reads'[s] = reads[s] \/ s = sock[cur[p]]
      BY <2>1, <3>4 DEF ReadPending
    <3>5. QED
      BY <3>1, <3>2, <3>3, <3>4 DEF EndClient, Close, DestroySocket, connVars
  <2>3. CASE \E p \in Procs : ReadPending(p) /\ s = sock[cur[p]]
    <3>1. PICK p \in Procs : ReadPending(p) /\ s = sock[cur[p]]
      BY <2>3
    <3>2. home[s] = cur[p] /\ reads[s] = 0
      BY <3>1, ReaderOf
    <3>3. reads' = [reads EXCEPT ![s] = @ + 1] /\ UNCHANGED <<sock, home>>
      BY <3>1 DEF ReadPending, slotVars
    <3>4. QED
      BY <2>1, <3>1, <3>2, <3>3
  <2>4. CASE reads'[s] = 0
    BY <2>4
  <2>5. CASE reads'[s] = reads[s] /\ reads[s] > 0
    <3>1. home[s] \in Slots /\ sock[home[s]] = s /\ reads[s] = 1
      BY <1>1, <2>5, Subjects
    <3>2. s \in ReadsOn(home[s])
      BY <2>5 DEF ReadsOn
    <3>3. slot[home[s]] = "connected"
      BY <3>1, <3>2 DEF ConnectedInv
    <3>4. CASE UNCHANGED <<sock, home>>
      BY <2>5, <3>1, <3>4
    <3>5. CASE \E p \in Procs : TakeSlot(p)
      <4>1. PICK c \in Slots, t \in Socks : /\ slot[c] = "free" /\ conn[t] = "none"
                                            /\ sock' = [sock EXCEPT ![c] = t]
                                            /\ home' = [home EXCEPT ![t] = c]
        BY <3>5, Zenon DEF TakeSlot, FirstFree, Free, NextSock
      <4>2. conn[s] # "none"
        BY <3>1 DEF Linked, Socks, None
      <4>3. c # home[s] /\ t # s
        BY <3>3, <4>1, <4>2
      <4>4. QED
        BY <2>5, <3>1, <4>1, <4>3 DEF TypeOK
    <3>6. QED
      BY <3>4, <3>5, WhoChanges, Zenon
  <2>6. QED
    BY <1>1, <2>1, <2>2, <2>3, <2>4, <2>5
<1>3. ASSUME NEW c \in Slots
      PROVE  /\ Single(Readers(c)') /\ Single(At(ReadOf(c))')
             /\ Readers(c)' = {} \/ At(ReadOf(c))' = {}
             /\ Readers(c)' = {} \/ ReadsOn(c)' = {}
             /\ At(ReadOf(c))' = {} \/ ReadsOn(c)' = {}
             /\ slot'[c] = "connected" <=>
                    Readers(c)' # {} \/ At(ReadOf(c))' # {} \/ ReadsOn(c)' # {}
  <2> DEFINE R == Readers(c)
             D == At(ReadOf(c))
             O == ReadsOn(c)
  <2>1. /\ Single(R) /\ Single(D)
        /\ R = {} \/ D = {}
        /\ R = {} \/ O = {}
        /\ D = {} \/ O = {}
        /\ slot[c] = "connected" <=> R # {} \/ D # {} \/ O # {}
    BY DEF ConnectedInv
  <2>2. /\ pc \in [Procs -> Labels] /\ cur \in [Procs -> Slots \cup {None}]
        /\ slot \in [Slots -> {"free", "pending", "connected", "cleaning"}]
    BY DEF TypeOK
  <2>3. ASSUME UNCHANGED port PROVE D' = D
    BY <2>3 DEF At, ReadOf
  <2>4. ASSUME UNCHANGED <<home, reads>> PROVE O' = O
    BY <2>4 DEF ReadsOn
  <2>5. ASSUME NEW p \in Procs, UNCHANGED cur, NEW x, pc' = [pc EXCEPT ![p] = x]
        PROVE  \A q \in Procs : q # p => (q \in R' <=> q \in R)
    BY <2>2, <2>5 DEF Readers, ReadLabels
  <2>6. \A q : (q \in R => q \in Procs) /\ (q \in R' => q \in Procs)
    BY DEF Readers, ReadLabels
  <2>7. CASE \E p \in Procs : HandleAccept(p) /\ cur[p] = c
    <3>1. PICK p \in Procs : HandleAccept(p) /\ cur[p] = c
      BY <2>7
    <3>2. /\ slot[c] = "pending" /\ slot'[c] = "connected"
          /\ UNCHANGED cur /\ UNCHANGED <<home, reads>> /\ UNCHANGED port
          /\ \E x \in {"tell", "read"} : pc' = [pc EXCEPT ![p] = x]
      BY <2>2, <3>1 DEF HandleAccept, PendingInv, connVars, Goto
    <3>3. D' = {} /\ O' = {} /\ R = {}
      BY <2>1, <2>3, <2>4, <3>2
    <3>4. p \in R'
      BY <2>2, <3>1, <3>2 DEF Readers, ReadLabels
    <3>5. R' = {p}
      BY <2>5, <2>6, <3>2, <3>3, <3>4
    <3>6. QED
      BY <3>2, <3>3, <3>5 DEF Single
  <2>8. CASE \E p \in R : ReadPending(p)
    <3>1. PICK p \in R : ReadPending(p)
      BY <2>8
    <3>2. p \in Procs /\ cur[p] = c
      BY <3>1 DEF Readers, ReadLabels
    <3>3. R = {p} /\ D = {} /\ O = {} /\ slot[c] = "connected"
      BY <2>1, <3>1 DEF Single
    <3>4. sock[c] \in Socks /\ home[sock[c]] = c /\ reads[sock[c]] = 0
      BY <3>1, <3>2, ReaderOf
    <3>5. /\ UNCHANGED slot /\ UNCHANGED cur /\ UNCHANGED home /\ UNCHANGED port
          /\ pc' = [pc EXCEPT ![p] = back[p]] /\ reads' = [reads EXCEPT ![sock[c]] = @ + 1]
      BY <3>1, <3>2 DEF ReadPending, slotVars, procVars, Goto
    <3>6. R' = {}
      <4>1. p \notin R'
        BY <2>2, <3>2, <3>5 DEF Readers, ReadLabels, TypeOK
      <4>2. QED
        BY <2>5, <2>6, <3>2, <3>3, <3>5, <4>1
    <3>7. D' = {}
      BY <2>3, <3>3, <3>5
    <3>8. O' # {}
      <4>1. reads'[sock[c]] > 0 /\ home'[sock[c]] = c
        BY <3>4, <3>5 DEF TypeOK
      <4>2. QED
        BY <3>4, <4>1 DEF ReadsOn
    <3>9. QED
      BY <3>3, <3>5, <3>6, <3>7, <3>8 DEF Single
  <2>9. CASE \E p \in R : EndClient(p)
    <3>1. PICK p \in R : EndClient(p)
      BY <2>9
    <3>2. p \in Procs /\ cur[p] = c
      BY <3>1 DEF Readers, ReadLabels
    <3>3. R = {p} /\ D = {} /\ O = {} /\ slot[c] = "connected"
      BY <2>1, <3>1 DEF Single
    <3>4. sock[c] \in Socks /\ home[sock[c]] = c /\ reads[sock[c]] = 0
      BY <3>1, <3>2, ReaderOf
    <3>5. /\ slot' = [slot EXCEPT ![c] = "cleaning"] /\ UNCHANGED cur
          /\ pc' = [pc EXCEPT ![p] = "free"] /\ CloseSocket(sock[c])
      BY <3>1, <3>2 DEF EndClient, procVars, Goto
    <3>6. R' = {}
      <4>1. p \notin R'
        BY <2>2, <3>2, <3>5 DEF Readers, ReadLabels
      <4>2. QED
        BY <2>5, <2>6, <3>2, <3>3, <3>5, <4>1
    <3>7. D' = {} /\ O' = {}
      BY <1>1, <3>3, <3>4, <3>5, ReadAborted
    <3>8. slot'[c] = "cleaning"
      BY <2>2, <3>5
    <3>9. QED
      BY <3>6, <3>7, <3>8 DEF Single
  <2>10. CASE \E t \in Threads : TakeRead(t) /\ port[1] \in ReadOf(c)
    <3>1. PICK t \in Threads : TakeRead(t) /\ port[1] \in ReadOf(c)
      BY <2>10
    <3>2. Take(t, "client")
      BY <3>1 DEF TakeRead
    <3>3. D # {} /\ D' = {}
      BY <2>1, <3>1, <3>2, AtTaken
    <3>4. R = {} /\ O = {} /\ slot[c] = "connected"
      BY <2>1, <3>3
    <3>5. /\ UNCHANGED slot /\ UNCHANGED <<home, reads>> /\ t \in Procs
          /\ port[1].slot = c /\ Head(port) = port[1]
      BY <3>1, <3>2, HeadTyped DEF Take, slotVars, connVars, ReadOf
    <3>6. /\ cur' = [cur EXCEPT ![t] = c]
          /\ \E x \in {"deliver", "close"} : pc' = [pc EXCEPT ![t] = x]
      BY <3>1, <3>5 DEF TakeRead, Goto
    <3>7. t \in R' /\ \A q \in Procs : q # t => q \notin R'
      BY <2>2, <3>4, <3>5, <3>6 DEF Readers, ReadLabels
    <3>8. Single(R') /\ R' # {} /\ O' = {}
      BY <2>4, <2>6, <3>4, <3>5, <3>7 DEF Single
    <3>9. QED
      BY <3>3, <3>4, <3>5, <3>8 DEF Single
  <2>11. CASE \E s \in O : CompleteRead(s) \/ (DestroySocket /\ CloseSocket(s))
    <3>1. PICK s \in O : CompleteRead(s) \/ (DestroySocket /\ CloseSocket(s))
      BY <2>11
    <3>2. s \in Socks /\ home[s] = c /\ reads[s] = 1 /\ sock[c] = s
      BY <1>1, <3>1 DEF ReadsOn
    <3>3. \A t \in O : t = s
      BY <1>1, <3>2 DEF ReadsOn
    <3>4. O = {s} /\ R = {} /\ D = {} /\ slot[c] = "connected"
      BY <2>1, <3>1, <3>3
    <3>5. R' = {} /\ UNCHANGED slot
      <4>1. CASE CompleteRead(s)
        BY <3>4, <4>1 DEF CompleteRead, procVars, slotVars, Readers, ReadLabels
      <4>2. CASE DestroySocket
        <5>1. UNCHANGED slot
          BY <4>2 DEF DestroySocket, slotVars
        <5>2. \A p \in Procs : p \in R' => p \in R
          <6>1. /\ pc[Main] = "socks"
                /\ UNCHANGED pc \/ pc' = [pc EXCEPT ![Main] = "join"]
                /\ UNCHANGED cur \/ cur' = [cur EXCEPT ![Main] = @ + 1]
            BY <4>2 DEF DestroySocket, Goto
          <6>2. QED
            BY <2>2, <6>1 DEF Readers, ReadLabels
        <5>3. QED
          BY <2>6, <3>4, <5>1, <5>2
      <4>3. QED
        BY <3>1, <4>1, <4>2
    <3>6. O' = {} /\ D' = {Len(port) + 1}
      <4>1. CASE CompleteRead(s)
        <5>1. PICK e \in Completions : port' = Append(port, e) /\ e.key = "client" /\ e.slot = c
          BY <3>2, <4>1, Posted, Zenon
        <5>2. D' = {Len(port) + 1}
          BY <3>4, <5>1, AtPosted DEF ReadOf
        <5>3. UNCHANGED home /\ reads' = [reads EXCEPT ![s] = @ - 1]
          BY <4>1 DEF CompleteRead
        <5>4. reads'[s] = 0 /\ \A t \in Socks : t # s => reads'[t] = reads[t]
          BY <3>2, <5>3 DEF TypeOK
        <5>5. O' = {}
          BY <3>4, <5>3, <5>4 DEF ReadsOn
        <5>6. QED
          BY <5>2, <5>5
      <4>2. CASE CloseSocket(s)
        BY <1>1, <3>2, <3>4, <4>2, ReadAborted
      <4>3. QED
        BY <3>1, <4>1, <4>2
    <3>7. QED
      BY <3>4, <3>5, <3>6 DEF Single
  <2>12. CASE /\ ~\E p \in Procs : HandleAccept(p) /\ cur[p] = c
              /\ ~\E p \in R : ReadPending(p) \/ EndClient(p)
              /\ ~\E t \in Threads : TakeRead(t) /\ port[1] \in ReadOf(c)
              /\ ~\E s \in O : CompleteRead(s) \/ (DestroySocket /\ CloseSocket(s))
    <3>1. R' = R
      <4>1. \A p \in Procs : p \in R' <=> p \in R
        BY <2>12, ReaderStep
      <4>2. QED
        BY <2>6, <4>1
    <3>2. Single(D') /\ (D' = {} <=> D = {})
      BY <2>12, ReadOfStep
    <3>3. O' = O
      BY <2>12, ReadsOnStep
    <3>4. slot'[c] = "connected" <=> slot[c] = "connected"
      <4>1. \A p \in Procs : EndClient(p) /\ cur[p] = c => p \in R
        BY ReaderOf
      <4>2. QED
        BY <2>12, <4>1, SlotStep
    <3> HIDE DEF R, D, O
    <3>5. QED
      BY <2>1, <3>1, <3>2, <3>3, <3>4 DEF R, D, O
  <2>13. QED
    BY <2>7, <2>8, <2>9, <2>10, <2>11, <2>12, Zenon
<1>4. QED
  BY <1>2, <1>3, Zenon DEF ConnectedInv, Single

LEMMA CleaningStep == ASSUME CoreInv, Orderly, Next, Usual' PROVE CleaningInv'
<1> USE DEF CoreInv, Orderly
<1>1. /\ pc \in [Procs -> Labels] /\ back \in [Procs -> {"idle", "wait", "start"}]
      /\ cur \in [Procs -> Slots \cup {None}]
  BY DEF TypeOK
<1>2. ASSUME NEW p \in Procs, pc'[p] = "free"
      PROVE  EndClient(p) \/ (pc[p] = "free" /\ cur'[p] = cur[p] /\ ~FreeEntry(p))
  <2>1. ASSUME NEW x, pc' = [pc EXCEPT ![p] = x] PROVE x = "free"
    BY <1>1, <1>2, <2>1
  <2>2. CASE Step(p)
    <3>1. back[p] # "free" /\ Home(p) # "free"
      BY <1>1 DEF Home
    <3>2. ~EndClient(p) => \E x : x # "free" /\ pc' = [pc EXCEPT ![p] = x]
      BY <2>2, <3>1 DEF Step, TakeSlot, SocketFails, NoFreeSlot, AcceptAtOnce, AcceptPending,
           AcceptFails, HandleAccept, Tell, ReadPending, ReadAtOnce, ReadFails, Deliver,
           FreeEntry, Goto
    <3>3. QED
      BY <2>1, <3>2
  <2>3. ~(TakeClose(p) \/ TakeRead(p))
    BY <2>1 DEF TakeClose, TakeRead, Goto
  <2>4. ~TakeAccept(p)
    BY <1>2, <2>1 DEF TakeAccept, Take, Goto
  <2>5. CASE p = Main /\ (BeginListen \/ EndListen \/ ClearCallback \/ Destroy
                  \/ DestroySocket \/ Join)
    BY <1>2, <2>1, <2>5 DEF BeginListen, EndListen, ClearCallback, Destroy, DestroySocket, Join,
                            Goto
  <2>6. CASE pc'[p] = pc[p] /\ cur'[p] = cur[p] /\ ~Step(p)
    BY <1>2, <2>6 DEF Step
  <2>7. QED
    BY <2>2, <2>3, <2>4, <2>5, <2>6, WhoMoves, UsualStays, Zenon
<1>3. ASSUME NEW p \in Procs, pc[p] = "free" PROVE cur[p] \in Slots /\ slot[cur[p]] = "cleaning"
  BY <1>3, Subjects DEF CleaningInv, Busy
<1>4. \A p \in Procs : EndClient(p) => /\ cur[p] \in Slots /\ slot[cur[p]] = "connected"
                                       /\ cur'[p] = cur[p] /\ slot'[cur[p]] = "cleaning"
  <2>1. ASSUME NEW p \in Procs, EndClient(p)
        PROVE  /\ cur[p] \in Slots /\ slot[cur[p]] = "connected"
               /\ cur'[p] = cur[p] /\ slot'[cur[p]] = "cleaning"
    <3>1. cur[p] \in Slots /\ p \in Readers(cur[p])
      BY <2>1, ReaderOf
    <3>2. slot[cur[p]] = "connected"
      BY <3>1 DEF ConnectedInv
    <3>3. UNCHANGED cur /\ slot' = [slot EXCEPT ![cur[p]] = "cleaning"]
      BY <2>1 DEF EndClient, procVars
    <3>4. QED
      BY <3>1, <3>2, <3>3 DEF TypeOK
  <2>2. QED
    BY <2>1
<1>5. \A p, q \in Procs : EndClient(p) /\ EndClient(q) => p = q
  BY <1>1 DEF EndClient, Goto
<1>6. ASSUME NEW p \in Procs, pc'[p] = "free" PROVE slot'[cur'[p]] = "cleaning"
  <2>1. CASE EndClient(p)
    BY <1>4, <2>1
  <2>2. CASE pc[p] = "free" /\ cur'[p] = cur[p] /\ ~FreeEntry(p)
    <3>1. cur[p] \in Slots /\ slot[cur[p]] = "cleaning"
      BY <1>3, <2>2
    <3>2. \A q \in Procs : FreeEntry(q) /\ cur[q] = cur[p] => q = p
      BY <2>2 DEF FreeEntry, CleaningInv
    <3>3. slot'[cur[p]] = "cleaning"
      BY <2>2, <3>1, <3>2, SlotStep
    <3>4. QED
      BY <2>2, <3>3
  <2>3. QED
    BY <1>2, <1>6, <2>1, <2>2
<1>7. ASSUME NEW p \in Procs, NEW q \in Procs, pc'[p] = "free", pc'[q] = "free", cur'[p] = cur'[q]
      PROVE  p = q
  BY <1>2, <1>3, <1>4, <1>5, <1>7 DEF CleaningInv
<1>8. \A c \in user' : slot'[c] = "connected" /\ cbk'[c]
  <2>1. \A c \in user : c \in Slots /\ slot[c] = "connected" /\ cbk[c]
    BY DEF CleaningInv, TypeOK
  <2>2. cbk \in [Slots -> BOOLEAN] /\ slot \in [Slots -> {"free", "pending", "connected", "cleaning"}]
    BY DEF TypeOK
  <2>3. CASE \E p \in Procs : Tell(p)
    <3>1. PICK p \in Procs : Tell(p)
      BY <2>3
    <3>2. cur[p] \in Slots /\ p \in Readers(cur[p])
      BY <3>1, Subjects DEF Tell, Busy, Readers, ReadLabels
    <3>3. slot[cur[p]] = "connected" /\ UNCHANGED slot
      BY <3>1, <3>2 DEF ConnectedInv, Tell
    <3>4. \/ cbk' = [cbk EXCEPT ![cur[p]] = TRUE] /\ user' = user \cup {cur[p]}
          \/ UNCHANGED <<cbk, user>>
      BY <3>1, Zenon DEF Tell
    <3>5. QED
      BY <2>1, <2>2, <3>2, <3>3, <3>4
  <2>4. CASE \E p \in Procs : EndClient(p)
    <3>1. PICK p \in Procs : EndClient(p)
      BY <2>4
    <3>2. /\ slot' = [slot EXCEPT ![cur[p]] = "cleaning"] /\ UNCHANGED cbk
          /\ user' = IF cbk[cur[p]] THEN user \ {cur[p]} ELSE user
      BY <3>1 DEF EndClient
    <3>3. cur[p] \notin user'
      BY <2>1, <3>2
    <3>4. QED
      BY <2>1, <2>2, <3>2, <3>3
  <2>5. CASE ~(\E p \in Procs : Tell(p) \/ EndClient(p))
    <3>1. UNCHANGED user
      BY <2>5, WhoChanges, UsualStays, Zenon
    <3>2. \A c \in user : slot'[c] = slot[c]
      BY <2>1, <2>5, SlotStep
    <3>3. \A c \in user : cbk'[c] = cbk[c]
      <4>1. UNCHANGED cbk \/ \E p \in Procs : TakeSlot(p)
        BY <2>5, WhoChanges, UsualStays, Zenon
      <4>2. CASE \E p \in Procs : TakeSlot(p)
        <5>1. PICK c \in Slots : slot[c] = "free" /\ cbk' = [cbk EXCEPT ![c] = FALSE]
          BY <4>2, Zenon DEF TakeSlot, FirstFree, Free
        <5>2. QED
          BY <2>1, <2>2, <5>1
      <4>3. QED
        BY <4>1, <4>2
    <3>4. QED
      BY <2>1, <3>1, <3>2, <3>3
  <2>6. QED
    BY <2>3, <2>4, <2>5
<1>9. QED
  BY <1>6, <1>7, <1>8, Zenon DEF CleaningInv

-----------------------------------------------------------------------------
(* One handler for each slot, and the next accept. *)

LEMMA UsualInductive == Spec => []UsualInv
<1>1. Init => UsualInv
  <2> SUFFICES ASSUME Init PROVE Orderly
    BY DEF UsualInv
  <2>1. /\ accepts = {} /\ user = {} /\ \A E : At(E) = {}
        /\ \A p \in Procs : pc[p] \in {"init", "wait"} /\ back[p] \in {"idle", "wait"}
        /\ \A c \in Slots : slot[c] = "free"
        /\ \A s \in Socks : reads[s] = 0
    BY DEF Init, At, Home
  <2>2. Chaining = {} /\ \A c \in Slots : Readers(c) = {} /\ ReadsOn(c) = {}
    BY <2>1 DEF Chaining, Chain, Busy, Readers, ReadLabels, ReadsOn
  <2>3. OneAccept
    BY <2>1, <2>2, Zenon DEF OneAccept, Single
  <2>4. PendingInv
    BY <2>1 DEF PendingInv
  <2>5. ConnectedInv
    BY <2>1, <2>2 DEF ConnectedInv, Single
  <2>6. CleaningInv
    BY <2>1 DEF CleaningInv
  <2>7. QED
    BY <2>3, <2>4, <2>5, <2>6 DEF Orderly
<1>2. UsualInv /\ UNCHANGED vars => UsualInv'
  <2> SUFFICES ASSUME UsualInv, UNCHANGED vars, Usual' PROVE Orderly'
    BY DEF UsualInv
  <2> USE DEF vars, slotVars, connVars, accVars, procVars, histVars
  <2>1. Orderly
    BY DEF UsualInv, Usual
  <2>2. OneAccept'
    BY <2>1 DEF Orderly, OneAccept, Single, At, Accepted, Chaining, Chain
  <2>3. PendingInv'
    BY <2>1 DEF Orderly, PendingInv, At, Accepted
  <2>4. ConnectedInv'
    BY <2>1 DEF Orderly, ConnectedInv, Single, At, ReadOf, Readers, ReadLabels, ReadsOn
  <2>5. CleaningInv'
    BY <2>1 DEF Orderly, CleaningInv
  <2>6. QED
    BY <2>2, <2>3, <2>4, <2>5 DEF Orderly
<1>3. CoreInv /\ UsualInv /\ Next => UsualInv'
  <2> SUFFICES ASSUME CoreInv, UsualInv, Next, Usual' PROVE Orderly'
    BY DEF UsualInv
  <2>1. Orderly
    BY UsualStays DEF UsualInv, CoreInv
  <2>2. OneAccept'
    BY <2>1, OneAcceptStep DEF Orderly
  <2>3. QED
    BY <2>1, <2>2, PendingStep, ConnectedStep, CleaningStep DEF Orderly
<1>4. QED
  BY <1>1, <1>2, <1>3, CoreCorrect, PTL DEF Spec

LEMMA HandlersHold == ASSUME CoreInv, UsualInv PROVE OneHandlerPerSlot
<1> USE DEF CoreInv
<1> SUFFICES ASSUME Usual, NEW c \in Slots
             PROVE  /\ \A g, h \in Handlers(c) : g = h
                    /\ slot[c] = "free" => Handlers(c) = {}
                    /\ slot[c] = "connected" => Handlers(c) # {}
                    /\ c \in user => slot[c] = "connected" /\ cbk[c]
  BY DEF OneHandlerPerSlot
<1>1. OneAccept /\ PendingInv /\ ConnectedInv /\ CleaningInv
  BY DEF UsualInv, Orderly
<1>2. DOMAIN port = 1..Len(port) /\ \A k \in 1..Len(port) : port[k] \in Completions
  BY DEF TypeOK
<1> DEFINE A == {s \in accepts : home[s] = c}
           B == {k \in DOMAIN port : port[k].key = "acc" /\ port[k].ok /\ accOv = c}
           T == {p \in Procs : pc[p] \in Busy /\ cur[p] = c}
           D == {k \in DOMAIN port : port[k].key = "client" /\ port[k].slot = c}
           HA == {<<"accept", s>> : s \in A}
           HB == {<<"accepted", k>> : k \in B}
           HT == {<<"thread", p>> : p \in T}
           HO == UNION {{<<"read", s, n>> : n \in 1..reads[s]} :
                            s \in {s \in Socks : home[s] = c}}
           HD == {<<"done", k>> : k \in D}
<1>3. Handlers(c) = HA \cup HB \cup HT \cup HO \cup HD
  BY DEF Handlers
<1>4. B \subseteq At(Accepted) /\ D = At(ReadOf(c))
  BY <1>2 DEF At, Accepted, ReadOf
<1>5. \A h \in HO : \E s \in ReadsOn(c) : h = <<"read", s, 1>>
  <2>1. \A s \in Socks : reads[s] = 0 \/ reads[s] = 1
    BY <1>1 DEF ConnectedInv
  <2>2. \A s \in Socks : \A n \in 1..reads[s] : reads[s] > 0 /\ n = 1
    BY <2>1
  <2>3. QED
    BY <2>2 DEF ReadsOn
<1>6. \A s \in ReadsOn(c) : HO # {} /\ s = sock[c]
  <2>1. \A s \in ReadsOn(c) : s \in Socks /\ home[s] = c /\ 1 \in 1..reads[s] /\ s = sock[c]
    BY <1>1 DEF ReadsOn, TypeOK, ConnectedInv
  <2>2. \A s \in ReadsOn(c) : <<"read", s, 1>> \in HO
    BY <2>1
  <2>3. QED
    BY <2>1, <2>2
<1>7. A # {} => slot[c] = "pending" /\ A = {sock[accOv]} /\ accOv = c /\ B = {}
  <2>1. ASSUME A # {} PROVE accepts = {sock[accOv]} /\ slot[accOv] = "pending" /\ At(Accepted) = {}
    BY <1>1, <2>1 DEF OneAccept, PendingInv
  <2>2. ASSUME A # {} PROVE home[sock[accOv]] = c /\ A = {sock[accOv]}
    BY <2>1, <2>2
  <2>3. ASSUME A # {} PROVE accOv \in Slots /\ sock[accOv] # None
    BY <2>3 DEF Linked, TypeOK
  <2>4. ASSUME A # {} PROVE home[sock[accOv]] = accOv
    BY <2>3, <2>4 DEF Linked
  <2>5. QED
    BY <1>4, <2>1, <2>2, <2>4
<1>8. B # {} => slot[c] = "pending" /\ Chaining = {}
  BY <1>1, <1>4 DEF OneAccept, PendingInv
<1>9. Single(B)
  BY <1>1, <1>4 DEF OneAccept, Single
<1>10. A # {} => Chaining = {}
  BY <1>1 DEF OneAccept
<1>11. \A p \in T : \/ /\ pc[p] \in {"post", "accept"} /\ slot[c] = "pending"
                       /\ p \in Chaining
                    \/ p \in Readers(c) /\ slot[c] = "connected"
                    \/ pc[p] = "free" /\ slot[c] = "cleaning"
  <2> SUFFICES ASSUME NEW p \in T
               PROVE  \/ /\ pc[p] \in {"post", "accept"} /\ slot[c] = "pending"
                         /\ p \in Chaining
                      \/ p \in Readers(c) /\ slot[c] = "connected"
                      \/ pc[p] = "free" /\ slot[c] = "cleaning"
    OBVIOUS
  <2>1. p \in Procs /\ pc[p] \in Busy /\ cur[p] = c
    OBVIOUS
  <2>2. CASE pc[p] \in {"post", "accept"}
    <3>1. slot[c] = "pending"
      BY <1>1, <2>1, <2>2 DEF PendingInv
    <3>2. p \in Chaining
      BY <2>1, <2>2 DEF Chaining, Chain
    <3>3. QED
      BY <2>2, <3>1, <3>2
  <2>3. CASE pc[p] \in ReadLabels
    <3>1. p \in Readers(c)
      BY <2>1, <2>3 DEF Readers, ReadLabels
    <3>2. slot[c] = "connected"
      BY <1>1, <3>1 DEF ConnectedInv
    <3>3. QED
      BY <3>1, <3>2
  <2>4. CASE pc[p] = "free"
    BY <1>1, <2>1, <2>4 DEF CleaningInv
  <2>5. QED
    BY <2>1, <2>2, <2>3, <2>4 DEF Busy, ReadLabels
<1>12. Single(T)
  <2>1. ASSUME NEW p \in T, NEW q \in T PROVE p = q
    <3>1. p \in Procs /\ q \in Procs /\ cur[p] = c /\ cur[q] = c
      OBVIOUS
    <3>2. CASE slot[c] = "pending"
      BY <1>1, <1>11, <3>2 DEF OneAccept, Single
    <3>3. CASE slot[c] = "connected"
      BY <1>1, <1>11, <3>3 DEF ConnectedInv, Single
    <3>4. CASE slot[c] = "cleaning"
      BY <1>1, <1>11, <3>1, <3>4 DEF CleaningInv
    <3>5. QED
      BY <1>11, <3>2, <3>3, <3>4
  <2>2. QED
    BY <2>1, Zenon DEF Single
<1>13. /\ Readers(c) = {} \/ D = {}
       /\ Readers(c) = {} \/ ReadsOn(c) = {}
       /\ D = {} \/ ReadsOn(c) = {}
       /\ Single(D)
       /\ slot[c] = "connected" <=> Readers(c) # {} \/ D # {} \/ ReadsOn(c) # {}
  BY <1>1, <1>4 DEF ConnectedInv
<1>14. \A p \in Readers(c) : p \in T
  BY DEF Readers, ReadLabels, Busy
<1> HIDE DEF A, B, T, D, HO
<1>15. ASSUME NEW g \in Handlers(c), NEW h \in Handlers(c) PROVE g = h
  <2>1. CASE slot[c] = "pending"
    <3>1. ReadsOn(c) = {} /\ D = {}
      BY <1>13, <2>1
    <3>2. HO = {} /\ HD = {}
      BY <1>5, <3>1
    <3>3. \A p \in T : p \in Chaining
      BY <1>11, <2>1
    <3>4. CASE A # {}
      <4>1. T = {} /\ B = {} /\ A = {sock[accOv]}
        BY <1>7, <1>10, <3>3, <3>4
      <4>2. QED
        BY <1>3, <3>2, <4>1
    <3>5. CASE A = {} /\ B # {}
      <4>1. T = {}
        BY <1>8, <3>3, <3>5
      <4>2. QED
        BY <1>3, <1>9, <3>2, <3>5, <4>1 DEF Single
    <3>6. CASE A = {} /\ B = {}
      BY <1>3, <1>12, <3>2, <3>6 DEF Single
    <3>7. QED
      BY <3>4, <3>5, <3>6
  <2>2. CASE slot[c] = "connected"
    <3>1. A = {} /\ B = {} /\ \A p \in T : p \in Readers(c)
      BY <1>7, <1>8, <1>11, <2>2
    <3>2. HA = {} /\ HB = {}
      BY <3>1
    <3>3. CASE T # {}
      <4>1. D = {} /\ ReadsOn(c) = {}
        BY <1>13, <3>1, <3>3
      <4>2. HD = {} /\ HO = {}
        BY <1>5, <4>1
      <4>3. QED
        BY <1>3, <1>12, <3>2, <4>2 DEF Single
    <3>4. CASE T = {} /\ D # {}
      <4>1. HO = {} /\ HT = {}
        BY <1>5, <1>13, <3>4
      <4>2. QED
        BY <1>3, <1>13, <3>2, <4>1 DEF Single
    <3>5. CASE T = {} /\ D = {}
      <4>1. HD = {} /\ HT = {}
        BY <3>5
      <4>2. QED
        BY <1>3, <1>5, <1>6, <3>2, <4>1
    <3>6. QED
      BY <3>3, <3>4, <3>5
  <2>3. CASE slot[c] \notin {"pending", "connected"}
    <3>1. A = {} /\ B = {} /\ D = {} /\ ReadsOn(c) = {}
      BY <1>7, <1>8, <1>13, <2>3
    <3>2. HA = {} /\ HB = {} /\ HD = {} /\ HO = {}
      BY <1>5, <3>1
    <3>3. QED
      BY <1>3, <1>12, <3>2 DEF Single
  <2>4. QED
    BY <2>1, <2>2, <2>3
<1>16. slot[c] = "free" => Handlers(c) = {}
  <2>1. slot[c] = "free" => A = {} /\ B = {} /\ T = {} /\ D = {} /\ ReadsOn(c) = {}
    BY <1>7, <1>8, <1>11, <1>13
  <2>2. QED
    BY <1>3, <1>5, <2>1
<1>17. slot[c] = "connected" => Handlers(c) # {}
  <2>1. slot[c] = "connected" => T # {} \/ D # {} \/ ReadsOn(c) # {}
    BY <1>13, <1>14
  <2>2. (T # {} => HT # {}) /\ (D # {} => HD # {}) /\ (ReadsOn(c) # {} => HO # {})
    BY <1>6
  <2>3. QED
    BY <1>3, <2>1, <2>2
<1>18. c \in user => slot[c] = "connected" /\ cbk[c]
  BY <1>1 DEF CleaningInv
<1>19. QED
  BY <1>15, <1>16, <1>17, <1>18

\* As long as no call is over at once and close() is not used, the accept, the
\* reads, their completions and the threads have each slot one after the other.
THEOREM HandlersCorrect == Spec => []OneHandlerPerSlot
BY HandlersHold, CoreCorrect, UsualInductive, PTL

LEMMA AcceptingStep ==
    ASSUME CoreInv, UsualInv, Next, Accepting, ~Accepting'
    PROVE  ~listening' \/ Free = {} \/ asking' < asking \/ ~Usual'
<1> USE DEF CoreInv
<1> SUFFICES ASSUME Usual', listening', Free # {}, ~(asking' < asking) PROVE Accepting'
  OBVIOUS
<1>0. asking \in Nat
  BY DEF TypeOK
<1>1. Orderly
  BY UsualStays DEF UsualInv
<1>2. /\ DOMAIN port = 1..Len(port) /\ \A k \in 1..Len(port) : port[k] \in Completions
      /\ DOMAIN port' = 1..Len(port') /\ \A k \in 1..Len(port') : port'[k] \in Completions
  BY TypeStep DEF TypeOK
<1>3. /\ Accepting <=> accepts # {} \/ At(Accepted) # {} \/ Chaining # {}
      /\ Accepting' <=> accepts' # {} \/ At(Accepted)' # {} \/ Chaining' # {}
  BY <1>2 DEF Accepting, At, Accepted, Chaining, Chain
<1>4. listening \/ BeginListen
  BY WhoChanges DEF EndListen, Destroy, StopListening
<1>5. ~EndListen /\ ~Destroy /\ ~(DestroySocket /\ ~BeginListen)
  BY <1>4 DEF EndListen, Destroy, StopListening, DestroySocket, Phases
<1>6. CASE Chaining # {}
  <2>1. PICK p \in Procs : Chain(p)
    BY <1>6 DEF Chaining
  <2>2. CASE Chain(p)'
    BY <1>3, <2>2 DEF Chaining
  <2>3. CASE AcceptPending(p)
    BY <1>3, <2>3 DEF AcceptPending
  <2>4. ~NoFreeSlot(p)
    BY DEF NoFreeSlot
  <2>5. ~AcceptFails(p)
    <3>1. ASSUME AcceptFails(p) PROVE FALSE
      <4>1. pc[p] = "post" /\ UNCHANGED listening
        BY <3>1 DEF AcceptFails
      <4>2. conn[sock[cur[p]]] = "accepting"
        BY <1>1, <4>1 DEF Orderly, PendingInv
      <4>3. QED
        BY <1>0, <3>1, <4>1, <4>2 DEF AcceptFails
    <3>2. QED
      BY <3>1
  <2>6. QED
    BY <2>1, <2>2, <2>3, <2>4, <2>5, ChainGoesOn
<1>7. CASE At(Accepted) # {}
  <2>1. Single(At(Accepted))
    BY <1>1 DEF Orderly, OneAccept
  <2>2. CASE At(Accepted)' # {}
    BY <1>3, <2>2
  <2>3. CASE \E t \in Threads : TakeClose(t) \/ TakeAccept(t) \/ TakeRead(t)
    <3>1. PICK t \in Threads, key \in {"close", "acc", "client"} :
              Take(t, key) /\ (key = "acc" => TakeAccept(t))
      BY <2>3 DEF TakeClose, TakeAccept, TakeRead
    <3>2. CASE port[1] \notin Accepted
      BY <1>3, <1>7, <2>1, <3>1, <3>2, AtTaken
    <3>3. CASE port[1] \in Accepted
      <4>1. key = "acc" /\ Head(port).ok /\ t \in Procs
        BY <3>1, <3>3, HeadTyped DEF Accepted
      <4>2. pc' = [pc EXCEPT ![t] = "accept"]
        BY <3>1, <4>1 DEF TakeAccept, Goto
      <4>3. t \in Chaining'
        BY <4>1, <4>2 DEF Chaining, Chain, TypeOK
      <4>4. QED
        BY <1>3, <4>3
    <3>4. QED
      BY <3>2, <3>3
  <2>4. CASE \E k \in 1..Len(port') : port'[k] \in Accepted
    BY <1>3, <2>4 DEF At, Accepted
  <2>5. QED
    BY <1>3, <1>7, <2>2, <2>3, <2>4, AtStep
<1>8. CASE accepts # {}
  <2>1. CASE CompleteAccept
    <3>1. PICK e \in Completions : port' = Append(port, e) /\ e.key = "acc" /\ e.ok
      BY <2>1, Posted, Zenon
    <3>2. At(Accepted)' # {}
      BY <3>1, AtPosted DEF Accepted
    <3>3. QED
      BY <1>3, <3>2
  <2>2. CASE \E p \in Procs : EndClient(p)
    <3>1. PICK p \in Procs : EndClient(p)
      BY <2>2
    <3>2. /\ accepts' = accepts \ {sock[cur[p]]} /\ accepts = {sock[accOv]}
          /\ slot[accOv] = "pending" /\ accOv \in Slots /\ sock[accOv] # None
      BY <1>1, <1>8, <3>1 DEF EndClient, CloseSocket, Orderly, PendingInv, Linked, TypeOK
    <3>3. cur[p] \in Slots /\ p \in Readers(cur[p]) /\ home[sock[cur[p]]] = cur[p]
      BY <1>1, <3>1, ReaderOf
    <3>4. slot[cur[p]] = "connected"
      BY <1>1, <3>3 DEF Orderly, ConnectedInv
    <3>5. home[sock[accOv]] = accOv
      BY <3>2 DEF Linked
    <3>6. sock[cur[p]] # sock[accOv]
      BY <3>2, <3>3, <3>4, <3>5
    <3>7. QED
      BY <1>3, <3>2, <3>6
  <2>3. CASE BeginListen \/ DestroySocket
    BY <1>1, <1>5, <1>8, <2>3 DEF BeginListen, Orderly, OneAccept
  <2>4. CASE UNCHANGED accepts \/ \E p \in Procs : AcceptPending(p)
    BY <1>3, <1>8, <2>4 DEF AcceptPending
  <2>5. ~BreakAccept
    <3>1. BreakAccept => asking' = asking - 1
      BY DEF BreakAccept
    <3>2. QED
      BY <1>0, <3>1
  <2>6. QED
    BY <1>5, <2>1, <2>2, <2>3, <2>4, <2>5, WhoChanges, UsualStays, Zenon
<1>9. QED
  BY <1>3, <1>6, <1>7, <1>8

\* Nobody stops accepting but the user, a moment without a free slot or a waiting
\* peer that has gone: the accept, its completion and the thread that starts the
\* next one hand on to each other.
THEOREM AcceptingCorrect == Spec => AcceptingGoesOn
<1>1. CoreInv /\ UsualInv /\ [Next]_vars =>
          [Accepting /\ ~Accepting' =>
               ~listening' \/ Free = {} \/ asking' < asking \/ ~Usual']_vars
  BY AcceptingStep
<1>2. QED
  BY <1>1, CoreCorrect, UsualInductive, PTL DEF Spec, AcceptingGoesOn

=============================================================================
