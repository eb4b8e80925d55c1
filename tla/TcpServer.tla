------------------------------ MODULE TcpServer ------------------------------
(***************************************************************************)
(* tcp_server: client slots, overlapped accepts and reads, and the threads *)
(* that take their completions from one port.  Its user listens once, may  *)
(* close clients it was told of, stops listening, destroys the server.     *)
(* Peers connect, send and end as they like.                               *)
(***************************************************************************)
EXTENDS Integers, Sequences, FiniteSets

CONSTANTS
    Threads,    \* listener threads
    Main,       \* the user's thread
    NumSlots,   \* TCP_SERVER_MAX_CLIENTS
    MaxSocks,   \* bound: sockets ever made for slots
    MaxConns,   \* bound: connections that peers ask for
    MaxData,    \* bound: pieces of data that peers send
    MaxOdd      \* bound: see odd

ASSUME SlotsAssumption == NumSlots \in Nat \ {0}
ASSUME BoundsAssumption ==
    MaxSocks \in Nat /\ MaxConns \in Nat /\ MaxData \in Nat /\ MaxOdd \in Nat
ASSUME ThreadsAssumption == Main \notin Threads /\ IsFiniteSet(Threads)

Slots == 1..NumSlots
Socks == 1..MaxSocks
Pieces == 1..MaxData        \* data, in the order in which it is sent
Procs == Threads \cup {Main}
None == 0

VARIABLES
    slot, sock, cbk,            \* clients[]: state, sock, callbacks are set
    conn, home, reads,          \* per socket: state, its slot, pending reads
    unread,                     \* per socket: data sent and not received
    listening, asking, accepts, \* acc_sock: open, peers waiting, sockets with
                                \* an AcceptEx pending
    accOv, accCbk,              \* ov_accept.client; acc_cbk is set
    port,                       \* the completion port's queue
    pc, cur, data, back,        \* per thread: its client, what it has read,
                                \* where it goes on after do_read
    user,                       \* slots the user has been told of
    made, sent, heard, odd      \* history: connections, data sent, how often
                                \* read_cbk was given it; what was not as usual

slotVars == <<slot, sock, cbk>>
connVars == <<conn, home, reads, unread>>
accVars == <<listening, asking, accepts>>
procVars == <<cur, data, back>>
histVars == <<made, sent, heard, odd>>
vars == <<slotVars, connVars, accVars, accOv, accCbk, port, pc, procVars,
          user, histVars>>

-----------------------------------------------------------------------------
(* What threads share. *)

Home(p) == IF p = Main THEN "idle" ELSE "wait"

Goto(p, label) == pc' = [pc EXCEPT ![p] = label]

Completion(key, c, ok, d) == [key |-> key, slot |-> c, ok |-> ok, data |-> d]

\* Something unusual happens: a socket cannot be made, a call on one is over at
\* once, or the user closes a client.
Unusual(what) == Len(odd) < MaxOdd /\ odd' = Append(odd, what)

\* closesocket: what is pending on the socket fails, with a completion each.  On
\* a socket that is closed already it does nothing.
Aborted(s) ==
    [k \in 1..reads[s] |-> Completion("client", home[s], FALSE, {})]
    \o (IF s \in accepts THEN <<Completion("acc", None, FALSE, {})>> ELSE <<>>)

CloseSocket(s) ==
    /\ conn' = [conn EXCEPT ![s] = "closed"]
    /\ reads' = [reads EXCEPT ![s] = 0]
    /\ unread' = [unread EXCEPT ![s] = {}]
    /\ accepts' = accepts \ {s}
    /\ port' = port \o Aborted(s)
    /\ UNCHANGED <<home, listening, asking>>

-----------------------------------------------------------------------------
(* start_accept and handle_accept, in a listener thread or in begin_listen. *)

Free == {c \in Slots : slot[c] = "free"}
FirstFree(c) == c \in Free /\ \A d \in Free : c <= d

\* The next socket that is made.
NextSock(s) == conn[s] = "none" /\ \A t \in Socks : t < s => conn[t] # "none"

\* The destructor has the critical section from the first slot it looks at to
\* the last.
Locked == pc[Main] = "socks" /\ cur[Main] > 1

\* Mutant of TakeSlot: the entry stays locked.
TakeSlot_StaysLocked(p) ==
    /\ pc[p] = "start" /\ ~Locked
    /\ \E c \in Slots, s \in Socks :
        /\ FirstFree(c) /\ NextSock(s)
        /\ slot' = [slot EXCEPT ![c] = "locked"]
        /\ cur' = [cur EXCEPT ![p] = c]
        /\ sock' = [sock EXCEPT ![c] = s]
    /\ Goto(p, "post")
    /\ UNCHANGED <<cbk, connVars, accVars, accOv, accCbk, port, data, back, user,
                   histVars>>

\* get_free_entry, and what follows under the same lock.
TakeSlot(p) ==
    /\ pc[p] = "start" /\ ~Locked
    /\ \E c \in Slots, s \in Socks :
        /\ FirstFree(c) /\ NextSock(s)
        /\ slot' = [slot EXCEPT ![c] = "pending"]
        /\ cbk' = [cbk EXCEPT ![c] = FALSE]
        /\ sock' = [sock EXCEPT ![c] = s]
        /\ conn' = [conn EXCEPT ![s] = "accepting"]
        /\ home' = [home EXCEPT ![s] = c]
        /\ cur' = [cur EXCEPT ![p] = c]
    /\ Goto(p, "post")
    /\ UNCHANGED <<reads, unread, accVars, accOv, accCbk, port, data, back, user,
                   histVars>>

\* WSASocket fails: the entry it took is free again.
SocketFails(p) ==
    /\ pc[p] = "start" /\ ~Locked
    /\ \E c \in Slots : FirstFree(c) /\ cbk' = [cbk EXCEPT ![c] = FALSE]
    /\ Unusual("socket")
    /\ Goto(p, Home(p))
    /\ UNCHANGED <<slot, sock, connVars, accVars, accOv, accCbk, port, procVars,
                   user, made, sent, heard>>

NoFreeSlot(p) ==
    /\ pc[p] = "start" /\ ~Locked /\ Free = {}
    /\ Goto(p, Home(p))
    /\ UNCHANGED <<slotVars, connVars, accVars, accOv, accCbk, port, procVars,
                   user, histVars>>

\* AcceptEx returns at once, and there is a completion for it all the same.
AcceptAtOnce(p) ==
    /\ pc[p] = "post"
    /\ LET s == sock[cur[p]]
       IN /\ listening /\ conn[s] = "accepting" /\ asking > 0
          /\ conn' = [conn EXCEPT ![s] = "connected"]
    /\ asking' = asking - 1
    /\ accOv' = cur[p]
    /\ port' = Append(port, Completion("acc", None, TRUE, {}))
    /\ Unusual("quick")
    /\ Goto(p, "accept")
    /\ UNCHANGED <<slotVars, home, reads, unread, listening, accepts, accCbk,
                   procVars, user, made, sent, heard>>

AcceptPending(p) ==
    /\ pc[p] = "post"
    /\ listening /\ conn[sock[cur[p]]] = "accepting"
    /\ accOv' = cur[p]
    /\ accepts' = accepts \cup {sock[cur[p]]}
    /\ Goto(p, Home(p))
    /\ UNCHANGED <<slotVars, connVars, listening, asking, accCbk, port,
                   procVars, user, histVars>>

\* A socket is closed, or the peer that waited has gone.  The slot stays pending.
AcceptFails(p) ==
    /\ pc[p] = "post"
    /\ IF listening /\ conn[sock[cur[p]]] = "accepting"
       THEN asking > 0 /\ asking' = asking - 1
       ELSE UNCHANGED asking
    /\ accOv' = cur[p]
    /\ Goto(p, Home(p))
    /\ UNCHANGED <<slotVars, connVars, listening, accepts, accCbk, port, procVars,
                   user, histVars>>

\* Mutant of HandleAccept: the next accept is not started.
HandleAccept_Once(p) ==
    /\ pc[p] = "accept"
    /\ slot' = [slot EXCEPT ![cur[p]] = "connected"]
    /\ back' = [back EXCEPT ![p] = "wait"]
    /\ Goto(p, IF accCbk THEN "tell" ELSE "read")
    /\ UNCHANGED <<sock, cbk, connVars, accVars, accOv, accCbk, port, cur, data, user,
                   histVars>>

\* handle_accept up to the test of acc_cbk.
HandleAccept(p) ==
    /\ pc[p] = "accept"
    /\ slot' = [slot EXCEPT ![cur[p]] = "connected"]
    /\ back' = [back EXCEPT ![p] = "start"]
    /\ Goto(p, IF accCbk THEN "tell" ELSE "read")
    /\ UNCHANGED <<sock, cbk, connVars, accVars, accOv, accCbk, port, cur, data, user,
                   histVars>>

\* The call of acc_cbk, in which the user sets the client's callbacks.  end_listen
\* may have cleared it since the test: a build that reads it again calls NULL.
Tell(p) ==
    /\ pc[p] = "tell"
    /\ \/ /\ cbk' = [cbk EXCEPT ![cur[p]] = TRUE]
          /\ user' = user \cup {cur[p]}
          /\ Goto(p, "read")
       \/ ~accCbk /\ Goto(p, "crashed") /\ UNCHANGED <<cbk, user>>
    /\ UNCHANGED <<slot, sock, connVars, accVars, accOv, accCbk, port, procVars, histVars>>

-----------------------------------------------------------------------------
(* do_read. *)

ReadPending(p) ==
    /\ pc[p] = "read"
    /\ conn[sock[cur[p]]] \in {"connected", "ended"}
    /\ reads' = [reads EXCEPT ![sock[cur[p]]] = @ + 1]
    /\ Goto(p, back[p])
    /\ UNCHANGED <<slotVars, conn, home, unread, accVars, accOv, accCbk, port,
                   procVars, user, histVars>>

\* WSARecv returns at once: with data, or with none after the peer's last.
\* There is a completion for it all the same.
ReadAtOnce(p) ==
    /\ pc[p] = "read"
    /\ LET s == sock[cur[p]]
       IN /\ \/ conn[s] = "connected" /\ unread[s] # {}
             \/ conn[s] = "ended"
          /\ data' = [data EXCEPT ![p] = unread[s]]
          /\ unread' = [unread EXCEPT ![s] = {}]
          /\ port' = Append(port, Completion("client", cur[p], TRUE, unread[s]))
    /\ Unusual("quick")
    /\ Goto(p, "deliver")
    /\ UNCHANGED <<slotVars, conn, home, reads, accVars, accOv, accCbk, cur, back, user,
                   made, sent, heard>>

\* The socket is closed, or its peer has broken off.
ReadFails(p) ==
    /\ pc[p] = "read"
    /\ conn[sock[cur[p]]] # "connected"
    /\ Goto(p, "close")
    /\ UNCHANGED <<slotVars, connVars, accVars, accOv, accCbk, port, procVars,
                   user, histVars>>

\* read_cbk, for do_read and for a completion.
Deliver(p) ==
    /\ pc[p] = "deliver"
    /\ heard' = [d \in Pieces |->
                    IF cbk[cur[p]] /\ d \in data[p] THEN heard[d] + 1 ELSE heard[d]]
    /\ Goto(p, IF data[p] = {} THEN "close" ELSE "read")
    /\ UNCHANGED <<slotVars, connVars, accVars, accOv, accCbk, port, procVars, user, made,
                   sent, odd>>

\* Mutant of EndClient: the entry is freed before its socket is closed.
EndClient_FreesFirst(p) ==
    /\ pc[p] = "close"
    /\ user' = IF cbk[cur[p]] THEN user \ {cur[p]} ELSE user
    /\ slot' = [slot EXCEPT ![cur[p]] = "free"]
    /\ CloseSocket(sock[cur[p]])
    /\ Goto(p, "free")
    /\ UNCHANGED <<sock, cbk, accOv, accCbk, procVars, histVars>>

\* close_cbk, and the socket; its entry is still taken.
EndClient(p) ==
    /\ pc[p] = "close"
    /\ user' = IF cbk[cur[p]] THEN user \ {cur[p]} ELSE user
    /\ slot' = [slot EXCEPT ![cur[p]] = "cleaning"]
    /\ CloseSocket(sock[cur[p]])
    /\ Goto(p, "free")
    /\ UNCHANGED <<sock, cbk, accOv, accCbk, procVars, histVars>>

FreeEntry(p) ==
    /\ pc[p] = "free"
    /\ slot' = [slot EXCEPT ![cur[p]] = "free"]
    /\ Goto(p, back[p])
    /\ UNCHANGED <<sock, cbk, connVars, accVars, accOv, accCbk, port, procVars,
                   user, histVars>>

-----------------------------------------------------------------------------
(* listener_thread takes a completion. *)

Take(t, key) ==
    /\ pc[t] = "wait" /\ port # <<>> /\ Head(port).key = key
    /\ port' = Tail(port)
    /\ UNCHANGED <<slotVars, connVars, accVars, accOv, accCbk, user, histVars>>

TakeClose(t) ==
    /\ Take(t, "close")
    /\ Goto(t, "done")
    /\ UNCHANGED procVars

TakeAccept(t) ==
    /\ Take(t, "acc")
    /\ IF Head(port).ok
       THEN /\ cur' = [cur EXCEPT ![t] = accOv]
            /\ Goto(t, "accept")
       ELSE UNCHANGED <<pc, cur>>
    /\ UNCHANGED <<data, back>>

\* Mutant of TakeRead: the result is not looked at, and after an error it hands
\* on what it had read before.
TakeRead_AfterError(t) ==
    /\ Take(t, "client")
    /\ cur' = [cur EXCEPT ![t] = Head(port).slot]
    /\ data' = IF Head(port).ok THEN [data EXCEPT ![t] = Head(port).data] ELSE data
    /\ back' = [back EXCEPT ![t] = "wait"]
    /\ Goto(t, "deliver")

TakeRead(t) ==
    /\ Take(t, "client")
    /\ cur' = [cur EXCEPT ![t] = Head(port).slot]
    /\ data' = [data EXCEPT ![t] = Head(port).data]
    /\ back' = [back EXCEPT ![t] = "wait"]
    /\ Goto(t, IF Head(port).ok THEN "deliver" ELSE "close")

-----------------------------------------------------------------------------
(* The user's thread. *)

\* begin_listen: the callback and the socket, then start_accept.
BeginListen ==
    /\ pc[Main] = "init"
    /\ accCbk' = TRUE
    /\ listening' = TRUE
    /\ Goto(Main, "start")
    /\ UNCHANGED <<slotVars, connVars, asking, accepts, accOv, port,
                   procVars, user, histVars>>

\* close: a client that the user was told of, and not told that it ended.
Close(c) ==
    /\ pc[Main] = "idle" /\ c \in user
    /\ user' = user \ {c}
    /\ cur' = [cur EXCEPT ![Main] = c]
    /\ back' = [back EXCEPT ![Main] = "idle"]
    /\ Unusual("close")
    /\ CloseSocket(sock[c])
    /\ Goto(Main, "free")
    /\ UNCHANGED <<slotVars, accOv, accCbk, data, made, sent, heard>>

\* closesocket(acc_sock)
StopListening == listening' = FALSE /\ asking' = 0 /\ accepts' = {}
AbortedAccepts ==
    [k \in 1..Cardinality(accepts) |-> Completion("acc", None, FALSE, {})]

\* end_listen: the socket, then the callback.
EndListen ==
    /\ pc[Main] = "idle" /\ listening
    /\ StopListening
    /\ port' = port \o AbortedAccepts
    /\ Goto(Main, "clear")
    /\ UNCHANGED <<slotVars, connVars, accOv, accCbk, procVars, user, histVars>>

ClearCallback ==
    /\ pc[Main] = "clear"
    /\ accCbk' = FALSE
    /\ Goto(Main, "idle")
    /\ UNCHANGED <<slotVars, connVars, accVars, accOv, port, procVars, user,
                   histVars>>

\* Mutant of Destroy: one completion tells all threads to close down.
Destroy_PostsOne ==
    /\ pc[Main] = "idle"
    /\ StopListening
    /\ port' = Append(port, Completion("close", None, TRUE, {})) \o AbortedAccepts
    /\ Goto(Main, "socks")
    /\ cur' = [cur EXCEPT ![Main] = 1]
    /\ UNCHANGED <<slotVars, connVars, accOv, accCbk, data, back, user, histVars>>

\* The destructor: a completion for each thread, the listening socket,
Destroy ==
    /\ pc[Main] = "idle"
    /\ StopListening
    /\ port' = port \o [k \in 1..Cardinality(Threads) |->
                            Completion("close", None, TRUE, {})] \o AbortedAccepts
    /\ Goto(Main, "socks")
    /\ cur' = [cur EXCEPT ![Main] = 1]
    /\ UNCHANGED <<slotVars, connVars, accOv, accCbk, data, back, user, histVars>>

\* the socket of each slot that is in use at that moment, slot after slot,
DestroySocket ==
    /\ pc[Main] = "socks"
    /\ IF slot[cur[Main]] \in {"connected", "pending"}
       THEN CloseSocket(sock[cur[Main]])
       ELSE UNCHANGED <<connVars, accVars, port>>
    /\ IF cur[Main] < NumSlots
       THEN cur' = [cur EXCEPT ![Main] = @ + 1] /\ UNCHANGED pc
       ELSE Goto(Main, "join") /\ UNCHANGED cur
    /\ UNCHANGED <<slotVars, accOv, accCbk, data, back, user, histVars>>

\* and the threads.
Join ==
    /\ pc[Main] = "join"
    /\ \A t \in Threads : pc[t] = "done"
    /\ Goto(Main, "done")
    /\ UNCHANGED <<slotVars, connVars, accVars, accOv, accCbk, port, procVars,
                   user, histVars>>

-----------------------------------------------------------------------------
(* Peers and the kernel. *)

PeerConnects ==
    /\ listening /\ made < MaxConns
    /\ made' = made + 1
    /\ asking' = asking + 1
    /\ UNCHANGED <<slotVars, connVars, listening, accepts, accOv, accCbk, port,
                   pc, procVars, user, sent, heard, odd>>

PeerSends(s) ==
    /\ conn[s] = "connected" /\ sent < MaxData
    /\ sent' = sent + 1
    /\ unread' = [unread EXCEPT ![s] = @ \cup {sent'}]
    /\ UNCHANGED <<slotVars, conn, home, reads, accVars, accOv, accCbk, port, pc,
                   procVars, user, made, heard, odd>>

PeerEnds(s) ==
    /\ conn[s] = "connected"
    /\ conn' = [conn EXCEPT ![s] = "ended"]
    /\ UNCHANGED <<slotVars, home, reads, unread, accVars, accOv, accCbk, port, pc,
                   procVars, user, histVars>>

CompleteAccept ==
    /\ asking > 0
    /\ asking' = asking - 1
    /\ \E s \in accepts :
        /\ accepts' = accepts \ {s}
        /\ conn' = [conn EXCEPT ![s] = "connected"]
    /\ port' = Append(port, Completion("acc", None, TRUE, {}))
    /\ UNCHANGED <<slotVars, home, reads, unread, listening, accOv, accCbk, pc,
                   procVars, user, histVars>>

\* The peer that is taken has gone: an error.
BreakAccept ==
    /\ asking > 0
    /\ asking' = asking - 1
    /\ \E s \in accepts : accepts' = accepts \ {s}
    /\ port' = Append(port, Completion("acc", None, FALSE, {}))
    /\ UNCHANGED <<slotVars, connVars, listening, accOv, accCbk, pc, procVars, user,
                   histVars>>

\* With data, with none after the peer's last, or, if it broke off, an error.
CompleteRead(s) ==
    /\ reads[s] > 0
    /\ \/ /\ unread[s] # {} \/ conn[s] = "ended"
          /\ port' = Append(port, Completion("client", home[s], TRUE, unread[s]))
       \/ /\ conn[s] = "ended"
          /\ port' = Append(port, Completion("client", home[s], FALSE, {}))
    /\ reads' = [reads EXCEPT ![s] = @ - 1]
    /\ unread' = [unread EXCEPT ![s] = {}]
    /\ UNCHANGED <<slotVars, conn, home, accVars, accOv, accCbk, pc,
                   procVars, user, histVars>>

-----------------------------------------------------------------------------
Init ==
    /\ slot = [c \in Slots |-> "free"]
    /\ sock = [c \in Slots |-> None]
    /\ cbk = [c \in Slots |-> FALSE]
    /\ conn = [s \in Socks |-> "none"]
    /\ home = [s \in Socks |-> None]
    /\ reads = [s \in Socks |-> 0]
    /\ unread = [s \in Socks |-> {}]
    /\ listening = FALSE /\ asking = 0 /\ accepts = {} /\ accOv = None
    /\ accCbk = FALSE
    /\ port = <<>>
    /\ pc = [p \in Procs |-> IF p = Main THEN "init" ELSE "wait"]
    /\ cur = [p \in Procs |-> None]
    /\ data = [p \in Procs |-> {}]
    /\ back = [p \in Procs |-> Home(p)]
    /\ user = {} /\ made = 0 /\ sent = 0 /\ heard = [d \in Pieces |-> 0] /\ odd = <<>>

Step(p) ==
    \/ TakeSlot(p) \/ SocketFails(p) \/ NoFreeSlot(p)
    \/ AcceptAtOnce(p) \/ AcceptPending(p) \/ AcceptFails(p)
    \/ HandleAccept(p) \/ Tell(p)
    \/ ReadPending(p) \/ ReadAtOnce(p) \/ ReadFails(p) \/ Deliver(p)
    \/ EndClient(p) \/ FreeEntry(p)

Listener(t) == Step(t) \/ TakeClose(t) \/ TakeAccept(t) \/ TakeRead(t)

Destructor == DestroySocket \/ Join

User ==
    BeginListen \/ (\E c \in Slots : Close(c)) \/ EndListen \/ ClearCallback \/ Destroy

Peers ==
    \/ PeerConnects
    \/ \E s \in Socks : PeerSends(s) \/ PeerEnds(s)

Kernel == CompleteAccept \/ BreakAccept \/ \E s \in Socks : CompleteRead(s)

\* Until one has called NULL.
Next ==
    /\ \A p \in Procs : pc[p] # "crashed"
    /\ \/ \E t \in Threads : Listener(t)
       \/ Step(Main) \/ User \/ Destructor
       \/ Peers \/ Kernel

Spec == Init /\ [][Next]_vars

-----------------------------------------------------------------------------
(* Properties. *)

Labels == {"init", "idle", "wait", "start", "post", "accept", "tell", "read",
           "deliver", "close", "free", "clear", "socks", "join", "done", "crashed"}
Completions ==
    [key : {"acc", "client", "close"}, slot : Slots \cup {None}, ok : BOOLEAN,
     data : SUBSET Pieces]

\* Type invariant.
TypeOK ==
    /\ slot \in [Slots -> {"free", "pending", "connected", "cleaning"}]
    /\ sock \in [Slots -> Socks \cup {None}] /\ cbk \in [Slots -> BOOLEAN]
    /\ conn \in [Socks -> {"none", "accepting", "connected", "ended", "closed"}]
    /\ home \in [Socks -> Slots \cup {None}]
    /\ reads \in [Socks -> Nat] /\ unread \in [Socks -> SUBSET Pieces]
    /\ listening \in BOOLEAN /\ asking \in 0..made
    /\ accepts \in SUBSET Socks /\ accOv \in Slots \cup {None}
    /\ accCbk \in BOOLEAN
    /\ port \in Seq(Completions)
    /\ pc \in [Procs -> Labels] /\ cur \in [Procs -> Slots \cup {None}]
    /\ data \in [Procs -> SUBSET Pieces]
    /\ back \in [Procs -> {"idle", "wait", "start"}]
    /\ user \in SUBSET Slots
    /\ made \in 0..MaxConns /\ sent \in 0..MaxData /\ heard \in [Pieces -> Nat]
    /\ odd \in Seq({"socket", "quick", "close"}) /\ Len(odd) <= MaxOdd

Busy == {"post", "accept", "tell", "read", "deliver", "close", "free", "crashed"}

\* Who will go on with a slot: an accept or a read that is pending, their
\* completion, or a thread.
Handlers(c) ==
    {<<"accept", s>> : s \in {s \in accepts : home[s] = c}}
    \cup {<<"accepted", k>> : k \in {k \in DOMAIN port :
              port[k].key = "acc" /\ port[k].ok /\ accOv = c}}
    \cup {<<"thread", p>> : p \in {p \in Procs : pc[p] \in Busy /\ cur[p] = c}}
    \cup (UNION {{<<"read", s, n>> : n \in 1..reads[s]} :
                     s \in {s \in Socks : home[s] = c}})
    \cup {<<"done", k>> : k \in {k \in DOMAIN port :
              port[k].key = "client" /\ port[k].slot = c}}

Usual == odd = <<>>

\* As long as no call is over at once and close() is not used, a slot belongs to
\* one handler at a time, a free one to nobody; there is one for each connection,
\* so that its end does not go unnoticed; and what the user was told of is a
\* connection until the user is told that it ended.
OneHandlerPerSlot ==
    Usual => \A c \in Slots :
        /\ \A g, h \in Handlers(c) : g = h
        /\ slot[c] = "free" => Handlers(c) = {}
        /\ slot[c] = "connected" => Handlers(c) # {}
        /\ c \in user => slot[c] = "connected" /\ cbk[c]

\* As long as no call is over at once, read_cbk gets no data twice.
NothingHeardTwice ==
    (\A k \in DOMAIN odd : odd[k] # "quick") => \A d \in Pieces : heard[d] <= 1

Accepting ==
    \/ accepts # {}
    \/ \E k \in DOMAIN port : port[k].key = "acc" /\ port[k].ok
    \/ \E p \in Procs :
        \/ pc[p] \in {"start", "post", "accept"}
        \/ pc[p] \in Busy /\ back[p] = "start"

\* Accepting stops with the listening socket, in a moment when all slots are
\* taken, or with a waiting peer that has gone when it is taken; then it stops for
\* good, whoever leaves or comes.
AcceptingGoesOn ==
    [][Accepting /\ ~Accepting' =>
           ~listening' \/ Free = {} \/ asking' < asking \/ ~Usual']_vars

\* The destructor waits for threads that have their completion yet to come,
\* whatever was unusual before.
ThreadsWillEnd ==
    pc[Main] \in {"socks", "join"} =>
        Cardinality({k \in DOMAIN port : port[k].key = "close"})
            = Cardinality({t \in Threads : pc[t] # "done"})
=============================================================================
