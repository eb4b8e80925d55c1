----------------------------- MODULE PipeServer -----------------------------
(***************************************************************************)
(* ProtobufPipeServer: the connection thread, WriteMessage as the AR tag   *)
(* localizer's main thread calls it, and the processes at the other ends   *)
(* of the pipes, which connect, read (or stop reading) and leave.  They    *)
(* send nothing, and the localizer never destroys its server.              *)
(***************************************************************************)
EXTENDS Integers, SequencesExt

CONSTANTS
    MaxConns,   \* bound: connections ever made, numbered in their order
    MaxMsgs,    \* bound: messages that WriteMessage sends
    Quota       \* writes that fit in a pipe before a write has to wait

ASSUME BoundsAssumption == MaxConns \in Nat /\ MaxMsgs \in Nat /\ Quota \in Nat

Conns == 1..MaxConns
None == 0

VARIABLES
    tpc, running, event, instance,  \* connection thread; instance: see Init
    pipes, owner,                   \* client list, owner of hPipesMutex
    mpc, msg, i, unread,            \* WriteMessage; unread: see WriteBody
    client, chan, got,              \* per client: state, unread and read data
    info,                           \* per client: its ClientInfo
    missed,                         \* history: a connection got lost
    since, left                     \* history, per client: the first message
                                    \* meant for it, the last when it left

threadVars == <<tpc, running, event, instance, missed>>
mainVars == <<mpc, msg, i, unread>>
clientVars == <<client, chan, got, left>>
listVars == <<pipes, owner, info, since>>
vars == <<threadVars, mainVars, clientVars, listVars>>

Unused == -1        \* instance: no client yet, ConnectNamedPipe not called
Listening == -2     \* instance: no client yet, ConnectNamedPipe pending

-----------------------------------------------------------------------------
(* The connection thread.  A client of the current instance is remembered  *)
(* in "instance" until the thread has put it in the list.                  *)

CreatePipe ==
    /\ tpc = "create"
    /\ instance' = Unused
    /\ tpc' = "connect"
    /\ UNCHANGED <<running, event, missed, mainVars, clientVars, listVars>>

\* Mutant of ConnectPipe: SetEvent, for a pending call too.
ConnectPipe_Signals ==
    /\ tpc = "connect"
    /\ instance' = IF instance = Unused THEN Listening ELSE instance
    /\ event' = TRUE
    /\ running' = TRUE
    /\ tpc' = "wait"
    /\ UNCHANGED <<missed, mainVars, clientVars, listVars>>

\* ConnectNamedPipe clears the event.  If a client was faster, PulseEvent sets
\* it for the threads waiting at that moment, of which there are none.
ConnectPipe ==
    /\ tpc = "connect"
    /\ instance' = IF instance = Unused THEN Listening ELSE instance
    /\ missed' = (missed \/ instance # Unused)
    /\ event' = FALSE
    /\ running' = TRUE
    /\ tpc' = "wait"
    /\ UNCHANGED <<mainVars, clientVars, listVars>>

ConnectSignalled ==
    /\ tpc = "wait" /\ event
    /\ event' = FALSE
    /\ tpc' = "lock"
    /\ UNCHANGED <<running, instance, missed, mainVars, clientVars, listVars>>

\* The mutex, and the new client's entry at the end of the list.
AddClient ==
    /\ tpc = "lock" /\ owner = "none"
    /\ owner' = "thread"
    /\ pipes' = Append(pipes, instance)
    /\ info' = [info EXCEPT ![instance] = "live"]
    /\ since' = [since EXCEPT ![instance] = msg + 1]
    /\ tpc' = "release"
    /\ UNCHANGED <<running, event, instance, missed, mainVars, clientVars>>

\* The mutex stays with a WriteMessage that waits for a reader: the thread goes
\* back to waiting for an event that it has already reset.
AddTimeout ==
    /\ tpc = "lock" /\ mpc = "wait"
    /\ missed' = TRUE
    /\ tpc' = "wait"
    /\ UNCHANGED <<running, event, instance, mainVars, clientVars, listVars>>

ReleasePipes ==
    /\ tpc = "release"
    /\ owner' = "none"
    /\ tpc' = "create"
    /\ UNCHANGED <<running, event, instance, missed, mainVars, clientVars,
                   pipes, info, since>>

Thread == CreatePipe \/ ConnectPipe \/ ConnectSignalled \/ AddClient
          \/ AddTimeout \/ ReleasePipes

-----------------------------------------------------------------------------
(* WriteMessage. *)

StartWrite ==
    /\ mpc = "idle" /\ running /\ msg < MaxMsgs
    /\ mpc' = "lock"
    /\ UNCHANGED <<msg, i, unread, threadVars, clientVars, listVars>>

LockPipes ==
    /\ mpc = "lock" /\ owner = "none"
    /\ owner' = "main"
    /\ msg' = msg + 1
    /\ i' = Len(pipes)
    /\ mpc' = "length"
    /\ UNCHANGED <<unread, threadVars, clientVars, pipes, info, since>>

\* The connection thread kept the mutex for more than waitTimeout.
LockTimeout ==
    /\ mpc = "lock" /\ owner = "thread"
    /\ mpc' = "idle"
    /\ UNCHANGED <<msg, i, unread, threadVars, clientVars, listVars>>

\* WriteFile: what it takes is in the pipe at once, also when the write must
\* wait for the quota.
Put(c, chunk) ==
    chan' = IF client[c] = "connected"
            THEN [chan EXCEPT ![c] = Append(@, <<chunk, msg>>)] ELSE chan

\* The result of this WriteFile is not looked at.
WriteLength ==
    /\ mpc = "length" /\ i > 0
    /\ Put(pipes[i], "length")
    /\ mpc' = "body"
    /\ UNCHANGED <<msg, i, unread, threadVars, client, got, left, listVars>>

\* The write is pending: what is in the pipe exceeds the quota.
Waits(c) == client[c] = "connected" /\ Len(chan[c]) + 1 > Quota

WriteBody ==
    /\ mpc = "body"
    /\ client[pipes[i]] = "connected"
    /\ Put(pipes[i], "body")
    /\ IF Waits(pipes[i])
       THEN mpc' = "wait" /\ unread' = Len(chan'[pipes[i]]) /\ i' = i
       ELSE mpc' = "length" /\ i' = i - 1 /\ UNCHANGED unread
    /\ UNCHANGED <<msg, threadVars, client, got, left, listVars>>

\* Mutant of WriteFails: the entry is deleted but stays in the list.
WriteFails_KeepsEntry ==
    /\ mpc = "body"
    /\ client[pipes[i]] # "connected"
    /\ info' = [info EXCEPT ![pipes[i]] = "deleted"]
    /\ mpc' = "length" /\ i' = i - 1
    /\ UNCHANGED <<msg, unread, threadVars, clientVars, pipes, owner, since>>

\* Mutant of WriteFails: the loop goes on as if nothing had been erased.
WriteFails_SkipsNext ==
    /\ mpc = "body"
    /\ client[pipes[i]] # "connected"
    /\ info' = [info EXCEPT ![pipes[i]] = "deleted"]
    /\ pipes' = RemoveAt(pipes, i)
    /\ mpc' = "length" /\ i' = IF i > 1 THEN i - 2 ELSE 0
    /\ UNCHANGED <<msg, unread, threadVars, clientVars, owner, since>>

\* Mutant of WriteFails: the error is reported and no more.
WriteFails_OnlyReports ==
    /\ mpc = "body"
    /\ client[pipes[i]] # "connected"
    /\ mpc' = "length" /\ i' = i - 1
    /\ UNCHANGED <<msg, unread, threadVars, clientVars, listVars>>

\* The client has left: WriteFile fails at once, and it is taken off the list.
WriteFails ==
    /\ mpc = "body"
    /\ client[pipes[i]] # "connected"
    /\ info' = [info EXCEPT ![pipes[i]] = "deleted"]
    /\ pipes' = RemoveAt(pipes, i)
    /\ mpc' = "length" /\ i' = i - 1
    /\ UNCHANGED <<msg, unread, threadVars, clientVars, owner, since>>

Unanswered(c) == client[c] = "connected" /\ Len(chan[c]) = unread

\* Mutant of WriteCompletes: it waits until everything is read.
WriteCompletes_Flushes ==
    /\ mpc = "wait"
    /\ chan[pipes[i]] = <<>>
    /\ mpc' = "length" /\ i' = i - 1
    /\ UNCHANGED <<msg, unread, threadVars, clientVars, listVars>>

\* GetOverlappedResult returns when any write that uses this OVERLAPPED is
\* completed, or when the client leaves; the entry of that client stays.
WriteCompletes ==
    /\ mpc = "wait"
    /\ ~Unanswered(pipes[i])
    /\ mpc' = "length" /\ i' = i - 1
    /\ UNCHANGED <<msg, unread, threadVars, clientVars, listVars>>

\* Mutant of FinishWrite: the mutex is not released.
FinishWrite_KeepsMutex ==
    /\ mpc = "length" /\ i = 0
    /\ mpc' = "idle"
    /\ UNCHANGED <<msg, i, unread, threadVars, clientVars, listVars>>

FinishWrite ==
    /\ mpc = "length" /\ i = 0
    /\ owner' = "none"
    /\ mpc' = "idle"
    /\ UNCHANGED <<msg, i, unread, threadVars, clientVars, pipes, info, since>>

Main == LockPipes \/ LockTimeout \/ WriteLength \/ WriteBody \/ WriteFails
        \/ WriteCompletes \/ FinishWrite

-----------------------------------------------------------------------------
(* The clients, and the pipes between. *)

Newest(c) == client[c] = "new" /\ \A d \in Conns : d < c => client[d] # "new"

\* A client opens the pipe; a pending ConnectNamedPipe sets the event.
Connect(c) ==
    /\ Newest(c)
    /\ instance \in {Unused, Listening}
    /\ instance' = c
    /\ event' = (event \/ instance = Listening)
    /\ client' = [client EXCEPT ![c] = "connected"]
    /\ UNCHANGED <<tpc, running, missed, mainVars, chan, got, left, listVars>>

Read(c) ==
    /\ client[c] = "connected" /\ chan[c] # <<>>
    /\ got' = [got EXCEPT ![c] = Append(@, Head(chan[c]))]
    /\ chan' = [chan EXCEPT ![c] = Tail(@)]
    /\ UNCHANGED <<client, left, threadVars, mainVars, listVars>>

\* It closes its end, and what it has not read is lost.
Leave(c) ==
    /\ client[c] = "connected"
    /\ client' = [client EXCEPT ![c] = "gone"]
    /\ chan' = [chan EXCEPT ![c] = <<>>]
    /\ left' = [left EXCEPT ![c] = msg]
    /\ UNCHANGED <<got, threadVars, mainVars, listVars>>

Init ==
    /\ tpc = "create" /\ running = FALSE /\ event = TRUE
    /\ instance = None  \* Unused, Listening, or the client that connected to it
    /\ pipes = <<>> /\ owner = "none"
    /\ mpc = "idle" /\ msg = 0 /\ i = 0 /\ unread = 0
    /\ client = [c \in Conns |-> "new"]
    /\ chan = [c \in Conns |-> <<>>] /\ got = [c \in Conns |-> <<>>]
    /\ info = [c \in Conns |-> "none"]
    /\ missed = FALSE
    /\ since = [c \in Conns |-> 0] /\ left = [c \in Conns |-> 0]

Next ==
    \/ Thread \/ StartWrite \/ Main
    \/ \E c \in Conns : Connect(c) \/ Read(c) \/ Leave(c)

Spec == Init /\ [][Next]_vars

\* Both threads run, a mutex is given to the threads that wait for it in turn,
\* and a wait for it that is in vain times out.  Nothing is assumed of the clients.
FairSpec ==
    /\ Spec
    /\ WF_vars(CreatePipe \/ ConnectPipe \/ ConnectSignalled \/ ReleasePipes)
    /\ SF_vars(AddClient) /\ WF_vars(AddTimeout)
    /\ WF_vars(WriteLength \/ WriteBody \/ WriteFails \/ WriteCompletes
               \/ FinishWrite)
    /\ SF_vars(LockPipes)

-----------------------------------------------------------------------------
(* Properties. *)

Listed(c) == c \in ToSet(pipes)

Chunk == {"length", "body"} \X (1..MaxMsgs)

\* Type invariant.
TypeOK ==
    /\ tpc \in {"create", "connect", "wait", "lock", "release"}
    /\ running \in BOOLEAN /\ event \in BOOLEAN /\ missed \in BOOLEAN
    /\ instance \in {None, Unused, Listening} \cup Conns
    /\ pipes \in Seq(Conns)
    /\ owner \in {"none", "thread", "main"}
    /\ mpc \in {"idle", "lock", "length", "body", "wait"}
    /\ msg \in 0..MaxMsgs /\ i \in 0..Len(pipes) /\ unread \in Nat
    /\ client \in [Conns -> {"new", "connected", "gone"}]
    /\ chan \in [Conns -> Seq(Chunk)] /\ got \in [Conns -> Seq(Chunk)]
    /\ info \in [Conns -> {"none", "live", "deleted"}]
    /\ since \in [Conns -> 0..(MaxMsgs + 1)] /\ left \in [Conns -> 0..MaxMsgs]

\* The frames of the messages from first to last: length, then body.
Frames(first, last) ==
    [n \in 1..(2 * (last - first + 1)) |->
        <<IF n % 2 = 1 THEN "length" ELSE "body", first + (n - 1) \div 2>>]

\* Whatever happens to other clients in the same loop, a client in the list has
\* been sent every message since it joined, whole and in order, when WriteMessage
\* is over.
EveryClientGetsEveryMessage ==
    owner # "main" =>
        \A c \in Conns : Listed(c) /\ client[c] = "connected" =>
            got[c] \o chan[c] = Frames(since[c], msg)

\* The list has an entry for each ClientInfo that is not deleted, and one only.
ListIsLive ==
    /\ ToSet(pipes) = {c \in Conns : info[c] = "live"}
    /\ IsInjective(pipes)

\* A client that has left is off the list as soon as a message that was meant
\* for it after that has been written.
GoneClientsAreDropped ==
    owner # "main" =>
        \A c \in Conns :
            Listed(c) /\ client[c] = "gone" => msg <= left[c] \/ msg < since[c]

\* WriteMessage returns, unless it waits for ever for a client that reads no
\* more.
WriteReturns ==
    \/ []<>(mpc = "idle")
    \/ <>[](mpc = "wait" /\ Unanswered(pipes[i]))

\* A client that connects is put in the list or leaves, unless this connection
\* or one before it got lost.
ClientsAreServed ==
    \A c \in Conns : client[c] = "connected" ~>
        Listed(c) \/ client[c] = "gone" \/ missed
=============================================================================
