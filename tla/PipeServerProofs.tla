-------------------------- MODULE PipeServerProofs --------------------------
(***************************************************************************)
(* The list of clients and the frames they get, for every number of        *)
(* connections and messages and every quota.                               *)
(***************************************************************************)
EXTENDS PipeServer, SequenceTheorems, TLAPS

USE BoundsAssumption

\* What RemoveAt returns.
LEMMA RemoveAtIs ==
    ASSUME NEW S, NEW s \in Seq(S), NEW k \in 1..Len(s)
    PROVE  /\ RemoveAt(s, k) \in Seq(S)
           /\ Len(RemoveAt(s, k)) = Len(s) - 1
           /\ \A j \in 1..(Len(s) - 1) :
                 RemoveAt(s, k)[j] = IF j < k THEN s[j] ELSE s[j + 1]
<1> DEFINE front == SubSeq(s, 1, k - 1)
           rest == SubSeq(s, k + 1, Len(s))
<1>1. /\ front \in Seq(S) /\ Len(front) = k - 1
      /\ \A j \in 1..(k - 1) : front[j] = s[j]
  OBVIOUS
<1>2. /\ rest \in Seq(S) /\ Len(rest) = Len(s) - k
      /\ \A j \in 1..(Len(s) - k) : rest[j] = s[j + k]
  OBVIOUS
<1>3. RemoveAt(s, k) = front \o rest
  BY DEF RemoveAt
<1> HIDE DEF front, rest
<1>4. /\ front \o rest \in Seq(S)
      /\ Len(front \o rest) = Len(s) - 1
      /\ \A j \in 1..(Len(s) - 1) :
            (front \o rest)[j] = IF j <= k - 1 THEN front[j] ELSE rest[j - (k - 1)]
  <2>1. front \o rest \in Seq(S) /\ Len(front \o rest) = Len(front) + Len(rest)
    BY <1>1, <1>2, ConcatProperties, Zenon
  <2>2. \A j \in 1..(Len(front) + Len(rest)) : (front \o rest)[j] =
            IF j <= Len(front) THEN front[j] ELSE rest[j - Len(front)]
    BY <1>1, <1>2, ConcatProperties, Zenon
  <2>3. Len(front) + Len(rest) = Len(s) - 1 /\ Len(front) = k - 1
    BY <1>1, <1>2
  <2>4. QED
    BY <2>1, <2>2, <2>3
<1>5. ASSUME NEW j \in 1..(Len(s) - 1)
      PROVE  (front \o rest)[j] = IF j < k THEN s[j] ELSE s[j + 1]
  <2>1. CASE j < k
    <3>1. j \in 1..(k - 1)
      BY <2>1
    <3>2. QED
      BY <1>1, <1>4, <2>1, <3>1
  <2>2. CASE ~(j < k)
    <3>1. j - (k - 1) \in 1..(Len(s) - k) /\ ~(j <= k - 1)
      BY <2>2
    <3>2. rest[j - (k - 1)] = s[(j - (k - 1)) + k]
      BY <1>2, <3>1
    <3>3. (j - (k - 1)) + k = j + 1
      OBVIOUS
    <3>4. QED
      BY <1>4, <2>2, <3>1, <3>2, <3>3
  <2>3. QED
    BY <2>1, <2>2
<1>6. QED
  BY <1>3, <1>4, <1>5

-----------------------------------------------------------------------------
LEMMA TypeInit == Init => TypeOK
<1> SUFFICES ASSUME Init PROVE TypeOK
  OBVIOUS
<1> USE DEF Init, TypeOK, None, Conns, Unused, Listening
<1>1. running \in BOOLEAN /\ event \in BOOLEAN /\ missed \in BOOLEAN
  BY Zenon
<1>2. /\ instance \in {None, Unused, Listening} \cup Conns
      /\ pipes \in Seq(Conns) /\ Len(pipes) = 0
  OBVIOUS
<1>3. /\ msg \in 0..MaxMsgs /\ i \in 0..Len(pipes) /\ unread \in Nat
      /\ since \in [Conns -> 0..(MaxMsgs + 1)] /\ left \in [Conns -> 0..MaxMsgs]
  BY <1>2
<1>4. /\ client \in [Conns -> {"new", "connected", "gone"}]
      /\ chan \in [Conns -> Seq(Chunk)] /\ got \in [Conns -> Seq(Chunk)]
      /\ info \in [Conns -> {"none", "live", "deleted"}]
  OBVIOUS
<1>5. QED
  BY <1>1, <1>2, <1>3, <1>4

\* The mutex belongs to whoever is past its wait; the loop index is at an entry
\* while that entry is written to.
LockInv ==
    /\ owner = "main" <=> mpc \in {"length", "body", "wait"}
    /\ owner = "thread" <=> tpc = "release"
    /\ mpc \in {"body", "wait"} => i \in 1..Len(pipes)
    /\ mpc = "lock" => msg < MaxMsgs
    /\ owner = "main" => msg \in 1..MaxMsgs

\* The event is set for a client that has connected, and the client of the
\* current instance has no entry yet.
InstanceInv ==
    /\ tpc = "wait" /\ event => instance \in Conns
    /\ tpc = "lock" => instance \in Conns /\ ~event
    /\ tpc \in {"connect", "wait", "lock"} /\ instance \in Conns =>
          info[instance] = "none" /\ client[instance] # "new"
    /\ tpc \in {"connect", "wait", "lock"} => instance # None
    /\ tpc \in {"release", "create"} => instance \in Conns \cup {None}
    /\ tpc = "connect" => instance # Listening
    /\ \A c \in Conns : client[c] = "new" => info[c] = "none"

\* The list and the ClientInfos agree, index by index.
ListInv ==
    /\ \A k \in 1..Len(pipes) : info[pipes[k]] = "live"
    /\ \A c \in Conns : info[c] = "live" => \E k \in 1..Len(pipes) : pipes[k] = c
    /\ \A j, k \in 1..Len(pipes) : pipes[j] = pipes[k] => j = k

CoreInv == TypeOK /\ LockInv /\ InstanceInv /\ ListInv

LEMMA CoreInit == Init => CoreInv
BY TypeInit DEF Init, CoreInv, LockInv, InstanceInv, ListInv, None, Conns, Unused,
                Listening

\* A new client with a new entry keeps list and ClientInfos agreed.
LEMMA AddedEntry ==
    ASSUME NEW S, NEW p \in Seq(S), NEW f \in [S -> {"none", "live", "deleted"}],
           NEW d \in S, f[d] = "none",
           \A j \in 1..Len(p) : f[p[j]] = "live",
           \A c \in S : f[c] = "live" => \E j \in 1..Len(p) : p[j] = c,
           \A j, l \in 1..Len(p) : p[j] = p[l] => j = l,
           NEW q, q = Append(p, d), NEW g, g = [f EXCEPT ![d] = "live"]
    PROVE  /\ \A j \in 1..Len(q) : g[q[j]] = "live"
           /\ \A c \in S : g[c] = "live" => \E j \in 1..Len(q) : q[j] = c
           /\ \A j, l \in 1..Len(q) : q[j] = q[l] => j = l
<1> DEFINE n == Len(p) + 1
<1>1. /\ Len(q) = n /\ q[n] = d /\ n \in 1..n
      /\ \A j \in 1..n : j = n \/ j \in 1..Len(p)
      /\ \A j \in 1..Len(p) : q[j] = p[j] /\ p[j] \in S /\ p[j] # d /\ j \in 1..n
  OBVIOUS
<1> HIDE DEF n
<1>2. \A j \in 1..n : g[q[j]] = "live"
  BY <1>1
<1>3. ASSUME NEW c \in S, g[c] = "live" PROVE \E j \in 1..n : q[j] = c
  BY <1>1, <1>3
<1>4. \A j, l \in 1..n : q[j] = q[l] => j = l
  BY <1>1
<1>5. QED
  BY <1>1, <1>2, <1>3, <1>4

LEMMA CoreThread == CoreInv /\ Thread => CoreInv'
<1> SUFFICES ASSUME CoreInv, Thread PROVE CoreInv'
  OBVIOUS
<1> USE DEF CoreInv, TypeOK, LockInv, InstanceInv, ListInv, mainVars, clientVars,
            listVars, None, Unused, Listening, Conns
<1>1. CASE CreatePipe
  BY <1>1 DEF CreatePipe
<1>2. CASE ConnectPipe
  <2> USE <1>2 DEF ConnectPipe
  <2>1. running' \in BOOLEAN /\ event' \in BOOLEAN /\ missed' \in BOOLEAN
    BY Zenon
  <2>2. TypeOK'
    BY <2>1
  <2>3. LockInv' /\ ListInv'
    OBVIOUS
  <2>4. InstanceInv'
    OBVIOUS
  <2>5. QED
    BY <2>2, <2>3, <2>4
<1>3. CASE ConnectSignalled
  BY <1>3 DEF ConnectSignalled
<1>4. CASE AddClient
  <2> USE <1>4 DEF AddClient
  <2>1. instance \in Conns /\ msg + 1 \in 0..(MaxMsgs + 1)
    OBVIOUS
  <2>2. /\ pipes' \in Seq(Conns) /\ Len(pipes') = Len(pipes) + 1
        /\ \A k \in 1..Len(pipes) : pipes'[k] = pipes[k]
        /\ pipes'[Len(pipes) + 1] = instance
    BY <2>1, AppendProperties
  <2>3. TypeOK'
    <3>1. running' \in BOOLEAN /\ event' \in BOOLEAN /\ missed' \in BOOLEAN
      BY Zenon
    <3>2. /\ info' \in [Conns -> {"none", "live", "deleted"}]
          /\ since' \in [Conns -> 0..(MaxMsgs + 1)]
      BY <2>1
    <3>3. i \in 0..Len(pipes')
      BY <2>2
    <3>4. QED
      BY <2>2, <3>1, <3>2, <3>3
  <2>4. LockInv'
    OBVIOUS
  <2>5. InstanceInv'
    BY <2>1
  <2>6. ListInv'
    <3>1. /\ pipes \in Seq(Conns) /\ info \in [Conns -> {"none", "live", "deleted"}]
          /\ info[instance] = "none" /\ instance \in Conns
      BY <2>1
    <3>2. pipes' = Append(pipes, instance) /\ info' = [info EXCEPT ![instance] = "live"]
      OBVIOUS
    <3>3. ListInv
      OBVIOUS
    <3> HIDE <1>4 DEF CoreInv, TypeOK, LockInv, InstanceInv, ListInv, Conns
    <3>4. QED
      BY <3>1, <3>2, <3>3, AddedEntry DEF ListInv
  <2>7. QED
    BY <2>3, <2>4, <2>5, <2>6
<1>5. CASE AddTimeout
  BY <1>5 DEF AddTimeout
<1>6. CASE ReleasePipes
  BY <1>6 DEF ReleasePipes
<1>7. QED
  BY <1>1, <1>2, <1>3, <1>4, <1>5, <1>6 DEF Thread

\* The bytes put in a pipe are those of the message being written.
LEMMA PutTyped ==
    ASSUME CoreInv, NEW c \in Conns, NEW part \in {"length", "body"},
           owner = "main", Put(c, part)
    PROVE  chan' \in [Conns -> Seq(Chunk)]
<1>1. <<part, msg>> \in Chunk
  BY DEF CoreInv, LockInv, Chunk
<1>2. chan \in [Conns -> Seq(Chunk)]
  BY DEF CoreInv, TypeOK
<1> HIDE DEF Chunk
<1>3. Append(chan[c], <<part, msg>>) \in Seq(Chunk)
  BY <1>1, <1>2
<1>4. QED
  BY <1>2, <1>3 DEF Put

\* Deleting a client together with its entry keeps list and ClientInfos agreed.
LEMMA RemovedEntry ==
    ASSUME pipes \in Seq(Conns), info \in [Conns -> {"none", "live", "deleted"}],
           i \in 1..Len(pipes), ListInv, Len(pipes') = Len(pipes) - 1,
           \A k \in 1..(Len(pipes) - 1) :
               pipes'[k] = IF k < i THEN pipes[k] ELSE pipes[k + 1],
           info' = [info EXCEPT ![pipes[i]] = "deleted"]
    PROVE  ListInv'
<1> DEFINE n == Len(pipes) - 1
           old(k) == IF k < i THEN k ELSE k + 1
<1>1. \A k \in 1..n : /\ old(k) \in 1..Len(pipes) /\ old(k) # i
                      /\ pipes'[k] = pipes[old(k)]
  OBVIOUS
<1>2. ASSUME NEW l \in 1..Len(pipes), l # i
      PROVE  \E k \in 1..n : old(k) = l
  <2>1. CASE l < i
    BY <2>1, l \in 1..n
  <2>2. CASE l > i
    <3>1. l - 1 \in 1..n /\ old(l - 1) = l
      BY <2>2
    <3>2. QED
      BY <3>1
  <2>3. QED
    BY <1>2, <2>1, <2>2
<1>3. \A j, k \in 1..n : old(j) = old(k) => j = k
  OBVIOUS
<1>4. \A k \in 1..Len(pipes) : pipes[k] \in Conns
  OBVIOUS
<1> HIDE DEF old
<1>5. \A k \in 1..n : info'[pipes'[k]] = "live"
  BY <1>1, <1>4 DEF ListInv
<1>6. ASSUME NEW c \in Conns, info'[c] = "live" PROVE \E k \in 1..n : pipes'[k] = c
  <2>1. info[c] = "live" /\ c # pipes[i]
    BY <1>4, <1>6
  <2>2. PICK l \in 1..Len(pipes) : pipes[l] = c
    BY <2>1 DEF ListInv
  <2>3. PICK k \in 1..n : old(k) = l
    BY <1>2, <2>1, <2>2
  <2>4. QED
    BY <1>1, <2>2, <2>3
<1>7. ASSUME NEW j \in 1..n, NEW k \in 1..n, pipes'[j] = pipes'[k] PROVE j = k
  <2>1. old(j) = old(k)
    BY <1>1, <1>7 DEF ListInv
  <2>2. QED
    BY <1>3, <2>1
<1>8. QED
  BY <1>5, <1>6, <1>7 DEF ListInv

LEMMA CoreMain == CoreInv /\ (StartWrite \/ Main) => CoreInv'
<1> SUFFICES ASSUME TypeOK, LockInv, InstanceInv, ListInv, StartWrite \/ Main
             PROVE  TypeOK' /\ LockInv' /\ InstanceInv' /\ ListInv'
  BY DEF CoreInv
<1> USE DEF threadVars, clientVars, listVars
<1>0. CASE StartWrite
  <2> USE <1>0 DEF StartWrite
  <2>1. TypeOK'
    BY DEF TypeOK, LockInv
  <2>2. LockInv'
    BY DEF TypeOK, LockInv
  <2>3. InstanceInv' /\ ListInv'
    BY DEF InstanceInv, ListInv
  <2>4. QED
    BY <2>1, <2>2, <2>3
<1>1. CASE LockPipes
  <2> USE <1>1 DEF LockPipes
  <2>1. TypeOK'
    BY DEF TypeOK, LockInv
  <2>2. LockInv'
    BY DEF TypeOK, LockInv
  <2>3. InstanceInv' /\ ListInv'
    BY DEF InstanceInv, ListInv
  <2>4. QED
    BY <2>1, <2>2, <2>3
<1>2. CASE LockTimeout
  <2> USE <1>2 DEF LockTimeout
  <2>1. TypeOK'
    BY DEF TypeOK, LockInv
  <2>2. LockInv'
    BY DEF TypeOK, LockInv
  <2>3. InstanceInv' /\ ListInv'
    BY DEF InstanceInv, ListInv
  <2>4. QED
    BY <2>1, <2>2, <2>3
<1>3. CASE WriteLength
  <2> USE <1>3 DEF WriteLength
  <2>1. pipes[i] \in Conns
    BY DEF TypeOK
  <2>2. chan' \in [Conns -> Seq(Chunk)]
    BY <2>1, PutTyped DEF CoreInv, LockInv
  <2>3. TypeOK'
    BY <2>2 DEF TypeOK
  <2>4. LockInv'
    BY DEF TypeOK, LockInv
  <2>5. InstanceInv' /\ ListInv'
    BY DEF InstanceInv, ListInv
  <2>6. QED
    BY <2>3, <2>4, <2>5
<1>4. CASE WriteBody
  <2> USE <1>4 DEF WriteBody
  <2>1. pipes[i] \in Conns
    BY DEF TypeOK, LockInv
  <2>2. chan' \in [Conns -> Seq(Chunk)]
    BY <2>1, PutTyped DEF CoreInv, LockInv
  <2>3. Len(chan'[pipes[i]]) \in Nat
    BY <2>1, <2>2
  <2>4. i' \in 0..Len(pipes)
    <3>1. i \in 1..Len(pipes) /\ Len(pipes) \in Nat /\ (i' = i \/ i' = i - 1)
      BY DEF TypeOK, LockInv
    <3> HIDE <1>4
    <3>2. QED
      BY <3>1
  <2>5. TypeOK'
    BY <2>2, <2>3, <2>4 DEF TypeOK
  <2>6. LockInv'
    BY DEF TypeOK, LockInv
  <2>7. InstanceInv' /\ ListInv'
    BY DEF InstanceInv, ListInv
  <2>8. QED
    BY <2>5, <2>6, <2>7
<1>5. CASE WriteFails
  <2> USE <1>5 DEF WriteFails
  <2>1. i \in 1..Len(pipes) /\ pipes \in Seq(Conns)
    BY DEF TypeOK, LockInv
  <2>2. pipes[i] \in Conns /\ info[pipes[i]] = "live"
    BY <2>1 DEF ListInv
  <2>3. pipes' = RemoveAt(pipes, i) /\ info' = [info EXCEPT ![pipes[i]] = "deleted"]
    OBVIOUS
  <2>4. /\ pipes' \in Seq(Conns) /\ Len(pipes') = Len(pipes) - 1
        /\ \A k \in 1..(Len(pipes) - 1) :
              pipes'[k] = IF k < i THEN pipes[k] ELSE pipes[k + 1]
    <3>1. /\ RemoveAt(pipes, i) \in Seq(Conns)
          /\ Len(RemoveAt(pipes, i)) = Len(pipes) - 1
          /\ \A k \in 1..(Len(pipes) - 1) : RemoveAt(pipes, i)[k] =
                IF k < i THEN pipes[k] ELSE pipes[k + 1]
      <4> HIDE <1>5
      <4> QED
        BY <2>1, RemoveAtIs
    <3>2. QED
      BY <2>3, <3>1, Zenon
  <2>5. i' \in 0..Len(pipes') /\ info' \in [Conns -> {"none", "live", "deleted"}]
    BY <2>1, <2>2, <2>3, <2>4 DEF TypeOK
  <2>6. TypeOK'
    BY <2>4, <2>5 DEF TypeOK
  <2>7. LockInv'
    BY DEF LockInv
  <2>8. InstanceInv'
    BY <2>2, <2>3 DEF InstanceInv, TypeOK
  <2>9. ListInv'
    <3>1. ListInv /\ info \in [Conns -> {"none", "live", "deleted"}]
      BY DEF TypeOK
    <3>2. QED
      BY <2>1, <2>3, <2>4, <3>1, RemovedEntry
  <2>10. QED
    BY <2>6, <2>7, <2>8, <2>9
<1>6. CASE WriteCompletes
  <2> USE <1>6 DEF WriteCompletes
  <2>1. TypeOK'
    BY DEF TypeOK, LockInv
  <2>2. LockInv'
    BY DEF TypeOK, LockInv
  <2>3. InstanceInv' /\ ListInv'
    BY DEF InstanceInv, ListInv
  <2>4. QED
    BY <2>1, <2>2, <2>3
<1>7. CASE FinishWrite
  <2> USE <1>7 DEF FinishWrite
  <2>1. TypeOK'
    BY DEF TypeOK, LockInv
  <2>2. LockInv'
    BY DEF TypeOK, LockInv
  <2>3. InstanceInv' /\ ListInv'
    BY DEF InstanceInv, ListInv
  <2>4. QED
    BY <2>1, <2>2, <2>3
<1>8. QED
  BY <1>0, <1>1, <1>2, <1>3, <1>4, <1>5, <1>6, <1>7 DEF Main

LEMMA CoreClients ==
    ASSUME CoreInv, NEW c \in Conns, Connect(c) \/ Read(c) \/ Leave(c)
    PROVE  CoreInv'
<1> SUFFICES ASSUME TypeOK, LockInv, InstanceInv, ListInv
             PROVE  TypeOK' /\ LockInv' /\ InstanceInv' /\ ListInv'
  BY DEF CoreInv
<1> USE DEF threadVars, mainVars, listVars
<1>1. CASE Connect(c)
  <2> USE <1>1 DEF Connect, Newest
  <2>1. running' \in BOOLEAN /\ event' \in BOOLEAN /\ missed' \in BOOLEAN
    BY Zenon DEF TypeOK
  <2>2. TypeOK'
    BY <2>1 DEF TypeOK
  <2>3. LockInv' /\ ListInv'
    BY DEF LockInv, ListInv
  <2>4. InstanceInv'
    <3>1. tpc \in {"connect", "wait"} /\ info[c] = "none"
      BY DEF InstanceInv, TypeOK, None, Unused, Listening, Conns
    <3>2. client' = [client EXCEPT ![c] = "connected"] /\ client'[c] # "new"
      BY DEF TypeOK
    <3>3. QED
      BY <3>1, <3>2 DEF InstanceInv, TypeOK, None, Unused, Listening, Conns
  <2>5. QED
    BY <2>2, <2>3, <2>4
<1>2. CASE Read(c)
  <2> USE <1>2 DEF Read
  <2>1. chan[c] \in Seq(Chunk) /\ got[c] \in Seq(Chunk) /\ chan[c] # <<>>
    BY DEF TypeOK
  <2>2. Head(chan[c]) \in Chunk /\ Tail(chan[c]) \in Seq(Chunk)
    BY <2>1, HeadTailProperties
  <2>3. Append(got[c], Head(chan[c])) \in Seq(Chunk)
    BY <2>1, <2>2
  <2>4. got' \in [Conns -> Seq(Chunk)] /\ chan' \in [Conns -> Seq(Chunk)]
    BY <2>2, <2>3 DEF TypeOK
  <2>5. TypeOK'
    BY <2>4 DEF TypeOK
  <2>6. LockInv' /\ ListInv' /\ InstanceInv'
    BY DEF LockInv, ListInv, InstanceInv
  <2>7. QED
    BY <2>5, <2>6
<1>3. CASE Leave(c)
  <2> USE <1>3 DEF Leave
  <2>1. /\ chan' \in [Conns -> Seq(Chunk)] /\ left' \in [Conns -> 0..MaxMsgs]
        /\ client' \in [Conns -> {"new", "connected", "gone"}]
    BY DEF TypeOK
  <2>2. TypeOK'
    BY <2>1 DEF TypeOK
  <2>3. LockInv' /\ ListInv'
    BY DEF LockInv, ListInv
  <2>4. InstanceInv'
    BY DEF InstanceInv, TypeOK
  <2>5. QED
    BY <2>2, <2>3, <2>4
<1>4. QED
  BY <1>1, <1>2, <1>3

LEMMA CoreStutter == CoreInv /\ UNCHANGED vars => CoreInv'
BY DEF CoreInv, TypeOK, LockInv, InstanceInv, ListInv, vars, threadVars, mainVars,
       clientVars, listVars, Conns

\* Through every connection, timeout, failed write and erased entry: who has
\* the list's mutex, what the loop's index and the connection event stand for,
\* and that the list agrees with the ClientInfos.
THEOREM CoreCorrect == Spec => []CoreInv
<1>1. CoreInv /\ [Next]_vars => CoreInv'
  BY CoreThread, CoreMain, CoreClients, CoreStutter DEF Next
<1>2. QED
  BY <1>1, CoreInit, PTL DEF Spec

\* The state keeps its types; WriteMessage's index stays within the list while
\* the loop erases entries from it.
THEOREM TypeCorrect == Spec => []TypeOK
BY CoreCorrect, PTL DEF CoreInv

\* Whatever the order of connections, failed writes and messages, the list has
\* one entry for each client whose ClientInfo exists, and no other.
THEOREM ListCorrect == Spec => []ListIsLive
<1>1. CoreInv => ListIsLive
  <2> SUFFICES ASSUME CoreInv PROVE ListIsLive
    OBVIOUS
  <2>1. pipes \in Seq(Conns) /\ DOMAIN pipes = 1..Len(pipes)
    BY DEF CoreInv, TypeOK
  <2>2. QED
    BY <2>1 DEF CoreInv, ListInv, ListIsLive, ToSet, IsInjective
<1>2. QED
  BY <1>1, CoreCorrect, PTL

-----------------------------------------------------------------------------
(* A client that has left is dropped by the next message meant for it. *)

\* The last message that WriteMessage has tried to send to entry k.
Tried(k) == IF owner = "main" /\ (k < i \/ (k = i /\ mpc # "wait"))
            THEN msg - 1 ELSE msg

\* A client that is still in the list left after that one, or joined after it.
GoneInv ==
    \A k \in 1..Len(pipes) : client[pipes[k]] = "gone" =>
        Tried(k) <= left[pipes[k]] \/ Tried(k) < since[pipes[k]]

LEMMA GoneThread == CoreInv /\ GoneInv /\ Thread => GoneInv'
<1> SUFFICES ASSUME TypeOK, LockInv, InstanceInv, ListInv, GoneInv, Thread
             PROVE  GoneInv'
  BY DEF CoreInv
<1> USE DEF mainVars, clientVars, listVars
<1>1. CASE ~AddClient
  <2>1. UNCHANGED <<mainVars, clientVars, pipes, info, since>>
    BY <1>1 DEF Thread, CreatePipe, ConnectPipe, ConnectSignalled, AddTimeout,
                ReleasePipes
  <2>2. (owner = "main") <=> (owner' = "main")
    BY <1>1 DEF Thread, CreatePipe, ConnectPipe, ConnectSignalled, AddTimeout,
                ReleasePipes, LockInv
  <2>3. QED
    BY <2>1, <2>2 DEF GoneInv, Tried
<1>2. CASE AddClient
  <2> USE <1>2 DEF AddClient
  <2>1. instance \in Conns /\ info[instance] = "none"
    BY DEF InstanceInv
  <2>2. pipes \in Seq(Conns) /\ since \in [Conns -> 0..(MaxMsgs + 1)] /\ msg \in Nat
    BY DEF TypeOK
  <2>3. /\ Len(pipes') = Len(pipes) + 1
        /\ \A k \in 1..Len(pipes) : pipes'[k] = pipes[k]
        /\ pipes'[Len(pipes) + 1] = instance
    BY <2>1, <2>2, AppendProperties
  <2>4. owner # "main" /\ owner' # "main"
    OBVIOUS
  <2>5. \A k \in 1..Len(pipes) : pipes[k] \in Conns /\ since'[pipes[k]] = since[pipes[k]]
    BY <2>1, <2>2 DEF ListInv
  <2>6. since'[instance] = msg + 1
    BY <2>1, <2>2
  <2>7. UNCHANGED <<msg, client, left>>
    OBVIOUS
  <2> HIDE <1>2 DEF AddClient
  <2>8. ASSUME NEW k \in 1..(Len(pipes) + 1), client[pipes'[k]] = "gone"
        PROVE  msg <= left[pipes'[k]] \/ msg < since'[pipes'[k]]
    <3>1. CASE k = Len(pipes) + 1
      BY <2>2, <2>3, <2>6, <3>1
    <3>2. CASE k \in 1..Len(pipes)
      BY <2>3, <2>4, <2>5, <2>8, <3>2 DEF GoneInv, Tried
    <3>3. QED
      BY <2>2, <3>1, <3>2
  <2>9. QED
    BY <2>3, <2>4, <2>7, <2>8 DEF GoneInv, Tried
<1>3. QED
  BY <1>1, <1>2

LEMMA GoneMain == CoreInv /\ GoneInv /\ (StartWrite \/ Main) => GoneInv'
<1> SUFFICES ASSUME TypeOK, LockInv, ListInv, GoneInv, StartWrite \/ Main
             PROVE  GoneInv'
  BY DEF CoreInv
<1>0. /\ pipes \in Seq(Conns) /\ msg \in Nat /\ i \in 0..Len(pipes)
      /\ left \in [Conns -> 0..MaxMsgs] /\ since \in [Conns -> 0..(MaxMsgs + 1)]
      /\ \A k \in 1..Len(pipes) : pipes[k] \in Conns
  BY DEF TypeOK
<1> USE <1>0 DEF threadVars, clientVars, listVars
<1>a. ASSUME UNCHANGED <<pipes, client, left, since>>,
             \A k \in 1..Len(pipes) :
                 client[pipes[k]] = "gone" => Tried(k)' = Tried(k)
      PROVE  GoneInv'
  BY <1>a, Zenon DEF GoneInv
<1>1. CASE StartWrite \/ LockTimeout
  BY <1>1 DEF StartWrite, LockTimeout, LockInv, GoneInv, Tried
<1>2. CASE LockPipes
  <2>1. /\ owner # "main" /\ owner' = "main" /\ mpc' = "length"
        /\ msg' = msg + 1 /\ i' = Len(pipes)
    BY <1>2 DEF LockPipes
  <2>2. \A k \in 1..Len(pipes) : Tried(k) = msg /\ Tried(k)' = msg
    BY <2>1 DEF Tried
  <2>3. QED
    BY <1>2, <1>a, <2>2, Zenon DEF LockPipes
<1>3. CASE WriteLength
  <2>1. \A k \in 1..Len(pipes) : client[pipes[k]] = "gone" => Tried(k)' = Tried(k)
    BY <1>3 DEF WriteLength, LockInv, Tried
  <2>2. QED
    BY <1>3, <1>a, <2>1, Zenon DEF WriteLength
<1>4. CASE WriteBody
  <2>1. \A k \in 1..Len(pipes) : client[pipes[k]] = "gone" => Tried(k)' = Tried(k)
    BY <1>4 DEF WriteBody, LockInv, Tried
  <2>2. QED
    BY <1>4, <1>a, <2>1, Zenon DEF WriteBody
<1>5. CASE WriteFails
  <2> USE <1>5 DEF WriteFails
  <2>1. i \in 1..Len(pipes) /\ owner = "main" /\ owner' = "main"
    BY DEF LockInv
  <2>2. /\ Len(RemoveAt(pipes, i)) = Len(pipes) - 1
        /\ \A k \in 1..(Len(pipes) - 1) : RemoveAt(pipes, i)[k] =
              IF k < i THEN pipes[k] ELSE pipes[k + 1]
    <3> HIDE <1>5
    <3> QED
      BY <2>1, RemoveAtIs
  <2>3. /\ Len(pipes') = Len(pipes) - 1
        /\ \A k \in 1..(Len(pipes) - 1) : pipes'[k] =
              IF k < i THEN pipes[k] ELSE pipes[k + 1]
    BY <2>2, Zenon
  <2>4. i' = i - 1 /\ mpc # "wait" /\ mpc' # "wait" /\ UNCHANGED <<msg, client, left, since>>
    OBVIOUS
  <2> HIDE <1>5 DEF WriteFails
  <2>5. ASSUME NEW k \in 1..(Len(pipes) - 1), client[pipes'[k]] = "gone"
        PROVE  Tried(k)' <= left[pipes'[k]] \/ Tried(k)' < since[pipes'[k]]
    <3>1. CASE k < i
      <4>1. k \in 1..Len(pipes)
        BY <1>0
      <4>2. pipes'[k] = pipes[k]
        BY <2>3, <3>1, Zenon
      <4>3. Tried(k)' = Tried(k)
        BY <2>1, <2>4, <3>1 DEF Tried
      <4>4. QED
        BY <2>5, <4>1, <4>2, <4>3, Zenon DEF GoneInv
    <3>2. CASE ~(k < i)
      <4>1. k + 1 \in 1..Len(pipes)
        BY <1>0
      <4>2. pipes'[k] = pipes[k + 1]
        BY <2>3, <3>2, Zenon
      <4>3. Tried(k)' = Tried(k + 1)
        BY <2>1, <2>4, <3>2 DEF Tried
      <4>4. QED
        BY <2>5, <4>1, <4>2, <4>3, Zenon DEF GoneInv
    <3>3. QED
      BY <3>1, <3>2
  <2>6. QED
    BY <2>3, <2>4, <2>5, Zenon DEF GoneInv
<1>6. CASE WriteCompletes
  <2>1. \A k \in 1..Len(pipes) : client[pipes[k]] = "gone" => Tried(k)' = Tried(k)
    BY <1>6 DEF WriteCompletes, LockInv, Tried
  <2>2. QED
    BY <1>6, <1>a, <2>1, Zenon DEF WriteCompletes
<1>7. CASE FinishWrite
  <2>1. \A k \in 1..Len(pipes) : client[pipes[k]] = "gone" => Tried(k)' = Tried(k)
    BY <1>7 DEF FinishWrite, LockInv, Tried
  <2>2. QED
    BY <1>7, <1>a, <2>1, Zenon DEF FinishWrite
<1>8. QED
  BY <1>1, <1>2, <1>3, <1>4, <1>5, <1>6, <1>7 DEF Main

LEMMA GoneClients ==
    ASSUME CoreInv, GoneInv, NEW c \in Conns, Connect(c) \/ Read(c) \/ Leave(c)
    PROVE  GoneInv'
<1>0. /\ pipes \in Seq(Conns) /\ msg \in Nat
      /\ left \in [Conns -> 0..MaxMsgs] /\ since \in [Conns -> 0..(MaxMsgs + 1)]
      /\ client \in [Conns -> {"new", "connected", "gone"}]
      /\ \A k \in 1..Len(pipes) : pipes[k] \in Conns
  BY DEF CoreInv, TypeOK
<1> USE <1>0 DEF threadVars, mainVars, listVars, GoneInv, Tried
<1>1. CASE Connect(c)
  BY <1>1 DEF Connect
<1>2. CASE Read(c)
  BY <1>2 DEF Read
<1>3. CASE Leave(c)
  <2> USE <1>3 DEF Leave
  <2>1. \A k \in 1..Len(pipes) : Tried(k) <= msg /\ Tried(k)' = Tried(k)
    OBVIOUS
  <2>2. \A d \in Conns : IF d = c THEN left'[d] = msg
                         ELSE left'[d] = left[d] /\ client'[d] = client[d]
    OBVIOUS
  <2>3. UNCHANGED <<pipes, since>>
    OBVIOUS
  <2> HIDE <1>3 DEF Leave, Tried
  <2>4. ASSUME NEW k \in 1..Len(pipes), client'[pipes[k]] = "gone"
        PROVE  Tried(k)' <= left'[pipes[k]] \/ Tried(k)' < since[pipes[k]]
    <3>1. CASE pipes[k] = c
      BY <2>1, <2>2, <3>1
    <3>2. CASE pipes[k] # c
      <4>1. /\ client[pipes[k]] = "gone" /\ left'[pipes[k]] = left[pipes[k]]
            /\ Tried(k)' = Tried(k)
        BY <2>1, <2>2, <2>4, <3>2
      <4>2. QED
        BY <4>1, Zenon
    <3>3. QED
      BY <3>1, <3>2
  <2>5. QED
    BY <2>3, <2>4, Zenon
<1>4. QED
  BY <1>1, <1>2, <1>3

\* No client that has left outlives, in the list, a message meant for it that
\* was written after it left.
THEOREM DroppedCorrect == Spec => []GoneClientsAreDropped
<1>1. Init => GoneInv
  BY DEF Init, GoneInv
<1>2. CoreInv /\ GoneInv /\ UNCHANGED vars => GoneInv'
  BY DEF GoneInv, Tried, vars, mainVars, clientVars, listVars
<1>3. CoreInv /\ GoneInv /\ [Next]_vars => GoneInv'
  BY <1>2, GoneThread, GoneMain, GoneClients DEF Next
<1>4. CoreInv /\ GoneInv => GoneClientsAreDropped
  <2> SUFFICES ASSUME CoreInv, GoneInv, owner # "main", NEW c \in Conns, Listed(c),
                      client[c] = "gone"
               PROVE  msg <= left[c] \/ msg < since[c]
    BY DEF GoneClientsAreDropped
  <2>0. DOMAIN pipes = 1..Len(pipes)
    BY DEF CoreInv, TypeOK
  <2>1. PICK k \in 1..Len(pipes) : pipes[k] = c
    BY <2>0, Zenon DEF Listed, ToSet
  <2>2. QED
    BY <2>1 DEF GoneInv, Tried
<1>5. QED
  BY <1>1, <1>3, <1>4, CoreCorrect, PTL DEF Spec
-----------------------------------------------------------------------------
(* Every client in the list gets every message, whole and in order. *)

\* The bytes of a message end the frames before it.
LEMMA FramesEmpty == ASSUME NEW m \in Int PROVE Frames(m + 1, m) = <<>>
BY DEF Frames

LEMMA FramesNext ==
    ASSUME NEW first \in Int, NEW m \in Int, first <= m
    PROVE  Append(Append(Frames(first, m - 1), <<"length", m>>), <<"body", m>>)
               = Frames(first, m)
<1> DEFINE n == 2 * (m - first)
           f == Frames(first, m - 1)
           g == Frames(first, m)
           item(k) == <<IF k % 2 = 1 THEN "length" ELSE "body",
                        first + (k - 1) \div 2>>
<1>1. n \in Nat /\ 2 * (m - 1 - first + 1) = n /\ 2 * (m - first + 1) = n + 2
  OBVIOUS
<1>2. f = [k \in 1..n |-> item(k)] /\ g = [k \in 1..(n + 2) |-> item(k)]
  BY <1>1, Zenon DEF Frames
<1>3. item(n + 1) = <<"length", m>> /\ item(n + 2) = <<"body", m>>
  OBVIOUS
<1> HIDE DEF n, f, g, item
<1>4. f \in Seq({item(k) : k \in 1..n}) /\ Len(f) = n
  BY <1>1, <1>2
<1>5. Append(f, item(n + 1)) = [k \in 1..(n + 1) |-> item(k)]
  BY <1>1, <1>2, <1>4
<1>6. Append([k \in 1..(n + 1) |-> item(k)], item(n + 2)) = [k \in 1..(n + 2) |-> item(k)]
  BY <1>1
<1>7. QED
  BY <1>2, <1>3, <1>5, <1>6 DEF f, g

\* What is written comes after what was read and what is in the pipe; reading
\* moves it from the one to the other.
LEMMA WrittenLast ==
    ASSUME NEW S, NEW s \in Seq(S), NEW t \in Seq(S), NEW e \in S
    PROVE  s \o Append(t, e) = Append(s \o t, e)
OBVIOUS

LEMMA ReadMoves ==
    ASSUME NEW S, NEW s \in Seq(S), NEW t \in Seq(S), t # <<>>
    PROVE  Append(s, Head(t)) \o Tail(t) = s \o t
OBVIOUS

\* What an entry of the list has been sent: the loop has passed the entries
\* behind its index, and may have sent the one at its index half of the message.
Written(k) ==
    IF owner = "main" /\ (k < i \/ (k = i /\ mpc = "length"))
    THEN Frames(since[pipes[k]], msg - 1)
    ELSE IF mpc = "body" /\ k = i
         THEN Append(Frames(since[pipes[k]], msg - 1), <<"length", msg>>)
         ELSE Frames(since[pipes[k]], msg)

\* No client is meant to get a message after the next one, and none gets
\* anything before it is in the list.
FramesInv ==
    /\ \A k \in 1..Len(pipes) :
          /\ since[pipes[k]] <= IF owner = "main" THEN msg ELSE msg + 1
          /\ client[pipes[k]] = "connected" =>
                got[pipes[k]] \o chan[pipes[k]] = Written(k)
    /\ \A c \in Conns : info[c] = "none" => got[c] = <<>> /\ chan[c] = <<>>

LEMMA FramesTyped ==
    TypeOK => /\ pipes \in Seq(Conns) /\ msg \in Nat /\ i \in 0..Len(pipes)
              /\ chan \in [Conns -> Seq(Chunk)] /\ got \in [Conns -> Seq(Chunk)]
              /\ since \in [Conns -> 0..(MaxMsgs + 1)]
              /\ \A k \in 1..Len(pipes) : pipes[k] \in Conns
BY DEF TypeOK

LEMMA FramesThread == CoreInv /\ FramesInv /\ Thread => FramesInv'
<1> SUFFICES ASSUME TypeOK, LockInv, InstanceInv, ListInv, FramesInv, Thread
             PROVE  FramesInv'
  BY DEF CoreInv
<1>0. /\ pipes \in Seq(Conns) /\ msg \in Nat
      /\ since \in [Conns -> 0..(MaxMsgs + 1)]
      /\ \A k \in 1..Len(pipes) : pipes[k] \in Conns
  BY FramesTyped
<1> USE DEF mainVars, clientVars, listVars
<1>1. CASE ~AddClient
  <2>1. UNCHANGED <<mainVars, clientVars, pipes, info, since>>
    BY <1>1 DEF Thread, CreatePipe, ConnectPipe, ConnectSignalled, AddTimeout,
                ReleasePipes
  <2>2. (owner = "main") <=> (owner' = "main")
    BY <1>1 DEF Thread, CreatePipe, ConnectPipe, ConnectSignalled, AddTimeout,
                ReleasePipes, LockInv
  <2>3. QED
    BY <2>1, <2>2 DEF FramesInv, Written
<1>2. CASE AddClient
  <2> USE <1>2 DEF AddClient
  <2>1. instance \in Conns /\ info[instance] = "none"
    BY DEF InstanceInv
  <2>2. /\ Len(pipes') = Len(pipes) + 1
        /\ \A k \in 1..Len(pipes) : pipes'[k] = pipes[k]
        /\ pipes'[Len(pipes) + 1] = instance
    BY <1>0, <2>1, AppendProperties
  <2>3. owner # "main" /\ owner' # "main" /\ mpc # "body"
    BY DEF LockInv
  <2>4. \A k \in 1..Len(pipes) : since'[pipes[k]] = since[pipes[k]]
    BY <1>0, <2>1 DEF ListInv
  <2>5. since'[instance] = msg + 1
    BY <1>0, <2>1
  <2>6. UNCHANGED <<msg, mpc, i, client, got, chan>>
    OBVIOUS
  <2>7. \A c \in Conns : info'[c] = "none" => info[c] = "none"
    BY DEF TypeOK
  <2> HIDE <1>2 DEF AddClient
  <2>8. ASSUME NEW k \in 1..(Len(pipes) + 1)
        PROVE  /\ since'[pipes'[k]] <= msg + 1
               /\ client[pipes'[k]] = "connected" =>
                     got[pipes'[k]] \o chan[pipes'[k]] = Frames(since'[pipes'[k]], msg)
    <3>1. CASE k = Len(pipes) + 1
      <4>1. got[instance] = <<>> /\ chan[instance] = <<>>
        BY <2>1 DEF FramesInv
      <4>2. <<>> \o <<>> = Frames(msg + 1, msg)
        BY <1>0, FramesEmpty
      <4>3. pipes'[k] = instance /\ msg + 1 <= msg + 1
        BY <1>0, <2>2, <3>1
      <4>4. QED
        BY <2>5, <4>1, <4>2, <4>3, Zenon
    <3>2. CASE k \in 1..Len(pipes)
      <4>1. /\ since[pipes[k]] <= msg + 1
            /\ client[pipes[k]] = "connected" =>
                  got[pipes[k]] \o chan[pipes[k]] = Frames(since[pipes[k]], msg)
        BY <2>3, <3>2, Zenon DEF FramesInv, Written
      <4>2. QED
        BY <2>2, <2>4, <3>2, <4>1
    <3>3. k = Len(pipes) + 1 \/ k \in 1..Len(pipes)
      BY <1>0
    <3>4. QED
      BY <3>1, <3>2, <3>3, Zenon
  <2>9. \A k \in 1..Len(pipes') : Written(k)' = Frames(since'[pipes'[k]], msg)
    BY <2>3, <2>6, Zenon DEF Written
  <2>10. \A c \in Conns : info'[c] = "none" => got'[c] = <<>> /\ chan'[c] = <<>>
    BY <2>6, <2>7 DEF FramesInv
  <2>11. QED
    BY <2>2, <2>3, <2>6, <2>8, <2>9, <2>10 DEF FramesInv
<1>3. QED
  BY <1>1, <1>2

\* A write to the entry at the loop's index: other entries are other clients,
\* and its client has an entry.
LEMMA PutIsWritten ==
    ASSUME TypeOK, LockInv, ListInv, FramesInv, owner = "main", i \in 1..Len(pipes),
           NEW part \in {"length", "body"}, Put(pipes[i], part)
    PROVE  /\ \A k \in 1..Len(pipes) : k # i => chan'[pipes[k]] = chan[pipes[k]]
           /\ client[pipes[i]] = "connected" =>
                 got[pipes[i]] \o chan'[pipes[i]]
                     = Append(got[pipes[i]] \o chan[pipes[i]], <<part, msg>>)
           /\ \A c \in Conns : info[c] = "none" => chan'[c] = <<>>
<1>0. /\ chan \in [Conns -> Seq(Chunk)] /\ got \in [Conns -> Seq(Chunk)]
      /\ \A k \in 1..Len(pipes) : pipes[k] \in Conns /\ info[pipes[k]] = "live"
  BY FramesTyped DEF ListInv
<1>1. <<part, msg>> \in Chunk
  BY DEF LockInv, Chunk
<1>2. \A d \in Conns : d # pipes[i] => chan'[d] = chan[d]
  BY <1>0 DEF Put
<1>3. client[pipes[i]] = "connected" =>
          chan'[pipes[i]] = Append(chan[pipes[i]], <<part, msg>>)
  BY <1>0 DEF Put
<1>4. \A k \in 1..Len(pipes) : k # i => pipes[k] # pipes[i]
  BY DEF ListInv
<1>5. got[pipes[i]] \in Seq(Chunk) /\ chan[pipes[i]] \in Seq(Chunk)
  BY <1>0
<1>6. got[pipes[i]] \o Append(chan[pipes[i]], <<part, msg>>)
          = Append(got[pipes[i]] \o chan[pipes[i]], <<part, msg>>)
  <2> DEFINE e == <<part, msg>>
             s == got[pipes[i]]
             t == chan[pipes[i]]
  <2>1. e \in Chunk /\ s \in Seq(Chunk) /\ t \in Seq(Chunk)
    BY <1>1, <1>5
  <2> HIDE DEF e, s, t
  <2>2. s \o Append(t, e) = Append(s \o t, e)
    BY <2>1, WrittenLast
  <2>3. QED
    BY <2>2 DEF e, s, t
<1>7. \A c \in Conns : info[c] = "none" => c # pipes[i] /\ chan[c] = <<>>
  BY <1>0 DEF FramesInv
<1>8. \A k \in 1..Len(pipes) : k # i => chan'[pipes[k]] = chan[pipes[k]]
  BY <1>0, <1>2, <1>4, Zenon
<1>9. \A c \in Conns : info[c] = "none" => chan'[c] = <<>>
  BY <1>2, <1>7
<1>10. QED
  BY <1>3, <1>6, <1>8, <1>9

LEMMA FramesMain == CoreInv /\ FramesInv /\ (StartWrite \/ Main) => FramesInv'
<1> SUFFICES ASSUME TypeOK, LockInv, ListInv, FramesInv, StartWrite \/ Main
             PROVE  FramesInv'
  BY DEF CoreInv
<1>0. /\ pipes \in Seq(Conns) /\ msg \in Nat /\ i \in 0..Len(pipes)
      /\ since \in [Conns -> 0..(MaxMsgs + 1)]
      /\ \A k \in 1..Len(pipes) : pipes[k] \in Conns
  BY FramesTyped
<1> USE <1>0 DEF threadVars, clientVars, listVars
<1>a. ASSUME UNCHANGED <<pipes, info, client, got, chan, since>>,
             msg' = msg, owner' = owner,
             \A k \in 1..Len(pipes) :
                 client[pipes[k]] = "connected" => Written(k)' = Written(k)
      PROVE  FramesInv'
  BY <1>a, Zenon DEF FramesInv
<1>1. CASE StartWrite \/ LockTimeout
  BY <1>1 DEF StartWrite, LockTimeout, LockInv, FramesInv, Written
<1>2. CASE LockPipes
  <2>1. /\ owner # "main" /\ owner' = "main" /\ mpc # "body" /\ mpc' = "length"
        /\ msg' = msg + 1 /\ i' = Len(pipes) /\ UNCHANGED <<pipes, since>>
    BY <1>2 DEF LockPipes
  <2>2. msg' - 1 = msg
    BY <2>1
  <2>3. \A k \in 1..Len(pipes) : Written(k) = Frames(since[pipes[k]], msg)
    BY <2>1, Zenon DEF Written
  <2>4. \A k \in 1..Len(pipes) : Written(k)' = Frames(since[pipes[k]], msg)
    <3>1. \A k \in 1..Len(pipes) : k < i' \/ k = i'
      BY <2>1
    <3>2. QED
      BY <2>1, <2>2, <3>1, Zenon DEF Written
  <2>5. \A k \in 1..Len(pipes) : since[pipes[k]] <= msg'
    BY <2>1 DEF FramesInv
  <2>6. UNCHANGED <<pipes, info, client, got, chan, since>>
    BY <1>2 DEF LockPipes
  <2>7. QED
    BY <2>1, <2>3, <2>4, <2>5, <2>6, Zenon DEF FramesInv
<1>3. CASE WriteLength
  <2> USE <1>3 DEF WriteLength
  <2>1. /\ i \in 1..Len(pipes) /\ owner = "main" /\ owner' = "main"
        /\ mpc = "length" /\ mpc' = "body"
        /\ UNCHANGED <<pipes, info, client, got, since, msg, i>>
    BY DEF LockInv
  <2>2. /\ \A k \in 1..Len(pipes) : k # i => chan'[pipes[k]] = chan[pipes[k]]
        /\ client[pipes[i]] = "connected" =>
              got[pipes[i]] \o chan'[pipes[i]]
                  = Append(got[pipes[i]] \o chan[pipes[i]], <<"length", msg>>)
        /\ \A c \in Conns : info[c] = "none" => chan'[c] = <<>>
    BY <2>1, PutIsWritten
  <2> HIDE <1>3 DEF WriteLength
  <2>3. \A k \in 1..Len(pipes) : k # i => Written(k)' = Written(k)
    BY <2>1 DEF Written
  <2>4. /\ Written(i) = Frames(since[pipes[i]], msg - 1)
        /\ Written(i)' = Append(Frames(since[pipes[i]], msg - 1), <<"length", msg>>)
    BY <2>1 DEF Written
  <2>5. QED
    BY <2>1, <2>2, <2>3, <2>4, Zenon DEF FramesInv
<1>4. CASE WriteBody
  <2> USE <1>4 DEF WriteBody
  <2>1. /\ i \in 1..Len(pipes) /\ owner = "main" /\ owner' = "main"
        /\ mpc = "body" /\ UNCHANGED <<pipes, info, client, got, since, msg>>
    BY DEF LockInv
  <2>a. (mpc' = "wait" /\ i' = i) \/ (mpc' = "length" /\ i' = i - 1)
    BY Zenon
  <2>2. /\ \A k \in 1..Len(pipes) : k # i => chan'[pipes[k]] = chan[pipes[k]]
        /\ client[pipes[i]] = "connected" =>
              got[pipes[i]] \o chan'[pipes[i]]
                  = Append(got[pipes[i]] \o chan[pipes[i]], <<"body", msg>>)
        /\ \A c \in Conns : info[c] = "none" => chan'[c] = <<>>
    BY <2>1, PutIsWritten
  <2> HIDE <1>4 DEF WriteBody
  <2>3. ASSUME NEW k \in 1..Len(pipes), k # i PROVE Written(k)' = Written(k)
    <3>1. (k < i) <=> (k < i' \/ (k = i' /\ mpc' = "length"))
      BY <2>1, <2>a, <2>3
    <3>2. mpc' # "body" /\ ~(k = i /\ mpc = "length")
      BY <2>a, <2>3
    <3>3. QED
      BY <2>1, <2>3, <3>1, <3>2, Zenon DEF Written
  <2>4. PICK n \in 1..Len(pipes) : n = i
    BY <2>1
  <2>5. Written(n) = Append(Frames(since[pipes[n]], msg - 1), <<"length", msg>>)
    <3>1. ~(n < i)
      BY <2>1, <2>4
    <3>2. QED
      BY <2>1, <2>4, <3>1 DEF Written
  <2>6. Written(n)' = Frames(since[pipes[n]], msg)
    <3>1. ~(n < i' \/ (n = i' /\ mpc' = "length")) /\ mpc' # "body"
      BY <2>1, <2>4, <2>a
    <3>2. since' = since /\ pipes' = pipes /\ msg' = msg
      BY <2>1
    <3>3. QED
      BY <3>1, <3>2 DEF Written
  <2>7. ASSUME NEW k \in 1..Len(pipes), client[pipes[k]] = "connected"
        PROVE  got[pipes[k]] \o chan'[pipes[k]] = Written(k)'
    <3>1. got[pipes[k]] \o chan[pipes[k]] = Written(k)
      BY <2>7, Zenon DEF FramesInv
    <3>2. CASE k = n
      <4>1. since[pipes[n]] <= msg
        BY <2>1, Zenon DEF FramesInv
      <4>2. since[pipes[n]] \in Int /\ msg \in Int
        BY <2>4
      <4>3. Written(n)' = Append(Written(n), <<"body", msg>>)
        BY <2>5, <2>6, <4>1, <4>2, FramesNext
      <4>4. QED
        BY <2>2, <2>4, <2>7, <3>1, <3>2, <4>3
    <3>3. CASE k # n
      BY <2>2, <2>3, <2>4, <3>1, <3>3, Zenon
    <3>4. QED
      BY <3>2, <3>3
  <2>8. \A k \in 1..Len(pipes) : since[pipes[k]] <= msg
    BY <2>1, Zenon DEF FramesInv
  <2>9. QED
    BY <2>1, <2>2, <2>7, <2>8, Zenon DEF FramesInv
<1>5. CASE WriteFails
  <2> USE <1>5 DEF WriteFails
  <2>1. i \in 1..Len(pipes) /\ owner = "main" /\ owner' = "main"
    BY DEF LockInv
  <2>2. /\ Len(RemoveAt(pipes, i)) = Len(pipes) - 1
        /\ \A k \in 1..(Len(pipes) - 1) : RemoveAt(pipes, i)[k] =
              IF k < i THEN pipes[k] ELSE pipes[k + 1]
    <3> HIDE <1>5
    <3> QED
      BY <2>1, RemoveAtIs
  <2>3. /\ Len(pipes') = Len(pipes) - 1
        /\ \A k \in 1..(Len(pipes) - 1) : pipes'[k] =
              IF k < i THEN pipes[k] ELSE pipes[k + 1]
    BY <2>2, Zenon
  <2>4. /\ i' = i - 1 /\ mpc = "body" /\ mpc' = "length"
        /\ UNCHANGED <<msg, client, since, got, chan>>
    OBVIOUS
  <2>5. \A c \in Conns : info'[c] = "none" => info[c] = "none"
    BY DEF TypeOK
  <2> HIDE <1>5 DEF WriteFails
  <2>6. ASSUME NEW k \in 1..(Len(pipes) - 1)
        PROVE  /\ since[pipes'[k]] <= msg
               /\ client[pipes'[k]] = "connected" =>
                     got[pipes'[k]] \o chan[pipes'[k]] = Written(k)'
    <3>1. CASE k < i
      <4>1. k \in 1..Len(pipes)
        OBVIOUS
      <4>2. pipes'[k] = pipes[k]
        BY <2>3, <3>1, Zenon
      <4>3. Written(k)' = Written(k)
        BY <2>1, <2>4, <3>1, <4>2 DEF Written
      <4>4. QED
        BY <2>1, <4>1, <4>2, <4>3, Zenon DEF FramesInv
    <3>2. CASE ~(k < i)
      <4>1. k + 1 \in 1..Len(pipes)
        OBVIOUS
      <4>2. pipes'[k] = pipes[k + 1]
        BY <2>3, <3>2, Zenon
      <4>3. Written(k)' = Written(k + 1)
        BY <2>1, <2>4, <3>2, <4>2 DEF Written
      <4>4. QED
        BY <2>1, <4>1, <4>2, <4>3, Zenon DEF FramesInv
    <3>3. QED
      BY <3>1, <3>2
  <2>7. QED
    BY <2>1, <2>3, <2>4, <2>5, <2>6, Zenon DEF FramesInv
<1>6. CASE WriteCompletes
  <2>1. \A k \in 1..Len(pipes) : Written(k)' = Written(k)
    BY <1>6 DEF WriteCompletes, LockInv, Written
  <2>2. QED
    BY <1>6, <1>a, <2>1, Zenon DEF WriteCompletes
<1>7. CASE FinishWrite
  <2>1. \A k \in 1..Len(pipes) : Written(k)' = Written(k)
    BY <1>7 DEF FinishWrite, LockInv, Written
  <2>2. /\ owner = "main" /\ owner' # "main"
        /\ UNCHANGED <<pipes, info, client, got, chan, since, msg>>
    BY <1>7 DEF FinishWrite, LockInv
  <2>3. \A k \in 1..Len(pipes) : since[pipes[k]] <= msg + 1
    <3>1. \A k \in 1..Len(pipes) : since[pipes[k]] <= msg
      BY <2>2, Zenon DEF FramesInv
    <3>2. \A k \in 1..Len(pipes) : since[pipes[k]] \in Int
      OBVIOUS
    <3>3. \A n \in Int : n <= msg => n <= msg + 1
      OBVIOUS
    <3>4. QED
      BY <3>1, <3>2, <3>3, Zenon
  <2>4. QED
    BY <2>1, <2>2, <2>3, Zenon DEF FramesInv
<1>8. QED
  BY <1>1, <1>2, <1>3, <1>4, <1>5, <1>6, <1>7 DEF Main

LEMMA FramesClients ==
    ASSUME CoreInv, FramesInv, NEW c \in Conns, Connect(c) \/ Read(c) \/ Leave(c)
    PROVE  FramesInv'
<1>0. /\ chan \in [Conns -> Seq(Chunk)] /\ got \in [Conns -> Seq(Chunk)]
      /\ client \in [Conns -> {"new", "connected", "gone"}]
      /\ \A k \in 1..Len(pipes) : pipes[k] \in Conns
  BY FramesTyped DEF CoreInv, TypeOK
<1>a. UNCHANGED <<pipes, info, since, msg, mpc, i, owner>>
  BY DEF Connect, Read, Leave, mainVars, listVars
<1>b. \A k \in 1..Len(pipes) : Written(k)' = Written(k)
  BY <1>a, Zenon DEF Written
<1>1. ASSUME NEW d \in Conns, info[d] = "none"
      PROVE  got'[d] = <<>> /\ chan'[d] = <<>>
  <2>1. got[d] = <<>> /\ chan[d] = <<>>
    BY <1>1 DEF FramesInv
  <2>2. QED
    BY <1>0, <2>1 DEF Connect, Read, Leave
<1>2. ASSUME NEW k \in 1..Len(pipes), client'[pipes[k]] = "connected"
      PROVE  got'[pipes[k]] \o chan'[pipes[k]] = Written(k)
  <2> DEFINE d == pipes[k]
  <2>1. d \in Conns /\ info[d] = "live"
    BY <1>0 DEF CoreInv, ListInv
  <2>2. client[d] = "connected"
    <3>1. client[d] # "new"
      BY <2>1 DEF CoreInv, InstanceInv
    <3>2. QED
      BY <1>0, <1>2, <2>1, <3>1 DEF Connect, Newest, Read, Leave
  <2>3. got[d] \o chan[d] = Written(k)
    BY <2>2 DEF FramesInv
  <2>4. CASE got'[d] = got[d] /\ chan'[d] = chan[d]
    BY <2>3, <2>4
  <2>5. CASE ~(got'[d] = got[d] /\ chan'[d] = chan[d])
    <3>1. /\ got[d] \in Seq(Chunk) /\ chan[d] \in Seq(Chunk) /\ chan[d] # <<>>
          /\ got'[d] = Append(got[d], Head(chan[d])) /\ chan'[d] = Tail(chan[d])
      BY <1>0, <1>2, <2>1, <2>5 DEF Connect, Read, Leave
    <3>2. Append(got[d], Head(chan[d])) \o Tail(chan[d]) = got[d] \o chan[d]
      BY <3>1, ReadMoves
    <3>3. QED
      BY <2>3, <3>1, <3>2
  <2>6. QED
    BY <2>4, <2>5
<1>3. QED
  BY <1>a, <1>b, <1>1, <1>2, Zenon DEF FramesInv

\* Whatever other clients do in the same loop - leave, fail, stall it, join
\* after it - a client in the list has got, between two calls of WriteMessage,
\* the frames of every message since it joined, whole and in order.
THEOREM MessagesCorrect == Spec => []EveryClientGetsEveryMessage
<1>1. Init => FramesInv
  BY DEF Init, FramesInv
<1>2. FramesInv /\ UNCHANGED vars => FramesInv'
  BY DEF FramesInv, Written, vars, mainVars, clientVars, listVars
<1>3. CoreInv /\ FramesInv /\ [Next]_vars => FramesInv'
  BY <1>2, FramesThread, FramesMain, FramesClients DEF Next
<1>4. CoreInv /\ FramesInv => EveryClientGetsEveryMessage
  <2> SUFFICES ASSUME CoreInv, FramesInv, owner # "main", NEW c \in Conns, Listed(c),
                      client[c] = "connected"
               PROVE  got[c] \o chan[c] = Frames(since[c], msg)
    BY DEF EveryClientGetsEveryMessage
  <2>0. DOMAIN pipes = 1..Len(pipes) /\ mpc # "body"
    BY DEF CoreInv, TypeOK, LockInv
  <2>1. PICK k \in 1..Len(pipes) : pipes[k] = c
    BY <2>0, Zenon DEF Listed, ToSet
  <2>2. QED
    BY <2>0, <2>1 DEF FramesInv, Written
<1>5. QED
  BY <1>1, <1>3, <1>4, CoreCorrect, PTL DEF Spec
=============================================================================
