-------------------------- MODULE LocalizerProofs --------------------------
(***************************************************************************)
(* The camera server's process beside the localizer, for every number of   *)
(* processes and cameras and every clock.                                  *)
(***************************************************************************)
EXTENDS Localizer, FiniteSetTheorems, TLAPS

USE CamsAssumption, ClockAssumption, TimeAssumption

\* The part of the type invariant that the next two properties need.
ProcTypes ==
    /\ pc \in [Servers -> {"off", "init", "refused", "setup", "loop", "grab",
                           "write", "stamp", "cleanup", "enter", "ended"}]
    /\ handler \in [Servers -> {"none", "set", "waiting"}]
    /\ isRunning \in [Servers -> BOOLEAN] /\ holders \subseteq Servers
    /\ late \in [Servers -> Nat] /\ lost \in [Servers -> BOOLEAN]

Serving(s) == pc[s] \notin {"off", "refused", "ended"}

\* Who serves has a handle of the mutex, so that nobody else starts to.
Handles ==
    \A s \in Servers : Serving(s) =>
        /\ s \in holders
        /\ \A r \in Servers : Serving(r) => r = s

\* A server whose console was closed, and that was not made to forget it, does
\* not start another iteration; the image it wrote since is its last one.
Stopping ==
    \A s \in Servers :
        /\ pc[s] \in {"off", "init", "refused", "setup"} => ~lost[s]
        /\ handler[s] = "waiting" /\ ~lost[s] => ~isRunning[s]
        /\ ~lost[s] => \/ late[s] = 0
                       \/ /\ late[s] = 1 /\ handler[s] = "waiting"
                          /\ pc[s] \in {"stamp", "loop", "cleanup", "enter"}

Procs == ProcTypes /\ Handles /\ Stopping

-----------------------------------------------------------------------------
LEMMA EndStep ==
    ASSUME NEW s \in Servers, Procs, End(s)
    PROVE  Procs'
<1> USE DEF End
<1>1. ProcTypes'
  BY DEF Procs, ProcTypes
<1>2. Handles'
  BY DEF Procs, ProcTypes, Handles, Serving
<1>3. Stopping'
  BY DEF Procs, ProcTypes, Stopping
<1>4. QED
  BY <1>1, <1>2, <1>3, Zenon DEF Procs

\* Setup that succeeds; one that fails ends the process.
SetUp(s) ==
    /\ pc[s] = "setup" /\ pc' = [pc EXCEPT ![s] = "loop"]
    /\ isRunning' = [isRunning EXCEPT ![s] = TRUE]
    /\ lost' = [lost EXCEPT ![s] = ~isRunning[s]]
    /\ UNCHANGED <<handler, holders, late, clockVars, stampVars>>
    /\ \/ UNCHANGED channelVars
       \/ ~opened /\ published' = 0 /\ memory' = 0 /\ taken' = NoImage

LEMMA SetupIs ==
    ASSUME NEW s \in Servers, Setup(s)
    PROVE  SetUp(s) \/ (End(s) /\ UNCHANGED <<clockVars, stampVars, channelVars>>)
<1>1. CASE End(s) /\ UNCHANGED channelVars
  BY <1>1, Zenon DEF Setup
<1>2. CASE ~(End(s) /\ UNCHANGED channelVars)
  BY <1>2 DEF Setup, SetUp
<1>3. QED
  BY <1>1, <1>2

LEMMA ProcsStep == Procs /\ ServerNext => Procs'
<1> SUFFICES ASSUME Procs, ServerNext PROVE Procs'
  OBVIOUS
<1>1. CASE Tick
  BY <1>1, Zenon
  DEF Tick, procVars, Procs, ProcTypes, Handles, Stopping, Serving
<1>2. ASSUME NEW s \in Servers, InitHandles(s)
      PROVE  Procs'
  <2>1. ProcTypes'
    BY <1>2 DEF InitHandles, Procs, ProcTypes
  <2>2. Handles'
    BY <1>2 DEF InitHandles, Procs, ProcTypes, Handles, Serving
  <2>3. Stopping'
    BY <1>2 DEF InitHandles, Procs, ProcTypes, Stopping
  <2>4. QED
    BY <2>1, <2>2, <2>3, Zenon DEF Procs
<1>3. ASSUME NEW s \in Servers, SetConsoleCtrlHandler(s)
      PROVE  Procs'
  <2>1. ProcTypes'
    BY <1>3 DEF SetConsoleCtrlHandler, Procs, ProcTypes
  <2>2. Handles'
    BY <1>3 DEF SetConsoleCtrlHandler, Procs, ProcTypes, Handles, Serving
  <2>3. Stopping'
    BY <1>3 DEF SetConsoleCtrlHandler, Procs, ProcTypes, Stopping
  <2>4. QED
    BY <2>1, <2>2, <2>3, Zenon DEF Procs
<1>4. ASSUME NEW s \in Servers, SetUp(s)
      PROVE  Procs'
  <2>1. ProcTypes'
    <3>1. isRunning' \in [Servers -> BOOLEAN] /\ lost' \in [Servers -> BOOLEAN]
      BY <1>4 DEF SetUp, Procs, ProcTypes
    <3>2. QED
      BY <1>4, <3>1 DEF SetUp, Procs, ProcTypes
  <2>2. Handles'
    BY <1>4 DEF SetUp, Procs, ProcTypes, Handles, Serving
  <2>3. Stopping'
    BY <1>4 DEF SetUp, Procs, ProcTypes, Stopping
  <2>4. QED
    BY <2>1, <2>2, <2>3, Zenon DEF Procs
<1>5. ASSUME NEW s \in Servers, Cleanup(s)
      PROVE  Procs'
  <2>1. ProcTypes'
    BY <1>5 DEF Cleanup, Procs, ProcTypes
  <2>2. Handles'
    BY <1>5 DEF Cleanup, Procs, ProcTypes, Handles, Serving
  <2>3. Stopping'
    BY <1>5 DEF Cleanup, Procs, ProcTypes, Stopping
  <2>4. QED
    BY <2>1, <2>2, <2>3, Zenon DEF Procs
<1>6. ASSUME NEW s \in Servers, CloseConsole(s), ~End(s)
      PROVE  Procs'
  <2>1. ProcTypes'
    BY <1>6 DEF CloseConsole, Procs, ProcTypes
  <2>2. Handles'
    BY <1>6 DEF CloseConsole, Procs, ProcTypes, Handles, Serving
  <2>3. Stopping'
    BY <1>6 DEF CloseConsole, Procs, ProcTypes, Stopping
  <2>4. QED
    BY <2>1, <2>2, <2>3, Zenon DEF Procs
<1>7. ASSUME NEW s \in Servers, Loop(s)
      PROVE  Procs'
  <2>1. ProcTypes'
    BY <1>7 DEF Loop, Procs, ProcTypes
  <2>2. Handles'
    BY <1>7 DEF Loop, Procs, ProcTypes, Handles, Serving
  <2>3. Stopping'
    BY <1>7 DEF Loop, Procs, ProcTypes, Stopping
  <2>4. QED
    BY <2>1, <2>2, <2>3, Zenon DEF Procs
<1>8. ASSUME NEW s \in Servers, Grab(s)
      PROVE  Procs'
  <2>1. /\ UNCHANGED <<handler, isRunning, holders, late, lost>>
        /\ pc[s] = "grab" /\ pc' \in {pc, [pc EXCEPT ![s] = "write"]}
    BY <1>8 DEF Grab
  <2>2. ProcTypes'
    BY <2>1 DEF Procs, ProcTypes
  <2>3. Handles'
    BY <2>1 DEF Procs, ProcTypes, Handles, Serving
  <2>4. Stopping'
    BY <2>1 DEF Procs, ProcTypes, Stopping
  <2>5. QED
    BY <2>2, <2>3, <2>4, Zenon DEF Procs
<1>9. ASSUME NEW s \in Servers, Write(s)
      PROVE  Procs'
  <2>1. ProcTypes'
    BY <1>9 DEF Write, Procs, ProcTypes
  <2>2. Handles'
    BY <1>9 DEF Write, Procs, ProcTypes, Handles, Serving
  <2>3. Stopping'
    BY <1>9 DEF Write, Procs, ProcTypes, Stopping
  <2>4. QED
    BY <2>1, <2>2, <2>3, Zenon DEF Procs
<1>10. ASSUME NEW s \in Servers, WriteStamp(s)
       PROVE  Procs'
  <2>1. ProcTypes'
    BY <1>10 DEF WriteStamp, Procs, ProcTypes
  <2>2. Handles'
    BY <1>10 DEF WriteStamp, Procs, ProcTypes, Handles, Serving
  <2>3. Stopping'
    BY <1>10 DEF WriteStamp, Procs, ProcTypes, Stopping
  <2>4. QED
    BY <2>1, <2>2, <2>3, Zenon DEF Procs
<1>11. QED
  BY <1>1, <1>2, <1>3, <1>4, <1>5, <1>6, <1>7, <1>8, <1>9, <1>10, EndStep, SetupIs, Zenon
  DEF ServerNext, Refuse, Enter, ExitProcess, GrabFails

-----------------------------------------------------------------------------
(* Division with remainder, of a divisor that is not a literal. *)

LEMMA DivMod ==
    ASSUME NEW a \in Int, NEW b \in Int, b > 0
    PROVE  /\ a \div b \in Int /\ a % b \in 0..(b - 1)
           /\ a = b * (a \div b) + (a % b)
<1>1. a \div b \in Int /\ a % b \in 0..(b - 1)
  OBVIOUS
<1>2. a = b * (a \div b) + (a % b)
  OBVIOUS
<1>3. QED
  BY <1>1, <1>2

LEMMA DivNat ==
    ASSUME NEW a \in Nat, NEW b \in Int, b > 0
    PROVE  a \div b \in Nat
<1> DEFINE q == a \div b
<1>1. q \in Int /\ a = b * q + (a % b) /\ a % b \in 0..(b - 1)
  BY DivMod
<1> HIDE DEF q
<1>2. ASSUME q <= -1
      PROVE  FALSE
  <2>1. b * q <= -b
    BY <1>1, <1>2
  <2>2. QED
    BY <1>1, <2>1
<1>3. q \in Nat
  BY <1>1, <1>2
<1>4. QED
  BY <1>3 DEF q

LEMMA DivUnique ==
    ASSUME NEW b \in Nat \ {0}, NEW q \in Int, NEW r \in 0..(b - 1),
           NEW p \in Int, NEW s \in 0..(b - 1), b * q + r = b * p + s
    PROVE  q = p /\ r = s
<1>1. b * (q - p) = s - r
  OBVIOUS
<1>2. s - r \in Int /\ s - r < b /\ s - r > -b
  OBVIOUS
<1>3. ~(q - p >= 1)
  <2>1. q - p >= 1 => b * (q - p) >= b
    OBVIOUS
  <2>2. QED
    BY <1>1, <1>2, <2>1
<1>4. ~(q - p <= -1)
  <2>1. q - p <= -1 => b * (q - p) <= -b
    OBVIOUS
  <2>2. QED
    BY <1>1, <1>2, <2>1
<1>5. QED
  BY <1>1, <1>3, <1>4

\* A second later the cycle timer shows one more, or starts again.
LEMMA NextSecond ==
    ASSUME NEW a \in Nat, NEW b \in Nat, a = b + 1
    PROVE  \/ /\ b % Wrap = Wrap - 1 /\ a % Wrap = 0
              /\ a \div Wrap = (b \div Wrap) + 1
           \/ /\ b % Wrap # Wrap - 1 /\ a % Wrap = (b % Wrap) + 1
              /\ a \div Wrap = b \div Wrap
<1> DEFINE q == a \div Wrap
           r == a % Wrap
           p == b \div Wrap
           s == b % Wrap
<1>1. Wrap \in Int /\ Wrap > 0 /\ Wrap \in Nat \ {0}
  OBVIOUS
<1>2. q \in Int /\ r \in 0..(Wrap - 1) /\ a = Wrap * q + r
  BY <1>1, DivMod
<1>3. p \in Int /\ s \in 0..(Wrap - 1) /\ b = Wrap * p + s
  BY <1>1, DivMod
<1> HIDE DEF q, r, p, s
<1>4. CASE s = Wrap - 1
  <2>1. Wrap * q + r = Wrap * (p + 1) + 0
    BY <1>2, <1>3, <1>4
  <2>2. p + 1 \in Int /\ 0 \in 0..(Wrap - 1)
    BY <1>3
  <2>3. q = p + 1 /\ r = 0
    BY <1>1, <1>2, <2>1, <2>2, DivUnique
  <2>4. QED
    BY <1>4, <2>3 DEF q, r, p, s
<1>5. CASE s # Wrap - 1
  <2>1. Wrap * q + r = Wrap * p + (s + 1)
    BY <1>2, <1>3
  <2>2. s + 1 \in 0..(Wrap - 1)
    BY <1>3, <1>5
  <2>3. q = p /\ r = s + 1
    BY <1>1, <1>2, <1>3, <2>1, <2>2, DivUnique
  <2>4. QED
    BY <1>5, <2>3 DEF q, r, p, s
<1>6. QED
  BY <1>4, <1>5

\* The time a cycle of the timer started.
Start(t) == t - (t % Cycle)

LEMMA CycleType == Cycle \in Nat \ {0} /\ Cycle \in Int /\ Cycle > 0
  BY DEF Cycle

LEMMA StartIs ==
    ASSUME NEW t \in Nat
    PROVE  /\ Second(t) \in Nat /\ t % Cycle \in Nat
           /\ Start(t) = Cycle * (Second(t) \div Wrap)
<1> DEFINE m == Second(t)
           k == m \div Wrap
           s == m % Wrap
           r == t % Rate
<1>1. Rate \in Int /\ Rate > 0 /\ Wrap \in Int /\ Wrap > 0
  OBVIOUS
<1>2. m \in Nat /\ t = Rate * m + r /\ r \in 0..(Rate - 1)
  BY <1>1, DivMod, DivNat DEF Second
<1>3. m \in Int
  BY <1>2
<1> HIDE DEF m
<1>4. k \in Int /\ s \in 0..(Wrap - 1) /\ m = Wrap * k + s
  BY <1>1, <1>3, DivMod
<1> HIDE DEF k, s, r
<1>5. t \div Cycle \in Int /\ t % Cycle \in 0..(Cycle - 1)
      /\ t = Cycle * (t \div Cycle) + (t % Cycle)
  BY CycleType, DivMod
<1>6. Rate * s + r \in 0..(Cycle - 1)
  <2>1. Rate * s >= 0 /\ Rate * s <= Rate * (Wrap - 1)
    BY <1>1, <1>4
  <2>2. Rate * (Wrap - 1) = Cycle - Rate
    BY <1>1 DEF Cycle
  <2>3. Rate * s \in Int
    BY <1>1, <1>4
  <2>4. QED
    BY <1>1, <1>2, <2>1, <2>2, <2>3, CycleType
<1>7. t = Cycle * k + (Rate * s + r)
  <2>1. t = Rate * (Wrap * k + s) + r
    BY <1>2, <1>4
  <2>2. Rate * (Wrap * k + s) = (Wrap * Rate) * k + Rate * s
    BY <1>1, <1>4
  <2>3. QED
    BY <1>2, <1>4, <2>1, <2>2 DEF Cycle
<1> DEFINE d == t \div Cycle
           e == t % Cycle
           f == Rate * s + r
<1>8. d \in Int /\ e \in 0..(Cycle - 1) /\ t = Cycle * d + e
      /\ f \in 0..(Cycle - 1) /\ t = Cycle * k + f
  BY <1>5, <1>6, <1>7
<1> HIDE DEF d, e, f
<1>9. d = k
  BY <1>4, <1>8, CycleType, DivUnique
<1>10. t - e = Cycle * k
  BY <1>4, <1>8, <1>9, CycleType
<1>11. QED
  BY <1>2, <1>8, <1>10, CycleType DEF m, k, e, Start

-----------------------------------------------------------------------------
(* Types. *)

LEMMA TypeInit == Init => TypeOK
<1> SUFFICES ASSUME Init PROVE TypeOK
  OBVIOUS
<1> USE DEF Init, ServerInit, LocInit
<1>1. NoImage \in Images
  BY DEF NoImage, Images
<1>2. /\ pc \in [Servers -> {"off", "init", "refused", "setup", "loop", "grab",
                             "write", "stamp", "cleanup", "enter", "ended"}]
      /\ handler \in [Servers -> {"none", "set", "waiting"}]
      /\ isRunning \in [Servers -> BOOLEAN] /\ holders \subseteq Servers
      /\ late \in [Servers -> Nat] /\ lost \in [Servers -> BOOLEAN]
  OBVIOUS
<1>3. /\ now \in 0..MaxTime /\ shot \in [Cams -> Int] /\ cam \in Cams
      /\ cycleTimeSeconds \in Nat
      /\ {imageTimestamp, zero, memory, timestamp, oldtimestamp, last} \subseteq Int
      /\ {published, read, frameNum, processed} \subseteq Nat
      /\ camNum \in Cams
  BY DEF Cams
<1>4. /\ incrementCycleTimeSeconds \in BOOLEAN /\ steady \in BOOLEAN
      /\ {opened, running, alike} \subseteq BOOLEAN
  BY Zenon
<1>5. {taken, held} \subseteq Images
  BY <1>1, Zenon
<1>6. lpc \in {"read", "send", "stopped"}
  OBVIOUS
<1>7. message \in [cam : Cams, timestamp : Int, image : Images]
  BY <1>1 DEF Cams
<1>8. QED
  BY <1>2, <1>3, <1>4, <1>5, <1>6, <1>7, Zenon DEF TypeOK

\* TypeOK in three parts: processes, stamps and channel, localizer.
StampTypes ==
    /\ now \in 0..MaxTime /\ shot \in [Cams -> Int] /\ cam \in Cams
    /\ cycleTimeSeconds \in Nat /\ incrementCycleTimeSeconds \in BOOLEAN
    /\ imageTimestamp \in Int /\ zero \in Int /\ memory \in Int
    /\ steady \in BOOLEAN /\ published \in Nat /\ taken \in Images

LocTypes ==
    /\ lpc \in {"read", "send", "stopped"} /\ running \in BOOLEAN
    /\ opened \in BOOLEAN /\ alike \in BOOLEAN
    /\ timestamp \in Int /\ oldtimestamp \in Int /\ last \in Int
    /\ frameNum \in Nat /\ processed \in Nat /\ held \in Images
    /\ read \in Nat /\ camNum \in Cams
    /\ message \in [cam : Cams, timestamp : Int, image : Images]

LEMMA TypeParts == TypeOK <=> ProcTypes /\ StampTypes /\ LocTypes
<1>1. TypeOK => ProcTypes /\ StampTypes /\ LocTypes
  BY Zenon DEF TypeOK, ProcTypes, StampTypes, LocTypes
<1>2. ProcTypes /\ StampTypes /\ LocTypes => TypeOK
  BY Zenon DEF TypeOK, ProcTypes, StampTypes, LocTypes
<1>3. QED
  BY <1>1, <1>2

\* What GetCycleTimestampFromImage computes.
LEMMA CycleTimestampTypes ==
    ASSUME StampTypes, NEW t \in Int, CycleTimestamp(t)
    PROVE  /\ cycleTimeSeconds' \in Nat /\ incrementCycleTimeSeconds' \in BOOLEAN
           /\ imageTimestamp' \in Int
<1>1. t % Cycle \in Int
  BY CycleType, DivMod
<1>2. incrementCycleTimeSeconds' \in BOOLEAN
  BY Zenon DEF CycleTimestamp, StampTypes
<1>3. cycleTimeSeconds' \in {cycleTimeSeconds, cycleTimeSeconds + Wrap}
  BY Zenon DEF CycleTimestamp
<1>4. cycleTimeSeconds' \in Nat
  BY <1>3 DEF StampTypes
<1>5. imageTimestamp' = (cycleTimeSeconds' * Rate) + (t % Cycle)
  BY Zenon DEF CycleTimestamp
<1>6. QED
  BY <1>1, <1>2, <1>4, <1>5

LEMMA StampTypesStep == StampTypes /\ ServerNext => StampTypes'
<1> SUFFICES ASSUME StampTypes, ServerNext PROVE StampTypes'
  OBVIOUS
<1>1. CASE Tick
  BY <1>1 DEF Tick, StampTypes, stampVars, channelVars
<1>2. CASE UNCHANGED <<clockVars, stampVars, channelVars>>
  BY <1>2, Zenon DEF StampTypes, clockVars, stampVars, channelVars
<1>3. ASSUME NEW s \in Servers, InitHandles(s)
      PROVE  StampTypes'
  <2>1. UNCHANGED <<clockVars, channelVars>>
    BY <1>3, Zenon DEF InitHandles
  <2>2. \/ UNCHANGED stampVars
        \/ /\ cam' = 1 /\ imageTimestamp' = -1 /\ cycleTimeSeconds' = 0
           /\ incrementCycleTimeSeconds' = FALSE /\ zero' = -1 /\ steady' = TRUE
    BY <1>3, Zenon DEF InitHandles
  <2>3. CASE UNCHANGED stampVars
    BY <2>1, <2>3, <1>2
  <2>4. CASE cam' = 1 /\ imageTimestamp' = -1 /\ cycleTimeSeconds' = 0
             /\ incrementCycleTimeSeconds' = FALSE /\ zero' = -1 /\ steady' = TRUE
    <3>1. /\ cam' \in Cams /\ cycleTimeSeconds' \in Nat
          /\ imageTimestamp' \in Int /\ zero' \in Int
      BY <2>4 DEF Cams
    <3>2. QED
      BY <2>1, <2>4, <3>1, Zenon DEF StampTypes, clockVars, channelVars
  <2>5. QED
    BY <2>2, <2>3, <2>4
<1>4. ASSUME NEW s \in Servers, Grab(s)
      PROVE  StampTypes'
  <2>1. PICK t \in (shot[cam] + 1)..now :
          /\ shot' = [shot EXCEPT ![cam] = t]
          /\ CycleTimestamp(t)
          /\ IF zero = -1
             THEN zero' = t - (t % Cycle) /\ UNCHANGED steady
             ELSE /\ steady' = (/\ steady /\ imageTimestamp + zero <= t
                                /\ Second(t) - Second(imageTimestamp + zero) \in {0, 1})
                  /\ UNCHANGED zero
    BY <1>4, Zenon DEF Grab
  <2>2. t \in Int
    BY <2>1 DEF StampTypes
  <2>3. /\ cycleTimeSeconds' \in Nat /\ incrementCycleTimeSeconds' \in BOOLEAN
        /\ imageTimestamp' \in Int
    BY <2>1, <2>2, CycleTimestampTypes, Zenon
  <2>4. steady' \in BOOLEAN
    BY <2>1, Zenon DEF StampTypes
  <2>5. zero' \in Int
    <3>1. t - (t % Cycle) \in Int
      BY <2>2, CycleType, DivMod
    <3>2. QED
      BY <2>1, <3>1, Zenon DEF StampTypes
  <2>6. shot' \in [Cams -> Int]
    BY <2>1, <2>2 DEF StampTypes
  <2>7. cam' \in Cams
    BY <1>4 DEF Grab, StampTypes, Cams
  <2>8. UNCHANGED <<now, channelVars>>
    BY <1>4, Zenon DEF Grab
  <2>9. QED
    BY <2>3, <2>4, <2>5, <2>6, <2>7, <2>8, Zenon DEF StampTypes, channelVars
<1>5. ASSUME UNCHANGED <<clockVars, stampVars>>,
             published' \in Nat, memory' \in Int, taken' \in Images
      PROVE  StampTypes'
  BY <1>5, Zenon DEF StampTypes, clockVars, stampVars
<1>6. ASSUME NEW s \in Servers, Write(s)
      PROVE  StampTypes'
  <2>1. UNCHANGED <<clockVars, stampVars>>
    BY <1>6, Zenon DEF Write
  <2>2. published' \in Nat /\ memory' \in Int
    BY <1>6 DEF Write, StampTypes, channelVars
  <2>3. taken' \in Images
    <3>1. [at |-> shot, by |-> s, zero |-> zero, steady |-> steady,
           whole |-> FALSE] \in Images
      BY Zenon DEF Images, StampTypes
    <3>2. QED
      BY <1>6, <3>1, Zenon DEF Write, StampTypes, channelVars
  <2>4. QED
    BY <1>5, <2>1, <2>2, <2>3
<1>7. ASSUME NEW s \in Servers, WriteStamp(s)
      PROVE  StampTypes'
  <2>1. UNCHANGED <<clockVars, stampVars, published>> /\ memory' = imageTimestamp
        /\ taken' = [taken EXCEPT !.whole = TRUE]
    BY <1>7, Zenon DEF WriteStamp
  <2>2. taken' \in Images
    BY <2>1 DEF StampTypes, Images
  <2>3. published' \in Nat /\ memory' \in Int
    BY <2>1, Zenon DEF StampTypes
  <2>4. QED
    BY <1>5, <2>1, <2>2, <2>3
<1>8. ASSUME NEW s \in Servers, Setup(s)
      PROVE  StampTypes'
  <2>1. /\ UNCHANGED <<clockVars, stampVars>>
        /\ \/ UNCHANGED channelVars
           \/ published' = 0 /\ memory' = 0 /\ taken' = NoImage
    BY <1>8, Zenon DEF Setup
  <2>2. NoImage \in Images
    BY DEF NoImage, Images
  <2>3. 0 \in Nat /\ 0 \in Int
    OBVIOUS
  <2>4. CASE UNCHANGED channelVars
    BY <1>2, <2>1, <2>4
  <2>5. CASE published' = 0 /\ memory' = 0 /\ taken' = NoImage
    BY <1>5, <2>1, <2>2, <2>3, <2>5, Zenon
  <2>6. QED
    BY <2>1, <2>4, <2>5
<1>9. QED
  BY <1>1, <1>2, <1>3, <1>4, <1>6, <1>7, <1>8, Zenon
  DEF ServerNext, Refuse, SetConsoleCtrlHandler, Cleanup, Enter,
      CloseConsole, ExitProcess, Loop, GrabFails

LEMMA LocTypesStep ==
    StampTypes /\ LocTypes /\ (Open \/ Iterate \/ RunCamera) => LocTypes'
<1> SUFFICES ASSUME StampTypes, LocTypes, Open \/ Iterate \/ RunCamera
             PROVE  LocTypes'
  OBVIOUS
<1> CASE Open
  BY Zenon DEF Open, LocTypes
<1>1. CASE Iterate
  <2>1. /\ running' \in BOOLEAN /\ camNum' \in Cams /\ lpc' = "send"
        /\ UNCHANGED <<opened, oldtimestamp, frameNum, message, processed, last>>
    <3>1. 1 \in Cams
      BY DEF Cams
    <3>2. QED
      BY <1>1, <3>1, Zenon DEF Iterate
  <2>2. /\ held' \in Images /\ timestamp' \in Int /\ alike' \in BOOLEAN
    BY <1>1, Zenon DEF Iterate, ReadNextImage, LocTypes, StampTypes
  <2>3. read' \in Nat
    BY <1>1, Zenon DEF Iterate, ReadNextImage, LocTypes, StampTypes
  <2>4. QED
    BY <2>1, <2>2, <2>3, Zenon DEF LocTypes
<1>2. CASE RunCamera
  <2>1. UNCHANGED <<opened, running, read, held, timestamp, alike>>
    BY <1>2, Zenon DEF RunCamera
  <2>2. message' \in [cam : Cams, timestamp : Int, image : Images]
    <3>1. message' = [cam |-> camNum, timestamp |-> timestamp, image |-> held]
      BY <1>2, Zenon DEF RunCamera
    <3>2. QED
      BY <3>1, Zenon DEF LocTypes
  <2>3. lpc' \in {"read", "send", "stopped"} /\ camNum' \in Cams
    BY <1>2 DEF RunCamera, LocTypes, Cams
  <2>4. processed' \in Nat /\ last' \in Int
    <3>1. processed' \in {processed, processed + 1} /\ last' \in {last, read}
      BY <1>2, Zenon DEF RunCamera
    <3>2. QED
      BY <3>1 DEF LocTypes
  <2>5. frameNum' \in Nat /\ oldtimestamp' \in Int
    <3>1. /\ frameNum' \in {frameNum, frameNum + 1}
          /\ oldtimestamp' \in {oldtimestamp, timestamp}
      BY <1>2, Zenon DEF RunCamera, CountFrame
    <3>2. QED
      BY <3>1 DEF LocTypes
  <2>6. QED
    BY <2>1, <2>2, <2>3, <2>4, <2>5, Zenon DEF LocTypes
<1>3. QED
  BY <1>1, <1>2

-----------------------------------------------------------------------------
(* The time stamps. *)

LastTime == imageTimestamp + zero

\* While images come steadily, the seconds counted are the ones at which the
\* last image's cycle of the timer started, and the flag tells that the cycle is
\* in its last second.
Clock ==
    /\ \A c \in Cams : shot[c] >= -1
    /\ zero = -1 => /\ imageTimestamp = -1 /\ cycleTimeSeconds = 0
                    /\ incrementCycleTimeSeconds = FALSE
    /\ zero # -1 => zero \in Nat
    /\ zero # -1 /\ steady =>
        /\ LastTime \in Nat
        /\ cycleTimeSeconds * Rate + zero = Start(LastTime)
        /\ incrementCycleTimeSeconds <=> CycleSeconds(LastTime) = Wrap - 1

Writing(s) == pc[s] \in {"write", "stamp"}

\* The cameras whose image of this iteration was grabbed: all of them when the
\* image is written, and the last of them at the time of the stamp.
Shots ==
    \A s \in Servers : Serving(s) =>
        /\ pc[s] # "grab" => cam = 1
        /\ Writing(s) \/ cam > 1 => zero # -1
        /\ steady => \A c \in Cams :
                Writing(s) \/ c < cam => shot[c] <= LastTime
        /\ steady /\ Writing(s) => shot[NumCams] = LastTime

\* The image in the memory whose stamp has yet to come.
Half ==
    \A s \in Servers : pc[s] = "stamp" =>
        taken = [at |-> shot, by |-> s, zero |-> zero, steady |-> steady,
                 whole |-> FALSE]

\* What PosesHaveTheirTime says of an image and its time stamp.
TimeFits(image, stamp) ==
    image # NoImage /\ image.whole /\ image.steady =>
        /\ \A c \in Cams : image.at[c] <= stamp + image.zero
        /\ image.at[NumCams] = stamp + image.zero

Stamps == Clock /\ Shots
Poses ==
    /\ TimeFits(taken, memory)
    /\ TimeFits(held, timestamp)
    /\ TimeFits(message.image, message.timestamp)

\* The first image of a server.
LEMMA FirstStamp ==
    ASSUME StampTypes, Clock, zero = -1, NEW t \in Nat, CycleTimestamp(t),
           zero' = t - (t % Cycle)
    PROVE  /\ zero' \in Nat /\ LastTime' = t
           /\ cycleTimeSeconds' * Rate + zero' = Start(t)
           /\ incrementCycleTimeSeconds' <=> CycleSeconds(t) = Wrap - 1
<1>1. cycleTimeSeconds = 0 /\ incrementCycleTimeSeconds = FALSE
  BY Zenon DEF Clock
<1>2. /\ cycleTimeSeconds' = 0
      /\ incrementCycleTimeSeconds' <=> CycleSeconds(t) = Wrap - 1
      /\ imageTimestamp' = (cycleTimeSeconds' * Rate) + (t % Cycle)
  BY <1>1, Zenon DEF CycleTimestamp
<1>3. t % Cycle \in Nat
  BY StartIs
<1>4. Start(t) \in Nat
  <2> DEFINE k == Second(t) \div Wrap
  <2>1. Second(t) \in Nat /\ Start(t) = Cycle * k
    BY StartIs
  <2>2. k \in Nat
    BY <2>1, DivNat
  <2> HIDE DEF k
  <2>3. QED
    BY <2>1, <2>2, CycleType
<1>5. zero' = Start(t)
  BY Zenon DEF Start
<1>6. cycleTimeSeconds' * Rate + zero' = zero'
  BY <1>2, <1>4, <1>5
<1>7. LastTime' = t
  <2> DEFINE e == t % Cycle
  <2>1. imageTimestamp' = 0 * Rate + e /\ zero' = t - e /\ e \in Nat
    BY <1>2, <1>3, Zenon
  <2> HIDE DEF e
  <2>2. QED
    BY <2>1 DEF LastTime
<1>8. QED
  BY <1>2, <1>4, <1>5, <1>6, <1>7, Zenon

\* The next one, not before the last and at most a second later.
LEMMA NextStamp ==
    ASSUME StampTypes, Clock, zero # -1, steady, NEW t \in Nat, CycleTimestamp(t),
           UNCHANGED zero, Second(t) - Second(LastTime) \in {0, 1}
    PROVE  /\ LastTime' = t
           /\ cycleTimeSeconds' * Rate + zero = Start(t)
           /\ incrementCycleTimeSeconds' <=> CycleSeconds(t) = Wrap - 1
<1> DEFINE u == LastTime
           a == Second(t)
           b == Second(u)
<1>1. /\ u \in Nat /\ zero \in Nat
      /\ cycleTimeSeconds * Rate + zero = Start(u)
      /\ incrementCycleTimeSeconds <=> CycleSeconds(u) = Wrap - 1
  BY Zenon DEF Clock
<1> HIDE DEF u
<1>2. a \in Nat /\ b \in Nat /\ a - b \in {0, 1}
  BY <1>1, StartIs DEF u
<1>3. Start(t) = Cycle * (a \div Wrap) /\ Start(u) = Cycle * (b \div Wrap)
  BY <1>1, StartIs
<1>4. CycleSeconds(t) = a % Wrap /\ CycleSeconds(u) = b % Wrap
  BY Zenon DEF CycleSeconds
<1> HIDE DEF a, b
<1>5. ASSUME CycleSeconds(t) = 0 /\ incrementCycleTimeSeconds
      PROVE  /\ cycleTimeSeconds' * Rate + zero = Start(t)
             /\ incrementCycleTimeSeconds' <=> CycleSeconds(t) = Wrap - 1
  <2>1. cycleTimeSeconds' = cycleTimeSeconds + Wrap
        /\ incrementCycleTimeSeconds' = FALSE
    BY <1>5, Zenon DEF CycleTimestamp
  <2>2. b % Wrap = Wrap - 1 /\ a % Wrap = 0
    BY <1>1, <1>4, <1>5, Zenon
  <2>3. a # b
    BY <2>2
  <2>4. a \div Wrap = (b \div Wrap) + 1
    <3>1. a = b + 1
      BY <1>2, <2>3
    <3>2. QED
      BY <1>2, <2>2, <3>1, NextSecond
  <2>5. Start(t) = Start(u) + Cycle
    <3>1. b \div Wrap \in Nat
      BY <1>2, DivNat
    <3>2. QED
      BY <1>3, <2>4, <3>1, CycleType
  <2>6. cycleTimeSeconds' * Rate + zero = Start(t)
    <3>1. cycleTimeSeconds' * Rate = cycleTimeSeconds * Rate + Cycle
      BY <2>1 DEF StampTypes, Cycle
    <3>2. cycleTimeSeconds * Rate \in Int /\ zero \in Int
      BY <1>1 DEF StampTypes
    <3>3. QED
      BY <1>1, <2>5, <3>1, <3>2, CycleType
  <2>7. CycleSeconds(t) # Wrap - 1
    BY <1>5
  <2>8. QED
    BY <2>1, <2>6, <2>7, Zenon
<1>6. ASSUME ~(CycleSeconds(t) = 0 /\ incrementCycleTimeSeconds)
      PROVE  /\ cycleTimeSeconds' * Rate + zero = Start(t)
             /\ incrementCycleTimeSeconds' <=> CycleSeconds(t) = Wrap - 1
  <2>1. /\ cycleTimeSeconds' = cycleTimeSeconds
        /\ incrementCycleTimeSeconds' <=>
                (incrementCycleTimeSeconds \/ CycleSeconds(t) = Wrap - 1)
    BY <1>6, Zenon DEF CycleTimestamp
  <2>2. \/ a = b
        \/ /\ b % Wrap # Wrap - 1 /\ a % Wrap = (b % Wrap) + 1
           /\ a \div Wrap = b \div Wrap
    <3>1. a = b \/ a = b + 1
      BY <1>2
    <3>2. CASE a = b + 1
      <4>1. ~(b % Wrap = Wrap - 1 /\ a % Wrap = 0)
        BY <1>1, <1>4, <1>6, Zenon
      <4>2. QED
        BY <1>2, <3>2, <4>1, NextSecond, Zenon
    <3>3. QED
      BY <3>1, <3>2
  <2>3. Start(t) = Start(u)
    BY <1>3, <2>2, Zenon
  <2>4. incrementCycleTimeSeconds' <=> CycleSeconds(t) = Wrap - 1
    BY <1>1, <1>4, <2>1, <2>2, Zenon
  <2>5. QED
    BY <1>1, <2>1, <2>3, <2>4, Zenon
<1>7. /\ cycleTimeSeconds' * Rate + zero = Start(t)
      /\ incrementCycleTimeSeconds' <=> CycleSeconds(t) = Wrap - 1
  BY <1>5, <1>6, Zenon
<1>8. LastTime' = t
  <2> DEFINE e == t % Cycle
             c == cycleTimeSeconds' * Rate
  <2>1. e \in Nat
    BY StartIs
  <2>2. c \in Int
    <3>1. cycleTimeSeconds' \in Nat
      BY CycleTimestampTypes
    <3>2. QED
      BY <3>1
  <2>3. imageTimestamp' = c + e /\ c + zero = t - e /\ zero' = zero
    BY <1>7, Zenon DEF CycleTimestamp, Start
  <2> HIDE DEF e, c
  <2>4. QED
    BY <1>1, <2>1, <2>2, <2>3 DEF LastTime
<1>9. QED
  BY <1>7, <1>8, Zenon

LEMMA StampsStep == Procs /\ StampTypes /\ Stamps /\ ServerNext => Stamps'
<1> SUFFICES ASSUME Procs, StampTypes, Stamps, ServerNext PROVE Stamps'
  OBVIOUS
<1>1. ASSUME UNCHANGED <<shot, stampVars>>,
             \A s \in Servers : Serving(s)' =>
                /\ Serving(s)
                /\ Writing(s)' => Writing(s)
                /\ pc[s] = "grab" => pc'[s] = "grab"
      PROVE  Stamps'
  <2>1. LastTime' = LastTime
    BY <1>1, Zenon DEF stampVars, LastTime
  <2>2. Clock'
    BY <1>1, <2>1, Zenon DEF Stamps, Clock, stampVars
  <2>3. Shots'
    <3>1. SUFFICES ASSUME NEW s \in Servers, Serving(s)'
                   PROVE  /\ pc'[s] # "grab" => cam' = 1
                          /\ Writing(s)' \/ cam' > 1 => zero' # -1
                          /\ steady' => \A c \in Cams :
                                Writing(s)' \/ c < cam' => shot'[c] <= LastTime'
                          /\ steady' /\ Writing(s)' => shot'[NumCams] = LastTime'
      BY Zenon DEF Shots
    <3>2. /\ Serving(s)
          /\ Writing(s)' => Writing(s)
          /\ pc'[s] # "grab" => pc[s] # "grab"
      BY <1>1, <3>1, Zenon
    <3>3. UNCHANGED <<cam, zero, steady, shot>>
      BY <1>1, Zenon DEF stampVars
    <3>4. QED
      BY <2>1, <3>2, <3>3, Zenon DEF Stamps, Shots
  <2>4. QED
    BY <2>2, <2>3, Zenon DEF Stamps
<1>2. CASE Tick
  BY <1>1, <1>2, Zenon DEF Tick, procVars, Serving, Writing
<1>3. ASSUME NEW s \in Servers, End(s), UNCHANGED <<clockVars, stampVars>>
      PROVE  Stamps'
  <2>1. \A r \in Servers : Serving(r)' => pc'[r] = pc[r] /\ Serving(r)
    BY <1>3 DEF End, Serving, Procs, ProcTypes
  <2>2. UNCHANGED shot
    BY <1>3, Zenon DEF clockVars
  <2>3. QED
    BY <1>1, <1>3, <2>1, <2>2, Zenon DEF Writing
<1>4. ASSUME NEW s \in Servers, InitHandles(s)
      PROVE  Stamps'
  <2>1. CASE holders = {}
    <3>1. /\ cam' = 1 /\ imageTimestamp' = -1 /\ cycleTimeSeconds' = 0
          /\ incrementCycleTimeSeconds' = FALSE /\ zero' = -1 /\ UNCHANGED shot
      BY <1>4, <2>1, Zenon DEF InitHandles, clockVars
    <3>2. Clock'
      BY <3>1, Zenon DEF Stamps, Clock
    <3>3. \A r \in Servers : Serving(r)' => pc'[r] = "init"
      BY <1>4, <2>1 DEF InitHandles, Procs, ProcTypes, Handles, Serving
    <3>4. \A c \in Cams : ~(c < 1)
      BY DEF Cams
    <3>5. Shots'
      <4>1. ~(1 > 1)
        OBVIOUS
      <4>2. \A r \in Servers : Serving(r)' => ~Writing(r)'
        BY <3>3 DEF Writing
      <4>3. QED
        BY <3>1, <3>4, <4>1, <4>2, Zenon DEF Shots
    <3>6. QED
      BY <3>2, <3>5, Zenon DEF Stamps
  <2>2. CASE holders # {}
    <3>1. UNCHANGED <<clockVars, stampVars>>
          /\ pc[s] = "off" /\ pc' = [pc EXCEPT ![s] = "refused"]
      BY <1>4, <2>2, Zenon DEF InitHandles
    <3>2. \A r \in Servers : Serving(r)' => pc'[r] = pc[r] /\ Serving(r)
      BY <3>1 DEF Serving, Procs, ProcTypes
    <3>3. QED
      BY <1>1, <3>1, <3>2, Zenon DEF clockVars, Writing
  <2>3. QED
    BY <2>1, <2>2
<1>5. ASSUME NEW s \in Servers,
             UNCHANGED <<shot, stampVars>>, Serving(s), pc[s] # "grab",
             \E p \in {"setup", "loop", "grab", "cleanup", "enter"} :
                pc' = [pc EXCEPT ![s] = p]
      PROVE  Stamps'
  <2>1. \A r \in Servers : Serving(r)' =>
            /\ Serving(r)
            /\ Writing(r)' => Writing(r)
            /\ pc[r] = "grab" => pc'[r] = "grab"
    BY <1>5 DEF Serving, Writing, Procs, ProcTypes
  <2>2. QED
    BY <1>1, <1>5, <2>1, Zenon
<1>6. ASSUME NEW s \in Servers, SetConsoleCtrlHandler(s)
      PROVE  Stamps'
  <2>1. Serving(s) /\ pc[s] # "grab" /\ pc' = [pc EXCEPT ![s] = "setup"]
        /\ UNCHANGED <<shot, stampVars>>
    BY <1>6 DEF SetConsoleCtrlHandler, Serving, clockVars
  <2>2. QED
    BY <1>5, <2>1
<1>7. ASSUME NEW s \in Servers, SetUp(s)
      PROVE  Stamps'
  <2>1. Serving(s) /\ pc[s] # "grab" /\ pc' = [pc EXCEPT ![s] = "loop"]
        /\ UNCHANGED <<shot, stampVars>>
    BY <1>7 DEF SetUp, Serving, clockVars
  <2>2. QED
    BY <1>5, <2>1
<1>8. ASSUME NEW s \in Servers, Cleanup(s)
      PROVE  Stamps'
  <2>1. Serving(s) /\ pc[s] # "grab" /\ pc' = [pc EXCEPT ![s] = "enter"]
        /\ UNCHANGED <<shot, stampVars>>
    BY <1>8 DEF Cleanup, Serving, clockVars
  <2>2. QED
    BY <1>5, <2>1
<1>9. ASSUME NEW s \in Servers, Loop(s)
      PROVE  Stamps'
  <2>1. Serving(s) /\ pc[s] # "grab"
        /\ \E p \in {"grab", "cleanup"} : pc' = [pc EXCEPT ![s] = p]
        /\ UNCHANGED <<shot, stampVars>>
    BY <1>9 DEF Loop, Serving, clockVars
  <2>2. QED
    BY <1>5, <2>1
<1>10. ASSUME NEW s \in Servers, Write(s)
      PROVE  Stamps'
  <2>1. /\ pc[s] = "write" /\ UNCHANGED <<shot, stampVars>>
        /\ pc' \in {[pc EXCEPT ![s] = "loop"], [pc EXCEPT ![s] = "stamp"]}
    BY <1>10 DEF Write, clockVars
  <2>2. \A r \in Servers : Serving(r)' =>
            /\ Serving(r)
            /\ Writing(r)' => Writing(r)
            /\ pc[r] = "grab" => pc'[r] = "grab"
    BY <2>1 DEF Serving, Writing, Procs, ProcTypes
  <2>3. QED
    BY <1>1, <2>1, <2>2, Zenon
<1>11. ASSUME NEW s \in Servers, CloseConsole(s), ~End(s)
      PROVE  Stamps'
  <2>1. UNCHANGED <<pc, shot, stampVars>>
    BY <1>11, Zenon DEF CloseConsole, clockVars
  <2>2. QED
    BY <1>1, <2>1, Zenon DEF Serving, Writing
<1>12. ASSUME NEW s \in Servers, Grab(s)
      PROVE  Stamps'
  <2>1. PICK t \in (shot[cam] + 1)..now :
          /\ shot' = [shot EXCEPT ![cam] = t]
          /\ CycleTimestamp(t)
          /\ IF zero = -1
             THEN zero' = t - (t % Cycle) /\ UNCHANGED steady
             ELSE /\ steady' = (/\ steady /\ imageTimestamp + zero <= t
                                /\ Second(t) - Second(imageTimestamp + zero) \in {0, 1})
                  /\ UNCHANGED zero
    BY <1>12, Zenon DEF Grab
  <2>2. cam \in Cams /\ shot[cam] \in Int /\ shot[cam] >= -1 /\ now \in Int
    BY DEF StampTypes, Stamps, Clock
  <2>3. t \in Nat
    BY <2>1, <2>2
  <2>4. Serving(s) /\ pc[s] = "grab"
    BY <1>12 DEF Grab, Serving
  <2>5. zero = -1 => cam = 1
    <3>1. ~(cam > 1) \/ zero # -1
      BY <2>4, Zenon DEF Stamps, Shots
    <3>2. QED
      BY <2>2, <3>1 DEF Cams
  <2>6. /\ zero' \in Nat
        /\ steady' => /\ steady /\ LastTime' = t
                      /\ cycleTimeSeconds' * Rate + zero' = Start(t)
                      /\ incrementCycleTimeSeconds' <=> CycleSeconds(t) = Wrap - 1
                      /\ zero = -1 \/ LastTime <= t
    <3>1. CASE zero = -1
      <4>1. zero' = t - (t % Cycle) /\ UNCHANGED steady
        BY <2>1, <3>1, Zenon
      <4>2. QED
        BY <2>1, <2>3, <3>1, <4>1, FirstStamp, Zenon DEF Stamps
    <3>2. CASE zero # -1
      <4>1. /\ UNCHANGED zero
            /\ steady' => /\ steady /\ LastTime <= t
                          /\ Second(t) - Second(LastTime) \in {0, 1}
        BY <2>1, <3>2, Zenon DEF LastTime
      <4>2. zero \in Nat
        BY <3>2, Zenon DEF Stamps, Clock
      <4>3. QED
        BY <2>1, <2>3, <3>2, <4>1, <4>2, NextStamp, Zenon DEF Stamps
    <3>3. QED
      BY <3>1, <3>2
  <2>7. \A c \in Cams : shot'[c] = IF c = cam THEN t ELSE shot[c]
    BY <2>1 DEF StampTypes
  <2>8. Clock'
    <3>1. \A c \in Cams : shot'[c] >= -1
      BY <2>3, <2>7 DEF Stamps, Clock
    <3>2. zero' # -1
      BY <2>6
    <3>3. QED
      BY <2>3, <2>6, <3>1, <3>2, Zenon DEF Clock
  <2>9. \A r \in Servers : Serving(r)' => r = s
    <3>1. pc' \in {pc, [pc EXCEPT ![s] = "write"]}
      BY <1>12 DEF Grab
    <3>2. \A r \in Servers : r # s => pc'[r] = pc[r]
      BY <3>1 DEF Procs, ProcTypes
    <3>3. \A r \in Servers : Serving(r) => r = s
      BY <2>4, Zenon DEF Procs, Handles
    <3>4. QED
      BY <3>2, <3>3, Zenon DEF Serving
  <2>10. steady' => \A c \in Cams : c = cam \/ c < cam => shot'[c] <= t
    <3>1. SUFFICES ASSUME steady', NEW c \in Cams, c = cam \/ c < cam
                   PROVE  shot'[c] <= t
      BY Zenon
    <3>2. CASE c = cam
      BY <2>3, <2>7, <3>2
    <3>3. CASE c < cam
      <4>1. zero # -1 /\ c # cam
        BY <2>2, <2>5, <3>3 DEF Cams
      <4>2. steady /\ LastTime <= t
        BY <2>6, <3>1, <4>1, Zenon
      <4>3. shot[c] <= LastTime
        BY <2>4, <3>3, <4>2, Zenon DEF Stamps, Shots
      <4>4. shot[c] \in Int /\ LastTime \in Int
        BY DEF StampTypes, LastTime
      <4>5. QED
        BY <2>3, <2>7, <4>1, <4>2, <4>3, <4>4
    <3>4. QED
      BY <3>1, <3>2, <3>3
  <2>11. Shots'
    <3>1. SUFFICES /\ pc'[s] # "grab" => cam' = 1
                   /\ zero' # -1
                   /\ steady' => \A c \in Cams :
                         Writing(s)' \/ c < cam' => shot'[c] <= LastTime'
                   /\ steady' /\ Writing(s)' => shot'[NumCams] = LastTime'
      BY <2>9, Zenon DEF Shots
    <3>2. zero' # -1
      BY <2>6
    <3>3. CASE cam < NumCams
      <4>1. cam' = cam + 1 /\ pc'[s] = "grab"
        BY <1>12, <2>4, <3>3 DEF Grab
      <4>2. \A c \in Cams : c < cam' => c = cam \/ c < cam
        BY <2>2, <4>1 DEF Cams
      <4>3. ~Writing(s)'
        BY <4>1 DEF Writing
      <4>4. QED
        BY <2>6, <2>10, <3>2, <4>1, <4>2, <4>3, Zenon
    <3>4. CASE ~(cam < NumCams)
      <4>1. cam' = 1 /\ cam = NumCams
        BY <1>12, <2>2, <3>4 DEF Grab, Cams
      <4>2. \A c \in Cams : c = cam \/ c < cam
        BY <4>1 DEF Cams
      <4>3. shot'[NumCams] = t
        BY <2>2, <2>7, <4>1, Zenon
      <4>4. QED
        BY <2>6, <2>10, <3>2, <4>1, <4>2, <4>3, Zenon
    <3>5. QED
      BY <3>3, <3>4
  <2>12. QED
    BY <2>8, <2>11, Zenon DEF Stamps
<1>13. ASSUME NEW s \in Servers, WriteStamp(s)
       PROVE  Stamps'
  <2>1. Serving(s) /\ pc[s] # "grab" /\ pc' = [pc EXCEPT ![s] = "loop"]
        /\ UNCHANGED <<shot, stampVars>>
    <3>1. pc[s] = "stamp" /\ pc' = [pc EXCEPT ![s] = "loop"]
          /\ UNCHANGED <<shot, stampVars>>
      BY <1>13, Zenon DEF WriteStamp, clockVars
    <3>2. QED
      BY <3>1 DEF Serving
  <2>2. QED
    BY <1>5, <2>1
<1>14. QED
  BY <1>2, <1>3, <1>4, <1>6, <1>7, <1>8, <1>9, <1>10, <1>11, <1>12, <1>13, SetupIs, Zenon
  DEF ServerNext, Refuse, Enter, CloseConsole, ExitProcess, GrabFails

\* A server that is at the stamp copied its pictures last: nobody serves beside
\* it.
LEMMA HalfStep == Procs /\ Half /\ ServerNext => Half'
<1> SUFFICES ASSUME Procs, Half, ServerNext PROVE Half'
  OBVIOUS
<1>1. ASSUME \A r \in Servers : pc'[r] # "stamp"
      PROVE  Half'
  BY <1>1, Zenon DEF Half
<1>2. ASSUME UNCHANGED <<shot, zero, steady, taken>>,
             \A r \in Servers : pc'[r] = "stamp" => pc[r] = "stamp"
      PROVE  Half'
  BY <1>2, Zenon DEF Half
<1>3. ASSUME NEW s \in Servers, Serving(s), NEW p, p # "stamp",
             pc' = [pc EXCEPT ![s] = p]
      PROVE  \A r \in Servers : pc'[r] # "stamp"
  <2>1. \A r \in Servers : r # s => pc[r] # "stamp"
    BY <1>3 DEF Procs, Handles, Serving
  <2>2. QED
    BY <1>3, <2>1 DEF Procs, ProcTypes
<1>4. CASE Tick
  BY <1>2, <1>4, Zenon DEF Tick, procVars, stampVars, channelVars
<1>5. ASSUME NEW s \in Servers, End(s), UNCHANGED <<clockVars, stampVars, channelVars>>
      PROVE  Half'
  <2>1. \A r \in Servers : pc'[r] = "stamp" => pc[r] = "stamp"
    BY <1>5 DEF End, Procs, ProcTypes
  <2>2. QED
    BY <1>2, <1>5, <2>1, Zenon DEF clockVars, stampVars, channelVars
<1>6. ASSUME NEW s \in Servers, InitHandles(s)
      PROVE  Half'
  <2>1. CASE holders = {}
    <3>1. \A r \in Servers : pc[r] # "stamp"
      BY <2>1 DEF Procs, Handles, Serving
    <3>2. pc' = [pc EXCEPT ![s] = "init"]
      BY <1>6, <2>1, Zenon DEF InitHandles
    <3>3. QED
      BY <1>1, <3>1, <3>2 DEF Procs, ProcTypes
  <2>2. CASE holders # {}
    <3>1. /\ UNCHANGED <<shot, zero, steady, taken>>
          /\ pc' = [pc EXCEPT ![s] = "refused"]
      BY <1>6, <2>2, Zenon DEF InitHandles, clockVars, stampVars, channelVars
    <3>2. QED
      BY <1>2, <3>1 DEF Procs, ProcTypes
  <2>3. QED
    BY <2>1, <2>2
<1>7. ASSUME NEW s \in Servers, SetConsoleCtrlHandler(s) \/ Cleanup(s)
      PROVE  Half'
  <2>1. Serving(s) /\ pc' \in {[pc EXCEPT ![s] = "setup"], [pc EXCEPT ![s] = "enter"]}
    BY <1>7 DEF SetConsoleCtrlHandler, Cleanup, Serving
  <2>2. QED
    BY <1>1, <1>3, <2>1
<1>8. ASSUME NEW s \in Servers, SetUp(s)
      PROVE  Half'
  <2>1. Serving(s) /\ pc' = [pc EXCEPT ![s] = "loop"]
    BY <1>8 DEF SetUp, Serving
  <2>2. QED
    BY <1>1, <1>3, <2>1
<1>9. ASSUME NEW s \in Servers, Loop(s)
      PROVE  Half'
  <2>1. Serving(s) /\ pc' \in {[pc EXCEPT ![s] = "grab"], [pc EXCEPT ![s] = "cleanup"]}
    BY <1>9 DEF Loop, Serving
  <2>2. QED
    BY <1>1, <1>3, <2>1
<1>10. ASSUME NEW s \in Servers, CloseConsole(s), ~End(s)
       PROVE  Half'
  <2>1. UNCHANGED <<pc, shot, zero, steady, taken>>
    BY <1>10, Zenon DEF CloseConsole, clockVars, stampVars, channelVars
  <2>2. QED
    BY <1>2, <2>1, Zenon
<1>11. ASSUME NEW s \in Servers, Grab(s)
       PROVE  Half'
  <2>1. pc[s] = "grab" /\ pc' \in {pc, [pc EXCEPT ![s] = "write"]}
    BY <1>11 DEF Grab
  <2>2. Serving(s)
    BY <2>1 DEF Serving
  <2>3. \A r \in Servers : pc[r] # "stamp"
    BY <2>1, <2>2 DEF Procs, Handles, Serving
  <2>4. CASE pc' = pc
    BY <1>1, <2>3, <2>4
  <2>5. CASE pc' = [pc EXCEPT ![s] = "write"]
    BY <1>1, <1>3, <2>2, <2>5
  <2>6. QED
    BY <2>1, <2>4, <2>5
<1>12. ASSUME NEW s \in Servers, Write(s)
       PROVE  Half'
  <2>1. pc[s] = "write"
    BY <1>12, Zenon DEF Write
  <2>2. Serving(s)
    BY <2>1 DEF Serving
  <2>3. CASE pc' = [pc EXCEPT ![s] = "loop"]
    BY <1>1, <1>3, <2>2, <2>3
  <2>4. CASE pc' # [pc EXCEPT ![s] = "loop"]
    <3>1. /\ taken' = [at |-> shot, by |-> s, zero |-> zero, steady |-> steady,
                       whole |-> FALSE]
          /\ pc' = [pc EXCEPT ![s] = "stamp"]
          /\ UNCHANGED <<shot, zero, steady>>
      BY <1>12, <2>4, Zenon DEF Write, clockVars, stampVars
    <3>2. \A r \in Servers : r # s => pc'[r] # "stamp"
      BY <2>2, <3>1 DEF Procs, ProcTypes, Handles, Serving
    <3>3. QED
      BY <3>1, <3>2, Zenon DEF Half
  <2>5. QED
    BY <2>3, <2>4
<1>13. ASSUME NEW s \in Servers, WriteStamp(s)
       PROVE  Half'
  <2>1. pc[s] = "stamp" /\ pc' = [pc EXCEPT ![s] = "loop"]
    BY <1>13, Zenon DEF WriteStamp
  <2>2. Serving(s)
    BY <2>1 DEF Serving
  <2>3. QED
    BY <1>1, <1>3, <2>1, <2>2
<1>14. QED
  BY <1>4, <1>5, <1>6, <1>7, <1>8, <1>9, <1>10, <1>11, <1>12, <1>13, SetupIs, Zenon
  DEF ServerNext, Refuse, Enter, CloseConsole, ExitProcess, GrabFails

\* An image that is written has the time stamp of its last camera, and the
\* localizer keeps image and stamp together.
LEMMA PosesStep ==
    StampTypes /\ Procs /\ Stamps /\ Half /\ Poses /\ Next => Poses'
<1> SUFFICES ASSUME StampTypes, Procs, Stamps, Half, Poses, Next PROVE Poses'
  OBVIOUS
<1>1. CASE ServerNext /\ UNCHANGED locVars
  <2>1. UNCHANGED <<held, timestamp, message>>
    BY <1>1, Zenon DEF locVars
  <2>2. TimeFits(taken', memory')
    <3>1. ASSUME NEW s \in Servers, WriteStamp(s)
          PROVE  TimeFits(taken', memory')
      <4>1. /\ memory' = imageTimestamp /\ pc[s] = "stamp"
            /\ taken' = [taken EXCEPT !.whole = TRUE]
        BY <3>1, Zenon DEF WriteStamp
      <4>2. Serving(s) /\ Writing(s)
        BY <4>1 DEF Serving, Writing
      <4>3. steady => /\ \A c \in Cams : shot[c] <= LastTime
                      /\ shot[NumCams] = LastTime
        BY <4>2, Zenon DEF Stamps, Shots
      <4>4. taken = [at |-> shot, by |-> s, zero |-> zero, steady |-> steady,
                     whole |-> FALSE]
        BY <4>1, Zenon DEF Half
      <4>5. taken'.at = shot /\ taken'.zero = zero /\ taken'.steady = steady
        BY <4>1, <4>4
      <4>6. QED
        BY <4>1, <4>3, <4>5, Zenon DEF TimeFits, LastTime
    <3>2. ASSUME NEW s \in Servers, Write(s), ~UNCHANGED channelVars
          PROVE  TimeFits(taken', memory')
      <4>1. taken' = [at |-> shot, by |-> s, zero |-> zero, steady |-> steady,
                      whole |-> FALSE]
        BY <3>2, Zenon DEF Write
      <4>2. ~taken'.whole
        BY <4>1
      <4>3. QED
        BY <4>2, Zenon DEF TimeFits
    <3>3. ASSUME UNCHANGED channelVars
          PROVE  TimeFits(taken', memory')
      BY <3>3, Zenon DEF Poses, channelVars
    <3>4. ASSUME taken' = NoImage
          PROVE  TimeFits(taken', memory')
      BY <3>4, Zenon DEF TimeFits
    <3>5. \/ UNCHANGED channelVars \/ taken' = NoImage
          \/ \E s \in Servers : Write(s) \/ WriteStamp(s)
      BY <1>1, Zenon
      DEF ServerNext, Tick, InitHandles, Refuse, SetConsoleCtrlHandler, Setup,
          Cleanup, Enter, CloseConsole, ExitProcess, Loop, Grab, GrabFails
    <3>6. QED
      BY <3>1, <3>2, <3>3, <3>4, <3>5
  <2>3. QED
    BY <2>1, <2>2, Zenon DEF Poses, TimeFits
<1>2. CASE Iterate /\ UNCHANGED serverVars
  <2>1. UNCHANGED <<taken, memory, message>>
    BY <1>2, Zenon DEF Iterate, serverVars, channelVars
  <2>2. \/ held' = taken /\ timestamp' = memory
        \/ UNCHANGED <<held, timestamp>>
    BY <1>2, Zenon DEF Iterate, ReadNextImage
  <2>3. QED
    BY <2>1, <2>2, Zenon DEF Poses, TimeFits
<1>3. CASE RunCamera /\ UNCHANGED serverVars
  <2>1. UNCHANGED <<taken, memory, held, timestamp>>
    BY <1>3, Zenon DEF RunCamera, serverVars, channelVars
  <2>2. message' = [cam |-> camNum, timestamp |-> timestamp, image |-> held]
    BY <1>3, Zenon DEF RunCamera
  <2>3. message'.image = held /\ message'.timestamp = timestamp
    BY <2>2
  <2>4. QED
    BY <2>1, <2>3, Zenon DEF Poses, TimeFits
<1>4. CASE Open /\ UNCHANGED serverVars
  BY <1>4, Zenon DEF Open, serverVars, channelVars, Poses, TimeFits
<1>5. QED
  BY <1>1, <1>2, <1>3, <1>4 DEF Next

-----------------------------------------------------------------------------
Inv ==
    /\ ProcTypes /\ StampTypes /\ LocTypes
    /\ Handles /\ Stopping /\ Stamps /\ Half /\ Poses

LEMMA InvInit == Init => Inv
<1> SUFFICES ASSUME Init PROVE Inv
  OBVIOUS
<1>1. ProcTypes /\ StampTypes /\ LocTypes
  BY TypeInit, TypeParts
<1>2. \A s \in Servers : /\ ~Serving(s) /\ pc[s] # "stamp" /\ ~lost[s]
                          /\ handler[s] = "none" /\ late[s] = 0
  BY DEF Init, ServerInit, Serving
<1>3. Handles /\ Shots /\ Half
  BY <1>2, Zenon DEF Handles, Shots, Half
<1>4. Stopping
  BY <1>2 DEF Stopping
<1>5. Clock
  <2>1. \A c \in Cams : shot[c] >= -1
    BY DEF Init, ServerInit
  <2>2. /\ imageTimestamp = -1 /\ cycleTimeSeconds = 0 /\ zero = -1
        /\ incrementCycleTimeSeconds = FALSE
    BY Zenon DEF Init, ServerInit
  <2>3. QED
    BY <2>1, <2>2, Zenon DEF Clock
<1>6. Poses
  <2>1. taken = NoImage /\ held = NoImage /\ message.image = NoImage
    BY DEF Init, ServerInit, LocInit
  <2>2. QED
    BY <2>1, Zenon DEF Poses, TimeFits
<1>7. QED
  BY <1>1, <1>3, <1>4, <1>5, <1>6, Zenon DEF Inv, Stamps

LEMMA InvStep == Inv /\ [Next]_vars => Inv'
<1> SUFFICES ASSUME Inv, [Next]_vars PROVE Inv'
  OBVIOUS
<1>1. CASE ServerNext /\ UNCHANGED locVars
  <2>1. Procs' /\ StampTypes' /\ Stamps' /\ Half'
    BY <1>1, ProcsStep, StampTypesStep, StampsStep, HalfStep, Zenon DEF Inv, Procs
  <2>2. LocTypes'
    BY <1>1, Zenon DEF Inv, LocTypes, locVars
  <2>3. Poses'
    BY <1>1, PosesStep, Zenon DEF Inv, Procs, Next
  <2>4. QED
    BY <2>1, <2>2, <2>3, Zenon DEF Inv, Procs
<1>2. CASE (Open \/ Iterate \/ RunCamera) /\ UNCHANGED serverVars
  <2>1. ProcTypes' /\ Handles' /\ Stopping'
    BY <1>2, Zenon DEF Inv, ProcTypes, Handles, Stopping, Serving, serverVars, procVars
  <2>2. StampTypes' /\ Stamps' /\ Half'
    <3>1. UNCHANGED <<pc, clockVars, stampVars, channelVars>>
      BY <1>2, Zenon DEF serverVars, procVars
    <3>2. StampTypes' /\ Clock'
      BY <3>1, Zenon
      DEF Inv, StampTypes, Stamps, Clock, LastTime, clockVars, stampVars, channelVars
    <3>3. Shots'
      BY <3>1, Zenon
      DEF Inv, Stamps, Shots, Serving, Writing, LastTime, clockVars, stampVars
    <3>4. Half'
      BY <3>1, Zenon DEF Inv, Half, clockVars, stampVars, channelVars
    <3>5. QED
      BY <3>2, <3>3, <3>4, Zenon DEF Stamps
  <2>3. LocTypes' /\ Poses'
    BY <1>2, LocTypesStep, PosesStep, Zenon DEF Inv, Procs, Next
  <2>4. QED
    BY <2>1, <2>2, <2>3, Zenon DEF Inv
<1>3. CASE UNCHANGED vars
  <2>1. UNCHANGED <<serverVars, locVars>>
    BY <1>3, Zenon DEF vars
  <2>2. ProcTypes' /\ Handles' /\ Stopping'
    BY <2>1, Zenon DEF Inv, ProcTypes, Handles, Stopping, Serving, serverVars, procVars
  <2>3. UNCHANGED <<pc, clockVars, stampVars, channelVars>>
    BY <2>1, Zenon DEF serverVars, procVars
  <2>4. StampTypes' /\ Clock'
    BY <2>3, Zenon
    DEF Inv, StampTypes, Stamps, Clock, LastTime, clockVars, stampVars, channelVars
  <2>5. Shots' /\ Half'
    <3>1. Shots'
      BY <2>3, Zenon
      DEF Inv, Stamps, Shots, Serving, Writing, LastTime, clockVars, stampVars
    <3>2. Half'
      BY <2>3, Zenon DEF Inv, Half, clockVars, stampVars, channelVars
    <3>3. QED
      BY <3>1, <3>2
  <2>6. LocTypes' /\ Poses'
    BY <2>1, <2>3, Zenon DEF Inv, LocTypes, Poses, TimeFits, locVars, channelVars
  <2>7. QED
    BY <2>2, <2>4, <2>5, <2>6, Zenon DEF Inv, Stamps
<1>4. QED
  BY <1>1, <1>2, <1>3 DEF Next

THEOREM InvCorrect == Spec => []Inv
  BY InvInit, InvStep, PTL DEF Spec

\* Every variable of server and localizer keeps its type, for every number of
\* processes and cameras and every clock.
THEOREM TypeCorrect == Spec => []TypeOK
<1>1. Inv => TypeOK
  BY TypeParts, Zenon DEF Inv
<1>2. QED
  BY <1>1, InvCorrect, PTL

\* One camera server at a time has cameras and channel (InitHandles), for every
\* number of processes.
THEOREM OneServerCorrect == Spec => []OneServer
<1>1. Inv => OneServer
  <2> SUFFICES ASSUME Inv PROVE OneServer
    OBVIOUS
  <2> DEFINE S == {s \in Servers : pc[s] \notin {"off", "refused", "ended"}}
  <2>1. \A s, r \in S : r = s
    BY Zenon DEF Inv, Handles, Serving
  <2>2. CASE S = {}
    BY <2>2, FS_EmptySet DEF OneServer
  <2>3. CASE S # {}
    <3>1. PICK s : s \in S
      BY <2>3
    <3>2. S = {s}
      BY <2>1, <3>1
    <3>3. Cardinality(S) = 1
      BY <3>2, FS_Singleton
    <3>4. QED
      BY <3>3 DEF OneServer
  <2>4. QED
    BY <2>2, <2>3
<1>2. QED
  BY <1>1, InvCorrect, PTL

\* A server writes one image at most after its console was closed
\* (ConsoleCtrlHandler, main), unless main overwrote that; for every number of
\* processes and cameras.
THEOREM StopCorrect == Spec => []StopsAfterThisImage
<1>1. Inv => StopsAfterThisImage
  <2> SUFFICES ASSUME Inv, NEW s \in Servers, ~lost[s]
               PROVE  late[s] <= 1
    BY Zenon DEF StopsAfterThisImage
  <2>1. late[s] = 0 \/ late[s] = 1
    BY Zenon DEF Inv, Stopping
  <2>2. QED
    BY <2>1
<1>2. QED
  BY <1>1, InvCorrect, PTL

\* GetCycleTimestampFromImage counts the cycle timer's seconds on, and the poses
\* are sent with the time of their pictures, for every timer, rate and number of
\* cameras, as long as images come in order and at least one in a second.
THEOREM TimesCorrect == Spec => []PosesHaveTheirTime
<1>1. Inv => PosesHaveTheirTime
  <2> SUFFICES ASSUME Inv, message.image # NoImage, message.image.whole,
                      message.image.steady
               PROVE  /\ message.image.at[message.cam]
                            <= message.timestamp + message.image.zero
                      /\ message.image.at[NumCams]
                            = message.timestamp + message.image.zero
    BY Zenon DEF PosesHaveTheirTime
  <2>1. message.cam \in Cams
    BY DEF Inv, LocTypes
  <2>2. QED
    BY <2>1, Zenon DEF Inv, Poses, TimeFits
<1>2. QED
  BY <1>1, InvCorrect, PTL

-----------------------------------------------------------------------------
(* The count of images. *)

Stamped == memory >= 0 /\ (zero = -1 \/ imageTimestamp >= 0)

\* The server that serves, beside an image that is its own: pictures of the last
\* camera are taken later and later, from one time 0 on.
After(image) ==
    \A s \in Servers : Serving(s) /\ image.by = s =>
        /\ zero # -1
        /\ steady => image.steady /\ image.zero = zero
        /\ shot[NumCams] >= image.at[NumCams]
        /\ pc[s] = "write" => shot[NumCams] > image.at[NumCams]

\* The localizer's image is whole while the server it is of serves, and older
\* than one that is being written.
Older ==
    \A s \in Servers :
        /\ Serving(s) /\ held.by = s =>
            /\ held.whole
            /\ pc[s] = "stamp" => shot[NumCams] > held.at[NumCams]
        /\ pc[s] = "stamp" => published > read

\* The image of a server that runs is whole, unless its stamp has yet to come.
Whole ==
    \A s \in Servers : Serving(s) /\ taken.by = s => taken.whole \/ pc[s] = "stamp"

\* Images are those of servers that were started.
Writers ==
    /\ taken.by \in Servers => taken # NoImage /\ pc[taken.by] # "off"
    /\ held.by \in Servers => pc[held.by] # "off"

\* The memory's image beside the localizer's, of the same server or the same one.
Newer ==
    /\ published >= read
    /\ published = read => memory = timestamp
    /\ published > read /\ taken.whole /\ taken.steady /\ held # NoImage =>
            (held.by = taken.by => memory > timestamp)

\* The localizer has nothing yet; the memory is blank.
Blank ==
    /\ ~opened => read = 0 /\ held = NoImage
    /\ published = 0 <=> taken = NoImage
    /\ taken = NoImage => memory = 0
    /\ held = NoImage => timestamp = 0

Order ==
    /\ Stamped
    /\ After(taken)
    /\ After(held)
    /\ Older
    /\ Whole
    /\ Writers
    /\ Newer
    /\ Blank
    /\ taken # NoImage => taken.by \in Servers
    /\ held # NoImage => held.by \in Servers

\* What was counted, and whether the image in hand will be.
Counted ==
    /\ frameNum <= processed
    /\ ~alike => frameNum = processed
    /\ lpc # "send" =>
        \/ last = -1 /\ oldtimestamp = -1 /\ timestamp = 0
        \/ last = read /\ oldtimestamp = timestamp
    /\ lpc = "send" =>
        /\ last = read => oldtimestamp = timestamp
        /\ ~alike /\ last # read => oldtimestamp # timestamp

\* A step of the server's process that writes no image and grabs none.
LEMMA OrderOther ==
    ASSUME StampTypes, LocTypes, Order, UNCHANGED <<shot, channelVars, locVars>>,
           Stamped', steady' => steady, zero # -1 => UNCHANGED zero,
           \A s \in Servers :
                /\ Serving(s)' /\ pc[s] # "off" => Serving(s)
                /\ Serving(s)' /\ pc'[s] = "write" => pc[s] = "write"
                /\ pc'[s] = "stamp" => pc[s] = "stamp"
                /\ Serving(s)' /\ pc[s] = "stamp" => pc'[s] = "stamp"
                /\ pc[s] # "off" => pc'[s] # "off"
    PROVE  Order'
<1>1. UNCHANGED <<opened, held, timestamp, read, memory, published, taken>>
  BY Zenon DEF channelVars, locVars
<1>2. Writers'
  BY <1>1, Zenon DEF Order, Writers
<1>3. ASSUME NEW image, After(image), NEW s \in Servers, Serving(s)', image.by = s,
             pc[s] # "off"
      PROVE  /\ zero' # -1
             /\ steady' => image.steady /\ image.zero = zero'
             /\ shot'[NumCams] >= image.at[NumCams]
             /\ pc'[s] = "write" => shot'[NumCams] > image.at[NumCams]
  <2>1. Serving(s) /\ (pc'[s] = "write" => pc[s] = "write")
    BY <1>3, Zenon
  <2>2. /\ zero # -1
        /\ steady => image.steady /\ image.zero = zero
        /\ shot[NumCams] >= image.at[NumCams]
        /\ pc[s] = "write" => shot[NumCams] > image.at[NumCams]
    BY <1>3, <2>1, Zenon DEF After
  <2>3. QED
    BY <2>1, <2>2, Zenon
<1>4. After(taken)'
  <2>1. \A s \in Servers : taken.by = s => pc[s] # "off"
    BY Zenon DEF Order, Writers
  <2>2. After(taken)
    BY Zenon DEF Order
  <2>3. QED
    BY <1>1, <1>3, <2>1, <2>2, Zenon DEF After
<1>5. After(held)'
  <2>1. \A s \in Servers : held.by = s => pc[s] # "off"
    BY Zenon DEF Order, Writers
  <2>2. After(held)
    BY Zenon DEF Order
  <2>3. QED
    BY <1>1, <1>3, <2>1, <2>2, Zenon DEF After
<1>6. Older' /\ Whole'
  BY <1>1, Zenon DEF Order, Older, Whole, Writers
<1>7. Newer' /\ Blank'
  BY <1>1, Zenon DEF Order, Newer, Blank
<1>8. QED
  BY <1>1, <1>2, <1>4, <1>5, <1>6, <1>7, Zenon DEF Order

\* A new process counts time anew; none serves beside it, and it has not written.
LEMMA OrderStart ==
    ASSUME Inv, Order, UNCHANGED locVars, NEW s \in Servers, InitHandles(s)
    PROVE  Order'
<1>1. /\ UNCHANGED <<shot, channelVars>>
      /\ UNCHANGED <<opened, held, timestamp, read, memory, published, taken>>
      /\ pc[s] = "off" /\ pc' \in {[pc EXCEPT ![s] = "init"],
                                   [pc EXCEPT ![s] = "refused"]}
  BY Zenon DEF InitHandles, clockVars, channelVars, locVars
<1>2. /\ pc'[s] \in {"init", "refused"}
      /\ \A r \in Servers : r # s => pc'[r] = pc[r]
  BY <1>1 DEF Inv, ProcTypes
<1>3. taken.by # s /\ held.by # s
  BY <1>1, Zenon DEF Order, Writers
<1>4. CASE holders = {}
  <2>1. zero' = -1 /\ \A r \in Servers : Serving(r)' => r = s
    <3>1. \A r \in Servers : ~Serving(r)
      BY <1>4 DEF Inv, Handles
    <3>2. QED
      BY <1>2, <1>4, <3>1, Zenon DEF InitHandles, Serving
  <2>2. \A r \in Servers : pc'[r] # "stamp"
    BY <1>2, <2>1 DEF Serving
  <2>3. After(taken)' /\ After(held)' /\ Older' /\ Whole' /\ Stamped'
    BY <1>1, <1>3, <2>1, <2>2, Zenon DEF After, Older, Whole, Stamped, Order
  <2>4. Writers'
    <3>1. \A r \in Servers : pc[r] # "off" => pc'[r] # "off"
      BY <1>2
    <3>2. QED
      BY <1>1, <3>1, Zenon DEF Order, Writers
  <2>5. QED
    BY <1>1, <2>3, <2>4, Zenon DEF Order, Newer, Blank
<1>5. CASE holders # {}
  <2>1. UNCHANGED stampVars /\ pc' = [pc EXCEPT ![s] = "refused"]
    BY <1>5, Zenon DEF InitHandles
  <2>2. pc'[s] = "refused"
    BY <2>1 DEF Inv, ProcTypes
  <2>3. \A r \in Servers :
            /\ Serving(r)' => Serving(r) /\ pc'[r] = pc[r]
            /\ pc'[r] = "stamp" => pc[r] = "stamp"
            /\ pc[r] # "off" => pc'[r] # "off"
    BY <1>2, <2>2 DEF Serving
  <2>4. UNCHANGED <<zero, steady, imageTimestamp, memory>>
    BY <1>1, <2>1, Zenon DEF stampVars
  <2>5. Stamped'
    BY <2>4, Zenon DEF Order, Stamped
  <2>6. QED
    BY <1>1, <2>3, <2>4, <2>5, OrderOther, Zenon DEF Inv
<1>6. QED
  BY <1>4, <1>5

\* The localizer has opened nothing, and the memory is made anew.
LEMMA OrderSetup ==
    ASSUME Inv, Order, UNCHANGED locVars, NEW s \in Servers, SetUp(s)
    PROVE  Order'
<1>1. /\ pc[s] = "setup" /\ pc' = [pc EXCEPT ![s] = "loop"]
      /\ UNCHANGED <<shot, stampVars>>
      /\ UNCHANGED <<opened, held, timestamp, read, zero, steady, imageTimestamp>>
      /\ \/ UNCHANGED channelVars
         \/ ~opened /\ published' = 0 /\ memory' = 0 /\ taken' = NoImage
  BY Zenon DEF SetUp, locVars, clockVars, stampVars
<1>2. Serving(s) /\ pc'[s] = "loop"
      /\ \A r \in Servers : /\ r # s => pc'[r] = pc[r]
                            /\ Serving(r) => r = s
  BY <1>1 DEF Inv, ProcTypes, Handles, Serving
<1>3. \A r \in Servers :
          /\ Serving(r)' => Serving(r) /\ pc'[r] # "write"
          /\ pc[r] # "stamp" /\ pc'[r] # "stamp"
          /\ pc[r] # "off" => pc'[r] # "off"
  BY <1>1, <1>2 DEF Serving
<1>4. CASE UNCHANGED channelVars
  <2>1. UNCHANGED memory
    BY <1>4, Zenon DEF channelVars
  <2>2. Stamped'
    BY <1>1, <2>1, Zenon DEF Order, Stamped
  <2>3. QED
    BY <1>1, <1>3, <1>4, <2>2, OrderOther, Zenon DEF Inv
<1>5. CASE ~opened /\ published' = 0 /\ memory' = 0 /\ taken' = NoImage
  <2>1. read = 0 /\ held = NoImage /\ timestamp = 0
    BY <1>5, Zenon DEF Order, Blank
  <2>2. \A r \in Servers : r # NoImage.by
    BY ServersAssumption DEF NoImage
  <2>3. NoImage.by \notin Servers
    BY <2>2, Zenon
  <2>4. Stamped'
    BY <1>1, <1>5 DEF Order, Stamped
  <2>5. After(taken)' /\ After(held)' /\ Older' /\ Whole' /\ Writers'
    <3>1. taken' = NoImage /\ held' = NoImage
      BY <1>1, <1>5, <2>1
    <3>2. Older'
      BY <1>3, <2>2, <3>1, Zenon DEF Older
    <3>3. QED
      BY <2>2, <2>3, <3>1, <3>2, Zenon DEF After, Whole, Writers
  <2>6. 0 >= 0 /\ ~(0 > 0)
    OBVIOUS
  <2>7. Newer' /\ Blank'
    BY <1>1, <1>5, <2>1, <2>6, Zenon DEF Newer, Blank
  <2>8. QED
    BY <1>1, <1>5, <2>1, <2>4, <2>5, <2>7, Zenon DEF Order
<1>6. QED
  BY <1>1, <1>4, <1>5

\* The pictures of a camera are taken later and later.
LEMMA OrderGrab ==
    ASSUME Inv, Order, UNCHANGED locVars, NEW s \in Servers, Grab(s)
    PROVE  Order'
<1>1. PICK t \in (shot[cam] + 1)..now :
        /\ shot' = [shot EXCEPT ![cam] = t]
        /\ CycleTimestamp(t)
        /\ IF zero = -1
           THEN zero' = t - (t % Cycle) /\ UNCHANGED steady
           ELSE /\ steady' = (/\ steady /\ imageTimestamp + zero <= t
                              /\ Second(t) - Second(imageTimestamp + zero) \in {0, 1})
                /\ UNCHANGED zero
  BY Zenon DEF Grab
<1>2. cam \in Cams /\ shot[cam] \in Int /\ shot[cam] >= -1 /\ now \in Int
  BY DEF Inv, StampTypes, Stamps, Clock
<1>3. t \in Nat /\ t > shot[cam]
  BY <1>1, <1>2
<1>4. UNCHANGED <<channelVars, opened, held, timestamp, read, memory, published, taken>>
  BY Zenon DEF Grab, channelVars, locVars
<1>5. /\ pc[s] = "grab" /\ Serving(s) /\ pc'[s] \in {"grab", "write"}
      /\ pc'[s] = "write" => cam = NumCams
      /\ \A r \in Servers : r # s => pc'[r] = pc[r]
  BY <1>2 DEF Grab, Serving, Inv, ProcTypes, Cams
<1>6. Stamped'
  <2>1. imageTimestamp' = (cycleTimeSeconds' * Rate) + (t % Cycle)
    BY <1>1, Zenon DEF CycleTimestamp
  <2>2. cycleTimeSeconds' \in Nat
    BY <1>1, <1>3, CycleTimestampTypes DEF Inv
  <2>3. t % Cycle \in Nat
    BY <1>3, StartIs
  <2>4. cycleTimeSeconds' * Rate >= 0 /\ cycleTimeSeconds' * Rate \in Int
    <3> DEFINE c == cycleTimeSeconds'
    <3> HIDE DEF c
    <3>1. c \in Nat => c * Rate >= 0 /\ c * Rate \in Int
      OBVIOUS
    <3>2. QED
      BY <2>2, <3>1, Zenon DEF c
  <2>5. imageTimestamp' >= 0
    BY <2>1, <2>3, <2>4
  <2>6. QED
    BY <1>4, <2>5, Zenon DEF Order, Stamped
<1>7. Writers' /\ Older' /\ Whole'
  <2>1. \A r \in Servers : pc[r] # "off" => pc'[r] # "off"
    BY <1>5
  <2>2. \A r \in Servers : Serving(r)' => /\ Serving(r) /\ pc'[r] # "stamp"
                                          /\ pc[r] # "stamp"
    <3>1. \A r \in Servers : Serving(r) => r = s
      BY <1>5, Zenon DEF Inv, Handles
    <3>2. pc'[s] # "stamp" /\ pc[s] # "stamp"
      BY <1>5
    <3>3. QED
      BY <1>5, <3>1, <3>2, Zenon DEF Serving
  <2>3. \A r \in Servers : pc'[r] # "stamp"
    BY <2>2 DEF Serving
  <2>4. QED
    BY <1>4, <2>1, <2>2, <2>3, Zenon DEF Order, Writers, Older, Whole
<1>8. ASSUME NEW image \in Images, After(image)
      PROVE  \A r \in Servers : Serving(r)' /\ image.by = r =>
                /\ zero' # -1
                /\ steady' => image.steady /\ image.zero = zero'
                /\ shot'[NumCams] >= image.at[NumCams]
                /\ pc'[r] = "write" => shot'[NumCams] > image.at[NumCams]
  <2>1. SUFFICES ASSUME NEW r \in Servers, Serving(r)', image.by = r
                 PROVE  /\ zero' # -1
                        /\ steady' => image.steady /\ image.zero = zero'
                        /\ shot'[NumCams] >= image.at[NumCams]
                        /\ pc'[r] = "write" => shot'[NumCams] > image.at[NumCams]
    BY Zenon
  <2>2. r = s
    <3>1. Serving(r)
      BY <1>5, <2>1 DEF Serving
    <3>2. QED
      BY <1>5, <3>1, Zenon DEF Inv, Handles
  <2>3. /\ zero # -1 /\ shot[NumCams] >= image.at[NumCams]
        /\ steady => image.steady /\ image.zero = zero
    BY <1>5, <1>8, <2>1, <2>2, Zenon DEF After
  <2>4. UNCHANGED zero /\ (steady' => steady)
    BY <1>1, <2>3, Zenon
  <2>5. NumCams \in Cams
    BY DEF Cams
  <2>6. shot'[NumCams] = IF cam = NumCams THEN t ELSE shot[NumCams]
    BY <1>1, <1>2, <2>5 DEF Inv, StampTypes
  <2>7. image.at[NumCams] \in Int /\ shot[NumCams] \in Int
    BY <1>8, <2>5 DEF Inv, StampTypes, Images
  <2>8. /\ shot'[NumCams] >= image.at[NumCams]
        /\ cam = NumCams => shot'[NumCams] > image.at[NumCams]
    BY <1>2, <1>3, <2>3, <2>6, <2>7
  <2>9. QED
    BY <1>5, <2>2, <2>3, <2>4, <2>8, Zenon
<1>9. After(taken)' /\ After(held)'
  <2>1. taken \in Images /\ held \in Images
    BY Zenon DEF Inv, StampTypes, LocTypes
  <2>2. QED
    BY <1>4, <1>8, <2>1, Zenon DEF Order, After
<1>10. QED
  BY <1>4, <1>6, <1>7, <1>9, Zenon DEF Order, Newer, Blank

\* Pictures go to the memory later than those the localizer has of the server.
LEMMA OrderWrite ==
    ASSUME Inv, Order, UNCHANGED locVars, NEW s \in Servers, Write(s),
           ~UNCHANGED channelVars
    PROVE  Order'
<1>1. /\ published' = published + 1
      /\ taken' = [at |-> shot, by |-> s, zero |-> zero, steady |-> steady,
                   whole |-> FALSE]
      /\ pc[s] = "write" /\ pc' = [pc EXCEPT ![s] = "stamp"]
      /\ UNCHANGED <<shot, zero, steady, imageTimestamp, memory>>
      /\ UNCHANGED <<opened, held, timestamp, read>>
  BY Zenon DEF Write, clockVars, stampVars, locVars
<1>2. /\ taken'.at = shot /\ taken'.by = s /\ taken'.zero = zero
      /\ taken'.steady = steady /\ ~taken'.whole
  BY <1>1
<1>3. /\ Serving(s) /\ pc'[s] = "stamp"
      /\ \A r \in Servers : r # s => pc'[r] = pc[r]
  BY <1>1 DEF Serving, Inv, ProcTypes
<1>4. \A r \in Servers : Serving(r)' => r = s /\ Serving(r)
  <2>1. \A r \in Servers : Serving(r) => r = s
    BY <1>3, Zenon DEF Inv, Handles
  <2>2. QED
    BY <1>3, <2>1, Zenon DEF Serving
<1>5. taken' # NoImage
  <2>1. NoImage.by = "nobody"
    BY DEF NoImage
  <2>2. QED
    BY <1>2, <2>1, ServersAssumption, Zenon
<1>6. zero # -1
  BY <1>1, <1>3, Zenon DEF Inv, Stamps, Shots, Writing
<1>7. Stamped'
  BY <1>1, Zenon DEF Order, Stamped
<1>8. shot[NumCams] \in Int
  BY DEF Inv, StampTypes, Cams
<1>9. pc'[s] # "write" /\ pc'[s] # "off"
  BY <1>3
<1>10. After(taken)'
  <2>1. shot[NumCams] >= shot[NumCams]
    BY <1>8
  <2>2. QED
    BY <1>1, <1>2, <1>4, <1>6, <1>9, <2>1, Zenon DEF After
<1>11. After(held)'
  <2>1. After(held)
    BY Zenon DEF Order
  <2>2. QED
    BY <1>1, <1>4, <1>9, <2>1, Zenon DEF After
<1>12. Older'
  <2>1. ASSUME held.by = s
        PROVE  held.whole /\ shot[NumCams] > held.at[NumCams]
    BY <1>1, <1>3, <2>1, Zenon DEF Order, Older, After
  <2>2. published' > read
    BY <1>1 DEF Inv, StampTypes, LocTypes, Order, Newer
  <2>3. \A r \in Servers : pc'[r] = "stamp" => r = s
    BY <1>4 DEF Serving
  <2>4. QED
    BY <1>1, <1>4, <2>1, <2>2, <2>3, Zenon DEF Older
<1>13. Whole' /\ Writers'
  <2>1. \A r \in Servers : pc[r] # "off" => pc'[r] # "off"
    BY <1>3
  <2>2. QED
    BY <1>1, <1>2, <1>3, <1>4, <1>5, <1>9, <2>1, Zenon DEF Order, Whole, Writers
<1>14. Newer' /\ Blank'
  <2>1. published \in Nat /\ read \in Nat /\ published >= read
    BY Zenon DEF Inv, StampTypes, LocTypes, Order, Newer
  <2>2. published' > read /\ published' >= read /\ published' # 0 /\ published' # read
    BY <1>1, <2>1
  <2>3. Newer'
    BY <1>1, <1>2, <2>2, Zenon DEF Newer
  <2>4. QED
    BY <1>1, <1>5, <2>2, <2>3, Zenon DEF Order, Blank
<1>15. QED
  BY <1>1, <1>2, <1>5, <1>7, <1>10, <1>11, <1>12, <1>13, <1>14, Zenon DEF Order

\* An image has a later stamp than one before of the same server.
LEMMA OrderStamp ==
    ASSUME Inv, Order, UNCHANGED locVars, NEW s \in Servers, WriteStamp(s)
    PROVE  Order'
<1>1. /\ memory' = imageTimestamp /\ UNCHANGED published
      /\ taken' = [taken EXCEPT !.whole = TRUE]
      /\ pc[s] = "stamp" /\ pc' = [pc EXCEPT ![s] = "loop"]
      /\ UNCHANGED <<shot, zero, steady, imageTimestamp>>
      /\ UNCHANGED <<opened, held, timestamp, read>>
  BY Zenon DEF WriteStamp, clockVars, stampVars, locVars
<1>2. taken = [at |-> shot, by |-> s, zero |-> zero, steady |-> steady,
               whole |-> FALSE]
  BY <1>1, Zenon DEF Inv, Half
<1>3. /\ taken'.at = shot /\ taken'.by = s /\ taken'.zero = zero
      /\ taken'.steady = steady /\ taken'.whole /\ taken.by = s
  BY <1>1, <1>2
<1>4. /\ Serving(s) /\ pc'[s] = "loop"
      /\ \A r \in Servers : r # s => pc'[r] = pc[r]
  BY <1>1 DEF Serving, Inv, ProcTypes
<1>5. \A r \in Servers : Serving(r)' => r = s /\ Serving(r)
  <2>1. \A r \in Servers : Serving(r) => r = s
    BY <1>4, Zenon DEF Inv, Handles
  <2>2. QED
    BY <1>4, <2>1, Zenon DEF Serving
<1>6. taken' # NoImage /\ taken # NoImage
  <2>1. NoImage.by = "nobody"
    BY DEF NoImage
  <2>2. QED
    BY <1>3, <2>1, ServersAssumption, Zenon
<1>7. Writing(s)
  BY <1>1 DEF Writing
<1>8. zero # -1 /\ imageTimestamp >= 0
  BY <1>4, <1>7, Zenon DEF Inv, Stamps, Shots, Order, Stamped
<1>9. Stamped'
  BY <1>1, <1>8, Zenon DEF Stamped
<1>10. shot[NumCams] \in Int
  BY DEF Inv, StampTypes, Cams
<1>11. pc'[s] # "write" /\ pc'[s] # "off" /\ pc'[s] # "stamp"
  BY <1>4
<1>12. After(taken)'
  <2>1. shot[NumCams] >= shot[NumCams]
    BY <1>10
  <2>2. QED
    BY <1>1, <1>3, <1>5, <1>8, <1>11, <2>1, Zenon DEF After
<1>13. After(held)'
  <2>1. After(held)
    BY Zenon DEF Order
  <2>2. QED
    BY <1>1, <1>5, <1>11, <2>1, Zenon DEF After
<1>14. Older' /\ Whole'
  <2>1. \A r \in Servers : pc'[r] # "stamp"
    BY <1>5, <1>11 DEF Serving
  <2>2. QED
    BY <1>1, <1>3, <1>5, <2>1, Zenon DEF Order, Older, Whole
<1>15. Writers'
  <2>1. \A r \in Servers : pc[r] # "off" => pc'[r] # "off"
    BY <1>4
  <2>2. QED
    BY <1>1, <1>3, <1>6, <1>11, <2>1, Zenon DEF Order, Writers
<1>16. published > read
  BY <1>1, Zenon DEF Order, Older
<1>17. published >= read /\ published # read
  BY <1>16 DEF Inv, StampTypes, LocTypes
<1>18. Newer'
  <2>1. ASSUME held # NoImage, held.by = s, steady
        PROVE  memory' > timestamp
    <3>1. /\ held.whole /\ held.steady /\ held.zero = zero
          /\ shot[NumCams] > held.at[NumCams]
      BY <1>1, <1>4, <2>1, Zenon DEF Order, Older, After
    <3>2. held.at[NumCams] = timestamp + zero
      BY <2>1, <3>1, Zenon DEF Inv, Poses, TimeFits
    <3>3. shot[NumCams] = imageTimestamp + zero
      BY <1>4, <1>7, <2>1, Zenon DEF Inv, Stamps, Shots, LastTime
    <3>4. zero \in Int /\ imageTimestamp \in Int /\ timestamp \in Int
      BY Zenon DEF Inv, StampTypes, LocTypes
    <3>5. QED
      BY <1>1, <3>1, <3>2, <3>3, <3>4
  <2>2. QED
    BY <1>1, <1>3, <1>17, <2>1, Zenon DEF Newer
<1>19. Blank'
  BY <1>1, <1>6, Zenon DEF Order, Blank
<1>20. QED
  BY <1>1, <1>3, <1>6, <1>9, <1>12, <1>13, <1>14, <1>15, <1>18, <1>19, Zenon DEF Order

LEMMA OrderServer ==
    ASSUME Inv, Order, ServerNext, UNCHANGED locVars
    PROVE  Order'
<1>1. ASSUME UNCHANGED <<shot, channelVars, stampVars>>,
             \A s \in Servers :
                /\ Serving(s)' /\ pc[s] # "off" => Serving(s)
                /\ Serving(s)' /\ pc'[s] = "write" => pc[s] = "write"
                /\ pc'[s] = "stamp" => pc[s] = "stamp"
                /\ Serving(s)' /\ pc[s] = "stamp" => pc'[s] = "stamp"
                /\ pc[s] # "off" => pc'[s] # "off"
      PROVE  Order'
  <2>1. UNCHANGED <<zero, steady, imageTimestamp, memory>>
    BY <1>1, Zenon DEF stampVars, channelVars
  <2>2. Stamped'
    BY <2>1, Zenon DEF Order, Stamped
  <2>3. QED
    BY <1>1, <2>1, <2>2, OrderOther, Zenon DEF Inv
<1>2. ASSUME UNCHANGED <<pc, shot, channelVars, stampVars>>
      PROVE  Order'
  BY <1>1, <1>2, Zenon DEF Serving
<1>3. ASSUME NEW s \in Servers, UNCHANGED <<shot, channelVars, stampVars>>,
             \/ pc' = [pc EXCEPT ![s] = "ended"]
             \/ /\ Serving(s) /\ pc[s] # "stamp"
                /\ \E p \in {"setup", "loop", "grab", "cleanup", "enter"} :
                       pc' = [pc EXCEPT ![s] = p]
      PROVE  Order'
  <2>1. \A r \in Servers :
            /\ Serving(r)' /\ pc[r] # "off" => Serving(r)
            /\ Serving(r)' /\ pc'[r] = "write" => pc[r] = "write"
            /\ pc'[r] = "stamp" => pc[r] = "stamp"
            /\ Serving(r)' /\ pc[r] = "stamp" => pc'[r] = "stamp"
            /\ pc[r] # "off" => pc'[r] # "off"
    BY <1>3 DEF Serving, Inv, ProcTypes
  <2>2. QED
    BY <1>1, <1>3, <2>1, Zenon
<1>4. CASE Tick
  BY <1>2, <1>4, Zenon DEF Tick, procVars
<1>5. ASSUME NEW s \in Servers, End(s), UNCHANGED <<clockVars, stampVars, channelVars>>
      PROVE  Order'
  BY <1>3, <1>5, Zenon DEF End, clockVars
<1>6. ASSUME NEW s \in Servers, SetConsoleCtrlHandler(s)
      PROVE  Order'
  <2>1. Serving(s) /\ pc[s] # "stamp" /\ pc' = [pc EXCEPT ![s] = "setup"]
        /\ UNCHANGED <<shot, channelVars, stampVars>>
    BY <1>6 DEF SetConsoleCtrlHandler, Serving, clockVars
  <2>2. QED
    BY <1>3, <2>1
<1>7. ASSUME NEW s \in Servers, SetUp(s)
      PROVE  Order'
  BY <1>7, OrderSetup
<1>8. ASSUME NEW s \in Servers, Cleanup(s)
      PROVE  Order'
  <2>1. Serving(s) /\ pc[s] # "stamp" /\ pc' = [pc EXCEPT ![s] = "enter"]
        /\ UNCHANGED <<shot, channelVars, stampVars>>
    BY <1>8 DEF Cleanup, Serving, clockVars
  <2>2. QED
    BY <1>3, <2>1
<1>9. ASSUME NEW s \in Servers, Loop(s)
      PROVE  Order'
  <2>1. /\ Serving(s) /\ pc[s] # "stamp"
        /\ UNCHANGED <<shot, channelVars, stampVars>>
        /\ \E p \in {"grab", "cleanup"} : pc' = [pc EXCEPT ![s] = p]
    BY <1>9 DEF Loop, Serving, clockVars
  <2>2. QED
    BY <1>3, <2>1
<1>10. ASSUME NEW s \in Servers, CloseConsole(s), ~End(s)
      PROVE  Order'
  <2>1. UNCHANGED <<pc, shot, channelVars, stampVars>>
    BY <1>10, Zenon DEF CloseConsole, clockVars
  <2>2. QED
    BY <1>2, <2>1, Zenon
<1>11. ASSUME NEW s \in Servers, Write(s), UNCHANGED channelVars
      PROVE  Order'
  <2>1. Serving(s) /\ pc[s] # "stamp" /\ pc' = [pc EXCEPT ![s] = "loop"]
        /\ UNCHANGED <<shot, channelVars, stampVars>>
    <3>1. published' # published + 1
      BY <1>11 DEF Inv, StampTypes, channelVars
    <3>2. pc[s] = "write" /\ pc' = [pc EXCEPT ![s] = "loop"]
          /\ UNCHANGED <<shot, channelVars, stampVars>>
      BY <1>11, <3>1, Zenon DEF Write, clockVars
    <3>3. QED
      BY <3>2 DEF Serving
  <2>2. QED
    BY <1>3, <2>1
<1>12. QED
  BY <1>4, <1>5, <1>6, <1>7, <1>8, <1>9, <1>10, <1>11,
     OrderStart, OrderGrab, OrderWrite, OrderStamp, SetupIs, Zenon
  DEF ServerNext, Refuse, Enter, CloseConsole, ExitProcess, GrabFails

\* The localizer takes what the memory holds, while nobody writes, or nothing.
LEMMA OrderRead ==
    ASSUME Inv, Order, opened, ReadNextImage, UNCHANGED <<opened, serverVars>>
    PROVE  Order'
<1>1. /\ held' = taken /\ timestamp' = memory /\ read' = published
      /\ UNCHANGED <<pc, shot, zero, steady, imageTimestamp, published, memory, taken>>
      /\ \A s \in Servers : pc[s] # "stamp"
  BY Zenon
  DEF ReadNextImage, serverVars, procVars, clockVars, stampVars, channelVars
<1>2. Stamped' /\ After(taken)' /\ After(held)' /\ Older' /\ Whole'
  BY <1>1, Zenon DEF Order, Stamped, After, Older, Whole, Serving
<1>3. Writers'
  BY <1>1, Zenon DEF Order, Writers
<1>4. Newer'
  <2>1. published >= published /\ ~(published > published)
    BY DEF Inv, StampTypes
  <2>2. QED
    BY <1>1, <2>1, Zenon DEF Newer
<1>5. Blank'
  BY <1>1, Zenon DEF Order, Blank
<1>6. QED
  BY <1>1, <1>2, <1>3, <1>4, <1>5, Zenon DEF Order

LEMMA OrderSame ==
    ASSUME Order, UNCHANGED <<serverVars, held, timestamp, read>>,
           opened => opened'
    PROVE  Order'
<1>1. UNCHANGED <<pc, shot, zero, steady, imageTimestamp, published, memory, taken>>
  BY Zenon DEF serverVars, procVars, clockVars, stampVars, channelVars
<1>2. QED
  BY <1>1, Zenon
  DEF Order, Stamped, After, Older, Whole, Writers, Newer, Blank, Serving

LEMMA OrderStep == Inv /\ Order /\ [Next]_vars => Order'
<1> SUFFICES ASSUME Inv, Order, [Next]_vars PROVE Order'
  OBVIOUS
<1>1. CASE ServerNext /\ UNCHANGED locVars
  BY <1>1, OrderServer
<1>2. CASE Iterate /\ UNCHANGED serverVars
  <2>1. /\ opened /\ UNCHANGED opened
        /\ ReadNextImage \/ UNCHANGED <<held, timestamp, read>>
    BY <1>2 DEF Iterate
  <2>2. QED
    BY <1>2, <2>1, OrderRead, OrderSame
<1>3. CASE (Open \/ RunCamera) /\ UNCHANGED serverVars
  <2>1. UNCHANGED <<held, timestamp, read>> /\ (opened => opened')
    BY <1>3 DEF Open, RunCamera
  <2>2. QED
    BY <1>3, <2>1, OrderSame
<1>4. CASE UNCHANGED vars
  BY <1>4, OrderSame, Zenon DEF vars, locVars
<1>5. QED
  BY <1>1, <1>2, <1>3, <1>4 DEF Next

\* A failed read leaves the stamp as it was, and the same image brings the same
\* one, so that it does not count again; another image brings another stamp,
\* unless it is let off.
LEMMA CountedIterate ==
    ASSUME Inv, Order, Counted, Iterate
    PROVE  Counted'
<1>1. /\ lpc = "read" /\ lpc' = "send"
      /\ UNCHANGED <<oldtimestamp, frameNum, processed, last>>
  BY Zenon DEF Iterate
<1>2. \/ last = -1 /\ oldtimestamp = -1 /\ timestamp = 0
      \/ last = read /\ oldtimestamp = timestamp
  <2>1. lpc # "send"
    BY <1>1
  <2>2. QED
    BY <2>1, Zenon DEF Counted
<1>3. read \in Nat /\ published \in Nat
  BY Zenon DEF Inv, LocTypes, StampTypes
<1>4. ASSUME UNCHANGED <<read, timestamp>>, alike => alike'
      PROVE  Counted'
  <2>1. last = read => oldtimestamp = timestamp
    BY <1>2, <1>3
  <2>2. last # read => oldtimestamp # timestamp
    BY <1>2
  <2>3. QED
    BY <1>1, <1>4, <2>1, <2>2, Zenon DEF Counted
<1>5. CASE ReadNextImage
  <2>1. /\ read' = published /\ timestamp' = memory
        /\ alike' = (\/ alike \/ ~taken.whole \/ ~taken.steady
                     \/ memory = 0 /\ taken # NoImage
                     \/ held # NoImage /\ held.by # taken.by)
    BY <1>5, Zenon DEF ReadNextImage
  <2>2. alike => alike'
    BY <2>1, Zenon
  <2>3. CASE published = read
    BY <1>4, <2>1, <2>2, <2>3, Zenon DEF Order, Newer
  <2>4. CASE published # read
    <3>1. published > read
      BY <1>3, <2>4 DEF Order, Newer
    <3>2. last # read'
      BY <1>2, <1>3, <2>1, <2>4
    <3>3. taken # NoImage
      <4>1. published # 0
        BY <1>3, <3>1
      <4>2. QED
        BY <4>1, Zenon DEF Order, Blank
    <3>4. ASSUME ~alike'
          PROVE  oldtimestamp # memory
      <4>1. /\ ~alike /\ taken.whole /\ taken.steady /\ memory # 0
            /\ held = NoImage \/ held.by = taken.by
        BY <2>1, <3>3, <3>4, Zenon
      <4>2. memory >= 0 /\ memory \in Int /\ timestamp \in Int
        BY DEF Order, Stamped, Inv, StampTypes, LocTypes
      <4>3. CASE held = NoImage
        <5>1. timestamp = 0
          BY <4>3, Zenon DEF Order, Blank
        <5>2. QED
          BY <1>2, <4>1, <4>2, <5>1
      <4>4. CASE held # NoImage
        <5>1. memory > timestamp
          BY <3>1, <4>1, <4>4, Zenon DEF Order, Newer
        <5>2. QED
          BY <1>2, <4>2, <5>1
      <4>5. QED
        BY <4>3, <4>4
    <3>5. QED
      BY <1>1, <2>1, <2>2, <3>2, <3>4, Zenon DEF Counted
  <2>5. QED
    BY <2>3, <2>4
<1>6. ReadNextImage \/ UNCHANGED <<read, timestamp, alike>>
  BY DEF Iterate
<1>7. QED
  BY <1>4, <1>5, <1>6

LEMMA CountedCamera ==
    ASSUME Inv, Counted, RunCamera
    PROVE  Counted'
<1>1. lpc = "send" /\ UNCHANGED <<read, timestamp, alike>>
  BY Zenon DEF RunCamera
<1>2. CASE camNum < NumCams
  <2>1. UNCHANGED <<lpc, frameNum, oldtimestamp, processed, last>>
    BY <1>2, Zenon DEF RunCamera
  <2>2. QED
    BY <1>1, <2>1, Zenon DEF Counted
<1>3. CASE ~(camNum < NumCams)
  <2>1. /\ CountFrame /\ last' = read /\ lpc' \in {"read", "stopped"}
        /\ processed' = IF last = read THEN processed ELSE processed + 1
    BY <1>3 DEF RunCamera
  <2>2. lpc' # "send"
    BY <2>1
  <2>3. frameNum \in Nat /\ processed \in Nat /\ frameNum <= processed
    BY Zenon DEF Inv, LocTypes, Counted
  <2>4. oldtimestamp' = timestamp
    BY <2>1, Zenon DEF CountFrame
  <2>5. frameNum' = IF oldtimestamp # timestamp THEN frameNum + 1 ELSE frameNum
    BY <2>1, Zenon DEF CountFrame
  <2>6. last = read => oldtimestamp = timestamp
    BY <1>1, Zenon DEF Counted
  <2>7. frameNum' <= processed'
    BY <2>1, <2>3, <2>5, <2>6
  <2>8. ASSUME ~alike
        PROVE  frameNum' = processed'
    <3>1. frameNum = processed /\ (last # read => oldtimestamp # timestamp)
      BY <1>1, <2>8, Zenon DEF Counted
    <3>2. QED
      BY <2>1, <2>5, <2>6, <3>1
  <2>9. QED
    BY <1>1, <2>1, <2>2, <2>4, <2>7, <2>8, Zenon DEF Counted
<1>4. QED
  BY <1>2, <1>3

LEMMA CountedStep == Inv /\ Order /\ Counted /\ [Next]_vars => Counted'
<1> SUFFICES ASSUME Inv, Order, Counted, [Next]_vars PROVE Counted'
  OBVIOUS
<1>1. CASE Iterate
  BY <1>1, CountedIterate
<1>2. CASE RunCamera
  BY <1>2, CountedCamera
<1>3. CASE Open \/ UNCHANGED locVars
  BY <1>3, Zenon DEF Counted, Open, locVars
<1>4. QED
  BY <1>1, <1>2, <1>3, Zenon DEF Next, vars

\* frameNum counts the different images the localizer processed, for every
\* number of processes and cameras and every clock (RunRealtime): one that is
\* left out came where stamps may be equal, and none counts twice.
THEOREM FramesCorrect == Spec => []FramesCounted
<1>1. Init => Order /\ Counted
  <2> SUFFICES ASSUME Init PROVE Order /\ Counted
    OBVIOUS
  <2>1. /\ taken = NoImage /\ held = NoImage /\ memory = 0 /\ timestamp = 0
        /\ zero = -1 /\ lpc = "read" /\ frameNum = 0 /\ processed = 0
        /\ last = -1 /\ oldtimestamp = -1 /\ read = 0 /\ published = 0
    BY Zenon DEF Init, ServerInit, LocInit
  <2>2. NoImage.by = "nobody"
    BY DEF NoImage
  <2>3. \A s \in Servers : ~Serving(s) /\ pc[s] # "stamp"
    BY DEF Init, ServerInit, Serving
  <2>4. Stamped
    BY <2>1 DEF Stamped
  <2>5. /\ After(taken) /\ After(held) /\ Older /\ Whole /\ Writers
        /\ Newer /\ Blank
    <3>1. 0 >= 0
      OBVIOUS
    <3>2. After(taken) /\ After(held) /\ Older /\ Whole /\ Blank
      BY <2>1, <2>3, Zenon DEF After, Older, Whole, Blank
    <3>3. Writers /\ Newer
      BY <2>1, <2>2, <3>1, ServersAssumption, Zenon DEF Writers, Newer
    <3>4. QED
      BY <3>2, <3>3
  <2>6. Counted
    BY <2>1 DEF Counted
  <2>7. QED
    BY <2>1, <2>4, <2>5, <2>6, Zenon DEF Order
<1>2. Counted => FramesCounted
  BY Zenon DEF Counted, FramesCounted
<1>3. QED
  BY <1>1, <1>2, OrderStep, CountedStep, InvCorrect, PTL DEF Spec
=============================================================================
