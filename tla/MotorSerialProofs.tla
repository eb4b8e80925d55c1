------------------------- MODULE MotorSerialProofs -------------------------
(***************************************************************************)
(* The serial protocol, for every set of mouse positions and commands, and *)
(* any number of frames and losses.                                        *)
(***************************************************************************)
EXTENDS MotorSerial, SequenceTheorems, TLAPS

USE TargetsAssumption, CommandsAssumption, LimitsAssumption

Pulses == [left : Nat, right : Nat]

-----------------------------------------------------------------------------
(* What is sent, and what is done with it. *)

LEMMA ClampIn ==
    ASSUME NEW n \in Int, NEW lo \in Int, NEW hi \in Int, lo <= hi
    PROVE  Clamp(n, lo, hi) \in lo..hi
  BY DEF Clamp

LEMMA DivBound ==
    ASSUME NEW n \in 0..(255 * 300)
    PROVE  n \div 300 \in 0..255
  OBVIOUS

\* Both speeds are bytes: sums beyond 255 are clamped (OnTimer).
LEMMA SpeedsAreBytes ==
    ASSUME NEW target \in Targets
    PROVE  WheelSpeeds(target)[1] \in Byte /\ WheelSpeeds(target)[2] \in Byte
<1> DEFINE v == Clamp(-target[2], -Radius, Radius)
           w == Clamp(target[1], -Radius, Radius) * (IF v # 0 THEN -Sign(v) ELSE 1)
           Speed(turn) == Clamp(128 * 300 + 256 * v + 128 * turn, 0, 255 * 300) \div 300
<1>1. target[1] \in Int /\ target[2] \in Int
  OBVIOUS
<1>2. v \in Int /\ Clamp(target[1], -Radius, Radius) \in Int
  BY <1>1 DEF Clamp, Radius
<1>3. (IF v # 0 THEN -Sign(v) ELSE 1) \in {-1, 0, 1}
  <2> HIDE DEF v
  <2>1. Sign(v) \in {-1, 0, 1}
    BY <1>2 DEF Sign
  <2>2. QED
    BY <2>1
<1> HIDE DEF v
<1>4. w \in Int /\ -w \in Int
  BY <1>2, <1>3
<1> HIDE DEF w
<1>5. ASSUME NEW turn \in Int
      PROVE  Speed(turn) \in Byte
  <2> DEFINE n == 128 * 300 + 256 * v + 128 * turn
             c == Clamp(n, 0, 255 * 300)
  <2>1. c \in 0..(255 * 300)
    <3>1. n \in Int
      BY <1>2
    <3> HIDE DEF n
    <3>2. 0 \in Int /\ 255 * 300 \in Int /\ 0 <= 255 * 300
      OBVIOUS
    <3>3. QED
      BY <3>1, <3>2, ClampIn, Zenon
  <2> HIDE DEF c
  <2>2. c \div 300 \in 0..255
    BY <2>1, DivBound
  <2>3. QED
    BY <2>2 DEF c, Byte
<1>6. WheelSpeeds(target) = <<Speed(-w), Speed(w)>>
  BY DEF WheelSpeeds, v, w
<1> HIDE DEF Speed
<1>7. QED
  BY <1>4, <1>5, <1>6

LEMMA FrameIs ==
    ASSUME NEW a \in Byte, NEW b \in Byte
    PROVE  Frame(<<a, b>>) \in Seq(Byte) /\ Frame(<<a, b>>) = <<V, a, b, Term>>
  BY DEF Frame, V, Term, Byte

\* Pulses are not negative.
LEMMA MapIn ==
    ASSUME NEW x \in 0..255
    PROVE  Map(x, Center.left) \in Nat /\ Map(x, Center.right) \in Nat
<1>1. (x * 2 * 141) \div 255 \in Nat
  OBVIOUS
<1>2. Center.left = 1664 /\ Center.right = 1643
  BY DEF Center
<1>3. QED
  BY <1>1, <1>2 DEF Map, Band

LEMMA PulsesAre ==
    ASSUME NEW a \in Byte, NEW b \in Byte
    PROVE  LeftPulse(a) \in Nat /\ RightPulse(b) \in Nat
<1> DEFINE inverted == 255 - a
<1>1. inverted \in 0..255 /\ b \in 0..255
  BY DEF Byte
<1>2. LeftPulse(a) = Map(inverted, Center.left) /\ RightPulse(b) = Map(b, Center.right)
  BY Zenon DEF LeftPulse, RightPulse
<1> HIDE DEF inverted
<1>3. QED
  BY <1>1, <1>2, MapIn, Zenon

-----------------------------------------------------------------------------
(* Types. *)

\* The part of the type invariant that the frames of the sender need.
LineTypes ==
    /\ line \in Seq(Byte) /\ sent \in Seq(Byte)
    /\ open \in BOOLEAN /\ damaged \in BOOLEAN
    /\ frames \in 0..MaxFrames /\ losses \in 0..MaxLosses

CmdTypes ==
    /\ buf \in [0..MaxCmdLength -> Byte]
    /\ idx \in 0..(MaxCmdLength - 1)
    /\ draining \in BOOLEAN
    /\ echo \in Seq(Byte)
    /\ pulse \in Pulses
    /\ led \in BOOLEAN

LEMMA TypeParts == TypeOK <=> LineTypes /\ CmdTypes
  BY Zenon DEF TypeOK, LineTypes, CmdTypes, Pulses

LEMMA TypeInit == Init => TypeOK
<1> SUFFICES ASSUME Init PROVE TypeOK
  OBVIOUS
<1>1. LineTypes
  <2>1. open \in BOOLEAN /\ damaged \in BOOLEAN
    BY Zenon DEF Init
  <2>2. QED
    BY <2>1 DEF Init, LineTypes
<1>2. CmdTypes
  <2>1. draining \in BOOLEAN /\ led \in BOOLEAN
    BY Zenon DEF Init
  <2>2. buf \in [0..MaxCmdLength -> Byte]
    BY DEF Init, Byte
  <2>3. idx \in 0..(MaxCmdLength - 1) /\ echo \in Seq(Byte)
    BY DEF Init, MaxCmdLength
  <2>4. pulse \in Pulses
    BY DEF Init, Center, Pulses
  <2>5. QED
    BY <2>1, <2>2, <2>3, <2>4, Zenon DEF CmdTypes
<1>3. QED
  BY <1>1, <1>2, TypeParts

\* A frame or command of the sender: bytes that end with the terminator.
IsFrame(f) == f \in Seq(Byte) /\ Len(f) > 0 /\ f[Len(f)] = Term

LEMMA StopFrameIs == StopFrame = <<86, 128, 128, 46>> /\ IsFrame(StopFrame)
  BY DEF StopFrame, Frame, IsFrame, V, Term, Byte

LEMMA Sends ==
    /\ OnTimer => \E f : IsFrame(f) /\ Send(f)
    /\ Type => \E f : IsFrame(f) /\ Send(f)
<1>1. ASSUME NEW target \in Targets
      PROVE  IsFrame(Frame(WheelSpeeds(target)))
  <2> DEFINE a == WheelSpeeds(target)[1]
             b == WheelSpeeds(target)[2]
  <2>1. a \in Byte /\ b \in Byte
    BY SpeedsAreBytes
  <2>2. Frame(WheelSpeeds(target)) = <<V, a, b, Term>>
    BY DEF Frame
  <2> HIDE DEF a, b
  <2>3. QED
    BY <2>1, <2>2 DEF IsFrame, V, Term, Byte
<1>2. ASSUME NEW c \in Commands
      PROVE  IsFrame(Append(c, Term))
  BY DEF IsFrame, Term, Byte
<1>3. QED
  BY <1>1, <1>2, Zenon DEF OnTimer, Type

\* Execute gives both motors pulses.
LEMMA ExecuteTypes ==
    ASSUME NEW b \in [0..MaxCmdLength -> Byte], CmdTypes, Execute(b)
    PROVE  pulse' \in Pulses /\ led' \in BOOLEAN
<1>1. b[1] \in Byte /\ b[2] \in Byte
  BY DEF MaxCmdLength
<1>2. [left |-> LeftPulse(b[1]), right |-> RightPulse(b[2])] \in Pulses
  BY <1>1, PulsesAre, Zenon DEF Pulses
<1>3. pulse' \in Pulses
  BY <1>2, Zenon DEF Execute, CmdTypes
<1>4. led' \in BOOLEAN
  BY Zenon DEF Execute, CmdTypes
<1>5. QED
  BY <1>3, <1>4

LEMMA LoopTypes == LineTypes /\ CmdTypes /\ Loop => LineTypes' /\ CmdTypes'
<1> SUFFICES ASSUME LineTypes, CmdTypes, Loop PROVE LineTypes' /\ CmdTypes'
  OBVIOUS
<1>1. Receive
  BY Zenon DEF Loop, ReadByte, ReadCommand, TooLong, Drain
<1>2. line \in Seq(Byte) /\ line # <<>> /\ Head(line) \in Byte /\ line' \in Seq(Byte)
  BY <1>1 DEF Receive, LineTypes
<1>3. LineTypes'
  BY <1>1, <1>2, Zenon DEF Receive, LineTypes, hostVars
<1>4. Store => buf' \in [0..MaxCmdLength -> Byte]
  BY <1>2 DEF Store, CmdTypes
<1>5. CASE ReadByte
  <2>1. idx' \in 0..(MaxCmdLength - 1)
    BY <1>5 DEF ReadByte, Full, CmdTypes, MaxCmdLength
  <2>2. QED
    BY <1>3, <1>4, <1>5, <2>1, Zenon DEF ReadByte, CmdTypes, outVars
<1>6. CASE ReadCommand
  <2>1. buf' \in [0..MaxCmdLength -> Byte] /\ draining' \in BOOLEAN
    BY <1>4, <1>6, Zenon DEF ReadCommand, CmdTypes
  <2>2. idx' \in 0..(MaxCmdLength - 1)
    BY <1>6 DEF ReadCommand, MaxCmdLength
  <2>3. pulse' \in Pulses /\ led' \in BOOLEAN
    <3>1. CASE Execute(buf')
      BY <2>1, <3>1, ExecuteTypes
    <3>2. CASE UNCHANGED outVars
      BY <3>2, Zenon DEF outVars, CmdTypes
    <3>3. QED
      BY <1>6, <3>1, <3>2, Zenon DEF ReadCommand
  <2>4. echo' \in Seq(Byte)
    <3>1. CASE echo' = [i \in 1..(idx + 1) |-> buf'[i - 1]]
      <4>1. \A i \in 1..(idx + 1) : buf'[i - 1] \in Byte
        BY <2>1 DEF CmdTypes, MaxCmdLength
      <4>2. idx + 1 \in Nat
        BY DEF CmdTypes
      <4>3. QED
        BY <3>1, <4>1, <4>2
    <3>2. CASE UNCHANGED outVars
      BY <3>2, Zenon DEF outVars, CmdTypes
    <3>3. QED
      BY <1>6, <3>1, <3>2, Zenon DEF ReadCommand
  <2>5. QED
    BY <1>3, <2>1, <2>2, <2>3, <2>4, Zenon DEF CmdTypes
<1>7. CASE TooLong
  <2>1. idx' \in 0..(MaxCmdLength - 1)
    BY <1>7 DEF TooLong, MaxCmdLength
  <2>2. draining' \in BOOLEAN
    BY <1>7, Zenon DEF TooLong
  <2>3. QED
    BY <1>3, <1>4, <1>7, <2>1, <2>2, Zenon DEF TooLong, CmdTypes, outVars
<1>8. CASE Drain
  <2>1. draining' \in BOOLEAN
    BY <1>8, Zenon DEF Drain
  <2>2. QED
    BY <1>3, <1>8, <2>1, Zenon DEF Drain, CmdTypes, outVars
<1>9. QED
  BY <1>5, <1>6, <1>7, <1>8 DEF Loop

LEMMA SendTypes ==
    ASSUME NEW f, IsFrame(f), Send(f), LineTypes
    PROVE  /\ line' \in Seq(Byte) /\ sent' \in Seq(Byte)
           /\ Len(line') = Len(line) + Len(f) /\ Len(f) \in Nat
           /\ \A i \in 1..Len(line') :
                 line'[i] = IF i <= Len(line) THEN line[i] ELSE f[i - Len(line)]
<1>1. line \in Seq(Byte) /\ f \in Seq(Byte) /\ line' = line \o f /\ sent' = f
  BY Zenon DEF Send, LineTypes, IsFrame
<1>2. line \o f \in Seq(Byte) /\ Len(line \o f) = Len(line) + Len(f)
  BY <1>1, ConcatProperties, Zenon
<1>3. \A i \in 1..(Len(line) + Len(f)) :
         (line \o f)[i] = IF i <= Len(line) THEN line[i] ELSE f[i - Len(line)]
  BY <1>1, ConcatProperties, Zenon
<1>4. Len(f) \in Nat
  BY <1>1
<1>5. QED
  BY <1>1, <1>2, <1>3, <1>4, Zenon

\* A line without its byte at place k.
LEMMA Without ==
    ASSUME NEW k \in 1..Len(line), LineTypes
    PROVE  LET rest == SubSeq(line, 1, k - 1) \o SubSeq(line, k + 1, Len(line))
           IN  /\ rest \in Seq(Byte) /\ Len(rest) = Len(line) - 1
               /\ \A j \in 1..(Len(line) - 1) :
                     rest[j] = IF j < k THEN line[j] ELSE line[j + 1]
<1> DEFINE front == SubSeq(line, 1, k - 1)
           back == SubSeq(line, k + 1, Len(line))
<1>0. line \in Seq(Byte)
  BY DEF LineTypes
<1>1. /\ front \in Seq(Byte) /\ Len(front) = k - 1
      /\ \A j \in 1..(k - 1) : front[j] = line[j]
  BY <1>0
<1>2. /\ back \in Seq(Byte) /\ Len(back) = Len(line) - k
      /\ \A j \in 1..(Len(line) - k) : back[j] = line[j + k]
  BY <1>0
<1> HIDE DEF front, back
<1>3. front \o back \in Seq(Byte) /\ Len(front \o back) = Len(front) + Len(back)
  BY <1>1, <1>2, ConcatProperties, Zenon
<1>4. \A j \in 1..(Len(front) + Len(back)) : (front \o back)[j] =
          IF j <= Len(front) THEN front[j] ELSE back[j - Len(front)]
  BY <1>1, <1>2, ConcatProperties, Zenon
<1>5. Len(front) + Len(back) = Len(line) - 1
  BY <1>0, <1>1, <1>2
<1>6. ASSUME NEW j \in 1..(Len(line) - 1)
      PROVE  (front \o back)[j] = IF j < k THEN line[j] ELSE line[j + 1]
  <2>1. CASE j < k
    <3>1. j \in 1..(k - 1)
      BY <2>1
    <3>2. QED
      BY <1>1, <1>4, <1>5, <2>1, <3>1
  <2>2. CASE ~(j < k)
    <3>1. j - (k - 1) \in 1..(Len(line) - k) /\ ~(j <= k - 1)
      BY <1>0, <2>2
    <3>2. back[j - (k - 1)] = line[(j - (k - 1)) + k]
      BY <1>2, <3>1
    <3>3. (j - (k - 1)) + k = j + 1
      OBVIOUS
    <3>4. QED
      BY <1>1, <1>4, <1>5, <2>2, <3>1, <3>2, <3>3
  <2>3. QED
    BY <2>1, <2>2
<1>7. QED
  BY <1>3, <1>5, <1>6 DEF front, back

LEMMA TypeStep == LineTypes /\ CmdTypes /\ Next => LineTypes' /\ CmdTypes'
<1> SUFFICES ASSUME LineTypes, CmdTypes, Next PROVE LineTypes' /\ CmdTypes'
  OBVIOUS
<1>1. CASE OnTimer \/ Type
  <2>1. line' \in Seq(Byte) /\ sent' \in Seq(Byte)
    BY <1>1, Sends, SendTypes, Zenon
  <2>2. frames' \in 0..MaxFrames
    BY <1>1 DEF OnTimer, Type, LineTypes
  <2>3. UNCHANGED <<open, losses, buf, idx, draining, outVars>> /\ damaged' = FALSE
    BY <1>1, Zenon DEF OnTimer, Type, Send
  <2>4. QED
    BY <2>1, <2>2, <2>3, Zenon DEF LineTypes, CmdTypes, outVars
<1>2. CASE OnClose
  <2>1. line' \in Seq(Byte) /\ sent' \in Seq(Byte)
    BY <1>2, StopFrameIs, SendTypes, Zenon DEF OnClose
  <2>2. UNCHANGED <<frames, damaged, losses, buf, idx, draining, outVars>>
        /\ open' = FALSE
    BY <1>2, Zenon DEF OnClose, Send
  <2>3. QED
    BY <2>1, <2>2, Zenon DEF LineTypes, CmdTypes, outVars
<1>3. CASE LoseByte
  <2>1. line' \in Seq(Byte)
    BY <1>3, Without, Zenon DEF LoseByte
  <2>2. losses' \in 0..MaxLosses
    BY <1>3 DEF LoseByte, LineTypes
  <2>3. UNCHANGED <<open, sent, frames, buf, idx, draining, outVars>>
        /\ damaged' \in BOOLEAN
    BY <1>3, Zenon DEF LoseByte, LineTypes
  <2>4. QED
    BY <2>1, <2>2, <2>3, Zenon DEF LineTypes, CmdTypes, outVars
<1>4. QED
  BY <1>1, <1>2, <1>3, LoopTypes DEF Next

-----------------------------------------------------------------------------
(* The stop frame. *)

Stop == <<86, 128, 128, 46>>

\* Between commands the controller starts at the beginning of its buffer; while
\* the port is open the line ends with a terminator, unless that was lost; once
\* it is closed the line ends with the stop frame and the terminator before it,
\* and the controller has read what is missing of the frame.
Ending ==
    /\ draining => idx = 0
    /\ ~damaged /\ open =>
        IF Len(line) = 0 THEN idx = 0 /\ ~draining ELSE line[Len(line)] = Term
    /\ ~damaged /\ ~open =>
        /\ \A k \in 0..3 : k < Len(line) => line[Len(line) - k] = Stop[4 - k]
        /\ Len(line) > 4 => line[Len(line) - 4] = Term
        /\ Len(line) < 5 /\ Len(line) > 0 => ~draining /\ idx = 4 - Len(line)
        /\ Len(line) < 4 /\ Len(line) > 0 => buf[0] = V
        /\ Len(line) < 3 /\ Len(line) > 0 => buf[1] = 128
        /\ Len(line) = 1 => buf[2] = 128
        /\ Len(line) = 0 => pulse = PulsesOf(<<128, 128>>)

\* What the controller does with a byte.
LEMMA ReadByteDoes ==
    ASSUME LineTypes, CmdTypes, draining => idx = 0, Loop
    PROVE  /\ Len(line) > 0 /\ Len(line') = Len(line) - 1
           /\ \A i \in 1..(Len(line) - 1) : line'[i] = line[i + 1]
           /\ UNCHANGED hostVars
           /\ draining' => idx' = 0
           /\ line[1] = Term => idx' = 0 /\ ~draining'
           /\ ~draining /\ line[1] # Term /\ idx < 4 =>
                 /\ ~draining' /\ idx' = idx + 1
                 /\ buf' = [buf EXCEPT ![idx] = line[1]]
           /\ ~draining /\ line[1] = Term /\ idx = 3 /\ buf[0] = V =>
                 pulse' = [left |-> LeftPulse(buf[1]), right |-> RightPulse(buf[2])]
<1>1. Receive
  BY Zenon DEF Loop, ReadByte, ReadCommand, TooLong, Drain
<1>2. line \in Seq(Byte) /\ line # <<>> /\ line' = Tail(line) /\ Head(line) = line[1]
      /\ UNCHANGED hostVars
  BY <1>1 DEF Receive, LineTypes
<1>3. /\ Len(line) > 0 /\ Len(line') = Len(line) - 1
      /\ \A i \in 1..(Len(line) - 1) : line'[i] = line[i + 1]
  BY <1>2
<1>4. draining' => idx' = 0
  BY DEF Loop, ReadByte, ReadCommand, TooLong, Drain
<1>5. line[1] = Term => idx' = 0 /\ ~draining'
  BY <1>2 DEF Loop, ReadByte, ReadCommand, TooLong, Drain
<1>6. ASSUME ~draining, line[1] # Term, idx < 4
      PROVE  /\ ~draining' /\ idx' = idx + 1
             /\ buf' = [buf EXCEPT ![idx] = line[1]]
  <2>1. ~Full
    BY <1>6 DEF Full, MaxCmdLength, CmdTypes
  <2>2. ReadByte
    BY <1>2, <1>6, <2>1, Zenon DEF Loop, ReadByte, ReadCommand, TooLong, Drain
  <2>3. QED
    BY <1>2, <1>6, <2>2, Zenon DEF ReadByte, Store
<1>7. ASSUME ~draining, line[1] = Term, idx = 3, buf[0] = V
      PROVE  pulse' = [left |-> LeftPulse(buf[1]), right |-> RightPulse(buf[2])]
  <2>1. ~Full
    BY <1>7 DEF Full, MaxCmdLength
  <2>2. ReadCommand
    BY <1>2, <1>7, <2>1, Zenon DEF Loop, ReadByte, ReadCommand, TooLong, Drain
  <2>3. idx + 1 > 1
    BY <1>7
  <2>4. Execute(buf') /\ buf' = [buf EXCEPT ![idx] = line[1]]
    BY <1>2, <2>2, <2>3, Zenon DEF ReadCommand, Store
  <2>5. buf'[0] = buf[0] /\ buf'[1] = buf[1] /\ buf'[2] = buf[2]
    BY <1>7, <2>4 DEF CmdTypes, MaxCmdLength
  <2>6. QED
    BY <1>7, <2>4, <2>5, Zenon DEF Execute
<1>8. QED
  BY <1>2, <1>3, <1>4, <1>5, <1>6, <1>7, Zenon

LEMMA EndingStep == LineTypes /\ CmdTypes /\ Ending /\ Next => Ending'
<1> SUFFICES ASSUME LineTypes, CmdTypes, Ending, Next PROVE Ending'
  OBVIOUS
<1>0. Len(line) \in Nat /\ (Len(line) = 0 <=> line = <<>>)
  BY DEF LineTypes
<1>1. ASSUME NEW f, IsFrame(f), Send(f), UNCHANGED open
      PROVE  Ending'
  <2>1. /\ Len(line') = Len(line) + Len(f) /\ Len(f) \in Nat \ {0}
        /\ line'[Len(line')] = f[Len(f)]
    <3>1. /\ Len(line') = Len(line) + Len(f) /\ Len(f) \in Nat \ {0}
          /\ \A i \in 1..Len(line') :
                line'[i] = IF i <= Len(line) THEN line[i] ELSE f[i - Len(line)]
      BY <1>1, SendTypes DEF IsFrame
    <3>2. Len(line') \in 1..Len(line') /\ ~(Len(line') <= Len(line))
          /\ Len(line') - Len(line) = Len(f)
      BY <1>0, <3>1
    <3>3. QED
      BY <3>1, <3>2
  <2>2. f[Len(f)] = Term /\ open /\ open' /\ UNCHANGED <<draining, idx>>
    BY <1>1, Zenon DEF IsFrame, Send
  <2>3. Len(line') # 0
    BY <1>0, <2>1
  <2>4. QED
    BY <2>1, <2>2, <2>3, Zenon DEF Ending
<1>2. CASE OnClose
  <2>1. /\ open /\ open' = FALSE /\ UNCHANGED <<damaged, draining, idx, buf, pulse>>
        /\ Send(StopFrame)
    BY <1>2, Zenon DEF OnClose, Send, outVars
  <2>2. /\ Len(line') = Len(line) + 4
        /\ \A i \in 1..Len(line') :
              line'[i] = IF i <= Len(line) THEN line[i] ELSE Stop[i - Len(line)]
    <3>1. StopFrame = Stop /\ Len(Stop) = 4 /\ IsFrame(Stop)
      BY StopFrameIs DEF Stop
    <3>2. QED
      BY <2>1, <3>1, SendTypes
  <2>3. draining => idx = 0
    BY Zenon DEF Ending
  <2>4. ASSUME ~damaged
        PROVE  /\ \A k \in 0..3 : k < Len(line') => line'[Len(line') - k] = Stop[4 - k]
               /\ Len(line') > 4 => line'[Len(line') - 4] = Term
               /\ Len(line') = 4 => ~draining /\ idx = 0
    <3>1. \A k \in 0..3 : k < Len(line') => line'[Len(line') - k] = Stop[4 - k]
      BY <1>0, <2>2
    <3>2. IF Len(line) = 0 THEN idx = 0 /\ ~draining ELSE line[Len(line)] = Term
      BY <2>1, <2>4, Zenon DEF Ending
    <3>3. QED
      BY <1>0, <2>2, <3>1, <3>2
  <2>5. Len(line') >= 4 /\ Len(line') \in Nat
    BY <1>0, <2>2
  <2>6. /\ Len(line') < 5 /\ Len(line') > 0 => Len(line') = 4
        /\ ~(Len(line') < 4) /\ ~(Len(line') < 3) /\ Len(line') # 1 /\ Len(line') # 0
        /\ Len(line') = 4 => 4 - Len(line') = 0
    <3> DEFINE m == Len(line')
    <3>1. m >= 4 /\ m \in Nat
      BY <2>5
    <3> HIDE DEF m
    <3>2. /\ m < 5 /\ m > 0 => m = 4
          /\ ~(m < 4) /\ ~(m < 3) /\ m # 1 /\ m # 0
          /\ m = 4 => 4 - m = 0
      BY <3>1
    <3>3. QED
      BY <3>2 DEF m
  <2>7. QED
    BY <2>1, <2>3, <2>4, <2>6, Zenon DEF Ending
<1>3. CASE LoseByte
  <2>1. PICK i \in 1..Len(line) :
          /\ line' = SubSeq(line, 1, i - 1) \o SubSeq(line, i + 1, Len(line))
          /\ damaged' = (damaged \/ Len(line) - i < (IF open THEN 1 ELSE 5))
    BY <1>3, Zenon DEF LoseByte
  <2>2. UNCHANGED <<open, draining, idx, buf, pulse>>
    BY <1>3, Zenon DEF LoseByte, outVars
  <2>3. /\ Len(line') = Len(line) - 1
        /\ \A j \in 1..(Len(line) - 1) :
              line'[j] = IF j < i THEN line[j] ELSE line[j + 1]
    BY <2>1, Without
  <2>4. draining' => idx' = 0
    BY <2>2, Zenon DEF Ending
  <2>5. ASSUME ~damaged', open
        PROVE  Len(line') # 0 /\ line'[Len(line')] = Term
    <3>1. ~damaged /\ ~(Len(line) - i < 1)
      BY <2>1, <2>5, Zenon
    <3>2. Len(line) - 1 \in i..(Len(line) - 1) /\ Len(line) > 1
      BY <1>0, <3>1
    <3>3. line[Len(line)] = Term
      BY <2>5, <3>1, <3>2 DEF Ending
    <3>4. line'[Len(line) - 1] = line[(Len(line) - 1) + 1]
      BY <1>0, <2>3, <3>2
    <3>5. (Len(line) - 1) + 1 = Len(line) /\ Len(line) - 1 # 0
      <4> DEFINE n == Len(line)
      <4>1. n \in Nat /\ n > 1
        BY <1>0, <3>2
      <4> HIDE DEF n
      <4>2. (n - 1) + 1 = n /\ n - 1 # 0
        BY <4>1
      <4>3. QED
        BY <4>2 DEF n
    <3>6. QED
      BY <2>3, <3>3, <3>4, <3>5
  <2>6. ASSUME ~damaged', ~open
        PROVE  /\ Len(line') > 4 /\ line'[Len(line') - 4] = Term
               /\ \A k \in 0..3 : line'[Len(line') - k] = Stop[4 - k]
    <3>0. ~damaged /\ ~(Len(line) - i < 5)
      BY <2>1, <2>6, Zenon
    <3>1. ~damaged /\ Len(line) - i >= 5
      BY <1>0, <3>0
    <3>2. /\ line[Len(line) - 4] = Term
          /\ \A k \in 0..3 : line[Len(line) - k] = Stop[4 - k]
      BY <1>0, <2>6, <3>1 DEF Ending
    <3>3. \A k \in 0..4 : line'[Len(line') - k] = line[Len(line) - k]
      BY <1>0, <2>3, <3>1
    <3>4. QED
      BY <1>0, <2>3, <3>1, <3>2, <3>3
  <2>7. Len(line') > 4 => ~(Len(line') < 5) /\ ~(Len(line') < 4) /\ ~(Len(line') < 3)
                          /\ Len(line') # 1 /\ Len(line') # 0
    BY <1>0, <2>3
  <2>8. QED
    BY <2>2, <2>4, <2>5, <2>6, <2>7, Zenon DEF Ending
<1>4. CASE Loop
  <2> DEFINE n == Len(line)
  <2>1. draining => idx = 0
    BY Zenon DEF Ending
  <2>2. /\ n > 0 /\ Len(line') = n - 1
        /\ \A i \in 1..(n - 1) : line'[i] = line[i + 1]
        /\ UNCHANGED <<open, damaged>>
        /\ draining' => idx' = 0
        /\ line[1] = Term => idx' = 0 /\ ~draining'
    BY <1>4, <2>1, ReadByteDoes, Zenon DEF hostVars
  <2>3. /\ ~draining /\ line[1] # Term /\ idx < 4 =>
              /\ ~draining' /\ idx' = idx + 1
              /\ buf' = [buf EXCEPT ![idx] = line[1]]
        /\ ~draining /\ line[1] = Term /\ idx = 3 /\ buf[0] = V =>
              pulse' = [left |-> LeftPulse(buf[1]), right |-> RightPulse(buf[2])]
    BY <1>4, <2>1, ReadByteDoes, Zenon
  <2>4. n \in Nat \ {0}
    BY <1>0, <2>2
  <2>5. \A k \in 0..4 : k < Len(line') => line'[Len(line') - k] = line[n - k]
    BY <2>2, <2>4
  <2>6. ASSUME ~damaged, open
        PROVE  IF Len(line') = 0 THEN idx' = 0 /\ ~draining' ELSE line'[Len(line')] = Term
    <3>1. line[n] = Term
      BY <2>4, <2>6 DEF Ending
    <3>2. CASE n = 1
      BY <2>2, <3>1, <3>2
    <3>3. CASE n # 1
      BY <2>2, <2>4, <2>5, <3>1, <3>3
    <3>4. QED
      BY <3>2, <3>3
  <2>7. ASSUME ~damaged, ~open
        PROVE  /\ \A k \in 0..3 : k < Len(line') => line'[Len(line') - k] = Stop[4 - k]
               /\ Len(line') > 4 => line'[Len(line') - 4] = Term
               /\ Len(line') < 5 /\ Len(line') > 0 => ~draining' /\ idx' = 4 - Len(line')
               /\ Len(line') < 4 /\ Len(line') > 0 => buf'[0] = V
               /\ Len(line') < 3 /\ Len(line') > 0 => buf'[1] = 128
               /\ Len(line') = 1 => buf'[2] = 128
               /\ Len(line') = 0 => pulse' = PulsesOf(<<128, 128>>)
    <3>1. /\ \A k \in 0..3 : k < n => line[n - k] = Stop[4 - k]
          /\ n > 4 => line[n - 4] = Term
          /\ n < 5 => ~draining /\ idx = 4 - n
          /\ n < 4 => buf[0] = V
          /\ n < 3 => buf[1] = 128
          /\ n = 1 => buf[2] = 128
      BY <2>2, <2>7, Zenon DEF Ending
    <3>2. /\ \A k \in 0..3 : k < Len(line') => line'[Len(line') - k] = Stop[4 - k]
          /\ Len(line') > 4 => line'[Len(line') - 4] = Term
      BY <2>2, <2>4, <2>5, <3>1
    <3>3. Stop[1] = V /\ Stop[2] = 128 /\ Stop[3] = 128 /\ Stop[4] = Term
      BY DEF Stop, V, Term
    <3>4. buf \in [0..5 -> Byte]
      BY DEF CmdTypes, MaxCmdLength
    <3>5. CASE n > 5
      BY <2>2, <2>4, <3>2, <3>5
    <3>6. CASE n = 5
      <4>1. line[1] = Term
        BY <3>1, <3>6
      <4>2. QED
        BY <2>2, <3>2, <3>6, <4>1
    <3>7. CASE n = 4
      <4>1. line[1] = V /\ ~draining /\ idx = 0
        BY <3>1, <3>3, <3>7
      <4>2. ~draining' /\ idx' = 1 /\ buf'[0] = V
        BY <2>3, <3>4, <4>1 DEF V, Term
      <4>3. QED
        BY <2>2, <3>2, <3>7, <4>2
    <3>8. CASE n = 3
      <4>1. line[1] = 128 /\ ~draining /\ idx = 1 /\ buf[0] = V
        BY <3>1, <3>3, <3>8
      <4>2. ~draining' /\ idx' = 2 /\ buf'[0] = V /\ buf'[1] = 128
        BY <2>3, <3>4, <4>1 DEF Term
      <4>3. QED
        BY <2>2, <3>2, <3>8, <4>2
    <3>9. CASE n = 2
      <4>1. line[1] = 128 /\ ~draining /\ idx = 2 /\ buf[0] = V /\ buf[1] = 128
        BY <3>1, <3>3, <3>9
      <4>2. ~draining' /\ idx' = 3 /\ buf'[0] = V /\ buf'[1] = 128 /\ buf'[2] = 128
        BY <2>3, <3>4, <4>1 DEF Term
      <4>3. QED
        BY <2>2, <3>2, <3>9, <4>2
    <3>10. CASE n = 1
      <4>1. /\ line[1] = Term /\ ~draining /\ idx = 3
            /\ buf[0] = V /\ buf[1] = 128 /\ buf[2] = 128
        BY <3>1, <3>3, <3>10
      <4>2. pulse' = [left |-> LeftPulse(128), right |-> RightPulse(128)]
        BY <2>3, <4>1, Zenon
      <4>3. pulse' = PulsesOf(<<128, 128>>)
        BY <4>2 DEF PulsesOf
      <4>4. QED
        BY <2>2, <3>2, <3>10, <4>3
    <3>11. n > 5 \/ n = 5 \/ n = 4 \/ n = 3 \/ n = 2 \/ n = 1
      <4> HIDE DEF n
      <4>1. QED
        BY <2>4
    <3>12. QED
      BY <3>5, <3>6, <3>7, <3>8, <3>9, <3>10, <3>11, Zenon
  <2>8. QED
    BY <2>2, <2>6, <2>7, Zenon DEF Ending
<1>5. QED
  BY <1>1, <1>2, <1>3, <1>4, Sends, Zenon DEF Next, OnTimer, Type

-----------------------------------------------------------------------------
Inv == LineTypes /\ CmdTypes /\ Ending

LEMMA InvInit == Init => Inv
<1> SUFFICES ASSUME Init PROVE Inv
  OBVIOUS
<1>1. LineTypes /\ CmdTypes
  BY TypeInit, TypeParts
<1>2. open = TRUE /\ draining = FALSE /\ idx = 0 /\ Len(line) = 0
  BY DEF Init
<1>3. QED
  BY <1>1, <1>2, Zenon DEF Inv, Ending

LEMMA InvStep == Inv /\ [Next]_vars => Inv'
<1> SUFFICES ASSUME Inv, [Next]_vars PROVE Inv'
  OBVIOUS
<1>1. CASE Next
  BY <1>1, TypeStep, EndingStep, Zenon DEF Inv
<1>2. CASE UNCHANGED vars
  BY <1>2, Zenon
  DEF Inv, LineTypes, CmdTypes, Ending, PulsesOf, vars, hostVars, outVars
<1>3. QED
  BY <1>1, <1>2

THEOREM InvCorrect == Spec => []Inv
  BY InvInit, InvStep, PTL DEF Spec

\* The index stays in cmd_buf, the pulses are not negative and what is sent are
\* bytes, for all mouse positions and commands and any losses.
THEOREM TypeCorrect == Spec => []TypeOK
<1>1. Inv => TypeOK
  BY TypeParts, Zenon DEF Inv
<1>2. QED
  BY <1>1, InvCorrect, PTL

\* After teleop was closed (OnClose) the robot stands when the line is quiet,
\* unless the stop frame or the terminator before it was hit by a loss; whatever
\* was sent and lost before.
THEOREM StopCorrect == Spec => []StopStops
<1>1. Inv => StopStops
  <2> SUFFICES ASSUME Inv, ~open, line = <<>>, ~damaged
               PROVE  pulse = PulsesOf(<<128, 128>>)
    BY Zenon DEF StopStops
  <2>1. Len(line) = 0
    OBVIOUS
  <2>2. QED
    BY <2>1, Zenon DEF Inv, Ending
<1>2. QED
  BY <1>1, InvCorrect, PTL

-----------------------------------------------------------------------------
(* A line that lost nothing. *)

\* The line ends with the last frame, after a terminator, and where it begins
\* or ends the controller is between two commands.
Following ==
    losses = 0 =>
        /\ IF sent = <<>> THEN Len(line) = 0 ELSE IsFrame(sent)
        /\ \A k \in 0..(Len(sent) - 1) :
              k < Len(line) => line[Len(line) - k] = sent[Len(sent) - k]
        /\ Len(line) > Len(sent) => line[Len(line) - Len(sent)] = Term
        /\ Len(line) = 0 \/ Len(line) = Len(sent) => idx = 0 /\ ~draining

LEMMA CommandDoes ==
    ASSUME LineTypes, CmdTypes, Loop, ~draining, line[1] = Term, idx < 4
    PROVE  /\ buf' = [buf EXCEPT ![idx] = Term]
           /\ idx > 0 => Execute(buf') /\ echo' = [i \in 1..(idx + 1) |-> buf'[i - 1]]
           /\ ~(idx > 0) => UNCHANGED outVars
<1>1. line \in Seq(Byte) /\ line # <<>> /\ Head(line) = line[1]
  <2>1. line # <<>>
    BY Zenon DEF Loop, ReadByte, ReadCommand, TooLong, Drain, Receive
  <2>2. QED
    BY <2>1 DEF LineTypes
<1>2. ~Full
  BY DEF Full, MaxCmdLength, CmdTypes
<1>3. ReadCommand
  BY <1>1, <1>2, Zenon DEF Loop, ReadByte, ReadCommand, TooLong, Drain
<1>4. buf' = [buf EXCEPT ![idx] = Term]
  BY <1>1, <1>3, Zenon DEF ReadCommand, Store
<1>5. idx + 1 > 1 <=> idx > 0
  BY DEF CmdTypes
<1>6. QED
  BY <1>3, <1>4, <1>5, Zenon DEF ReadCommand

LEMMA FollowingSend ==
    ASSUME LineTypes, Following, NEW f, IsFrame(f), Send(f)
    PROVE  Following' /\ Len(line') >= Len(sent') /\ Len(sent') \in Nat
<1> DEFINE n == Len(line)
           m == Len(f)
<1>1. /\ Len(line') = n + m /\ n \in Nat /\ m \in Nat \ {0} /\ sent' = f
      /\ \A i \in 1..(n + m) : line'[i] = IF i <= n THEN line[i] ELSE f[i - n]
      /\ UNCHANGED <<idx, draining, losses>>
  <2>1. n \in Nat
    BY DEF LineTypes
  <2>2. QED
    BY <2>1, SendTypes DEF Send, IsFrame
<1>2. f # <<>>
  BY DEF IsFrame
<1>3. SUFFICES ASSUME losses = 0
               PROVE  /\ \A k \in 0..(m - 1) : line'[n + m - k] = f[m - k]
                      /\ n + m > m => line'[n + m - m] = Term
                      /\ n + m = 0 \/ n + m = m => idx = 0 /\ ~draining
  <2>1. Len(line') = n + m /\ sent' = f /\ Len(sent') = m /\ losses' = losses
    BY <1>1
  <2>2. n + m >= m /\ m \in Nat /\ n \in Nat
    <3> HIDE DEF n, m
    <3>1. QED
      BY <1>1
  <2>3. UNCHANGED <<idx, draining>>
    BY <1>1
  <2> HIDE DEF n, m
  <2>4. ASSUME losses' = 0
        PROVE  /\ IF sent' = <<>> THEN Len(line') = 0 ELSE IsFrame(sent')
               /\ \A k \in 0..(Len(sent') - 1) :
                     k < Len(line') => line'[Len(line') - k] = sent'[Len(sent') - k]
               /\ Len(line') > Len(sent') => line'[Len(line') - Len(sent')] = Term
               /\ Len(line') = 0 \/ Len(line') = Len(sent') => idx' = 0 /\ ~draining'
    <3>1. losses = 0
      BY <2>1, <2>4
    <3>2. /\ \A k \in 0..(m - 1) : line'[n + m - k] = f[m - k]
          /\ n + m > m => line'[n + m - m] = Term
          /\ n + m = 0 \/ n + m = m => idx = 0 /\ ~draining
      BY <1>3, <3>1, Zenon
    <3>3. IF sent' = <<>> THEN Len(line') = 0 ELSE IsFrame(sent')
      BY <1>2, <2>1, Zenon
    <3>4. \A k \in 0..(Len(sent') - 1) :
             k < Len(line') => line'[Len(line') - k] = sent'[Len(sent') - k]
      BY <2>1, <2>2, <3>2
    <3>5. Len(line') > Len(sent') => line'[Len(line') - Len(sent')] = Term
      BY <2>1, <2>2, <3>2
    <3>6. Len(line') = 0 \/ Len(line') = Len(sent') => idx' = 0 /\ ~draining'
      BY <2>1, <2>3, <3>2, Zenon
    <3>7. QED
      BY <3>3, <3>4, <3>5, <3>6, Zenon
  <2>5. Following'
    BY <2>4, Zenon DEF Following
  <2>6. QED
    BY <2>1, <2>2, <2>5, Zenon
<1>4. n > 0 => line[n] = Term
  <2>1. SUFFICES ASSUME n > 0 PROVE line[n] = Term
    OBVIOUS
  <2>2. IsFrame(sent)
    BY <1>3, <2>1 DEF Following
  <2>3. line[n - 0] = sent[Len(sent) - 0]
    BY <1>3, <2>1, <2>2 DEF Following, IsFrame
  <2>4. QED
    BY <1>1, <2>2, <2>3 DEF IsFrame
<1>5. n = 0 => idx = 0 /\ ~draining
  BY <1>3 DEF Following
<1> HIDE DEF n, m
<1>6. ASSUME NEW k \in 0..(m - 1)
      PROVE  line'[n + m - k] = f[m - k]
  <2>1. n + m - k \in 1..(n + m) /\ ~(n + m - k <= n) /\ (n + m - k) - n = m - k
    BY <1>1
  <2>2. QED
    BY <1>1, <2>1
<1>7. n + m > m => line'[n + m - m] = Term
  <2>1. n + m > m => n > 0
    BY <1>1
  <2>2. n + m - m = n /\ (n > 0 => n \in 1..(n + m)) /\ n <= n
    BY <1>1
  <2>3. QED
    BY <1>1, <1>4, <2>1, <2>2
<1>8. n + m = 0 \/ n + m = m => n = 0
  BY <1>1
<1>9. QED
  BY <1>5, <1>6, <1>7, <1>8, Zenon

LEMMA FollowingLoop ==
    ASSUME LineTypes, CmdTypes, Ending, Following, Loop
    PROVE  Following'
<1> DEFINE n == Len(line)
           m == Len(sent)
<1>1. /\ n > 0 /\ Len(line') = n - 1 /\ n \in Nat /\ m \in Nat
      /\ \A i \in 1..(n - 1) : line'[i] = line[i + 1]
      /\ line[1] = Term => idx' = 0 /\ ~draining'
      /\ UNCHANGED <<sent, losses>>
  <2>1. n \in Nat /\ m \in Nat
    BY DEF LineTypes
  <2>2. UNCHANGED losses
    BY Zenon DEF Loop, ReadByte, ReadCommand, TooLong, Drain, Receive
  <2>3. QED
    BY <2>1, <2>2, ReadByteDoes, Zenon DEF Ending, hostVars
<1>2. SUFFICES ASSUME losses = 0
               PROVE  /\ IsFrame(sent) /\ sent # <<>>
                      /\ \A k \in 0..(m - 1) :
                            k < n - 1 => line'[n - 1 - k] = sent[m - k]
                      /\ n - 1 > m => line'[n - 1 - m] = Term
                      /\ n - 1 = 0 \/ n - 1 = m => idx' = 0 /\ ~draining'
  BY <1>1, <1>2, Zenon DEF Following
<1>3. /\ IsFrame(sent) /\ sent # <<>>
      /\ \A k \in 0..(m - 1) : k < n => line[n - k] = sent[m - k]
      /\ n > m => line[n - m] = Term
  BY <1>1, <1>2 DEF Following
<1>4. m > 0 /\ sent[m] = Term
  BY <1>3 DEF IsFrame
<1> HIDE DEF n, m
<1>5. ASSUME NEW k \in 0..(m - 1), k < n - 1
      PROVE  line'[n - 1 - k] = sent[m - k]
  <2>1. n - 1 - k \in 1..(n - 1) /\ (n - 1 - k) + 1 = n - k /\ k < n
    BY <1>1, <1>5
  <2>2. QED
    BY <1>1, <1>3, <2>1
<1>6. n - 1 > m => line'[n - 1 - m] = Term
  <2>1. SUFFICES ASSUME n - 1 > m PROVE line'[n - 1 - m] = Term
    OBVIOUS
  <2>2. n - 1 - m \in 1..(n - 1) /\ (n - 1 - m) + 1 = n - m /\ n > m
    BY <1>1, <2>1
  <2>3. QED
    BY <1>1, <1>3, <2>2
<1>7. n - 1 = 0 => line[1] = Term
  <2>1. SUFFICES ASSUME n = 1 PROVE line[1] = Term
    BY <1>1
  <2>2. line[n - 0] = sent[m - 0]
    BY <1>1, <1>3, <1>4, <2>1
  <2>3. QED
    BY <1>1, <1>4, <2>1, <2>2
<1>8. n - 1 = m => line[1] = Term
  BY <1>1, <1>3
<1>9. QED
  BY <1>1, <1>3, <1>5, <1>6, <1>7, <1>8, Zenon

\* A command with something in it, short enough and without a '.' inside.
ShortSent ==
    /\ losses = 0 /\ 1 < Len(sent) /\ Len(sent) < 5
    /\ \A i \in 1..(Len(sent) - 1) : sent[i] # Term

\* What was read of it is what the buffer begins with.
Short ==
    ShortSent /\ Len(line) < Len(sent) =>
        /\ Len(line) > 0 =>
              /\ ~draining /\ idx = Len(sent) - Len(line)
              /\ \A j \in 0..(Len(sent) - Len(line) - 1) : buf[j] = sent[j + 1]
        /\ Len(line) = 0 => echo = sent

LEMMA ShortLoop ==
    ASSUME LineTypes, CmdTypes, Ending, Following, Short, Loop
    PROVE  Short'
<1> DEFINE n == Len(line)
           m == Len(sent)
<1>1. /\ n > 0 /\ Len(line') = n - 1 /\ n \in Nat /\ m \in Nat
      /\ UNCHANGED <<sent, losses>>
  <2>1. n \in Nat /\ m \in Nat
    BY DEF LineTypes
  <2>2. UNCHANGED losses
    BY Zenon DEF Loop, ReadByte, ReadCommand, TooLong, Drain, Receive
  <2>3. QED
    BY <2>1, <2>2, ReadByteDoes, Zenon DEF Ending, hostVars
<1>2. SUFFICES ASSUME ShortSent, n - 1 < m
               PROVE  /\ n - 1 > 0 =>
                            /\ ~draining' /\ idx' = m - (n - 1)
                            /\ \A j \in 0..(m - (n - 1) - 1) : buf'[j] = sent[j + 1]
                      /\ n - 1 = 0 => echo' = sent
  <2> HIDE DEF n
  <2>1. QED
    BY <1>1, <1>2, Zenon DEF Short, ShortSent
<1>3. /\ 1 < m /\ m < 5 /\ n <= m /\ losses = 0
      /\ \A i \in 1..(m - 1) : sent[i] # Term
  BY <1>1, <1>2 DEF ShortSent
<1>4. /\ IsFrame(sent) /\ sent[m] = Term /\ sent \in Seq(Byte)
      /\ \A k \in 0..(m - 1) : k < n => line[n - k] = sent[m - k]
      /\ n = m => idx = 0 /\ ~draining
  BY <1>3 DEF Following, IsFrame
<1>5. /\ ~draining /\ idx = m - n
      /\ \A j \in 0..(m - n - 1) : buf[j] = sent[j + 1]
  <2>1. CASE n = m
    BY <1>1, <1>4, <2>1
  <2>2. CASE n # m
    <3>1. n < m
      BY <1>1, <1>3, <2>2
    <3>2. QED
      BY <1>1, <1>2, <3>1, Zenon DEF Short
  <2>3. QED
    BY <2>1, <2>2
<1>6. line[1] = sent[m - n + 1]
  <2>1. n - 1 \in 0..(m - 1) /\ n - 1 < n
    BY <1>1, <1>3
  <2>2. line[n - (n - 1)] = sent[m - (n - 1)]
    BY <1>4, <2>1
  <2>3. n - (n - 1) = 1 /\ m - (n - 1) = m - n + 1
    <3> HIDE DEF n, m
    <3>1. QED
      BY <1>1
  <2>4. QED
    BY <2>2, <2>3
<1>7. buf \in [0..5 -> Byte] /\ idx < 4 /\ idx \in 0..4
  BY <1>1, <1>3, <1>5 DEF CmdTypes, MaxCmdLength
<1> HIDE DEF n, m
<1>8. CASE n > 1
  <2>1. line[1] # Term
    <3>1. m - n + 1 \in 1..(m - 1)
      BY <1>1, <1>3, <1>8
    <3>2. QED
      BY <1>3, <1>6, <3>1
  <2>2. ~draining' /\ idx' = idx + 1 /\ buf' = [buf EXCEPT ![idx] = line[1]]
    BY <1>5, <1>7, <2>1, ReadByteDoes, Zenon DEF Ending
  <2>3. idx' = m - (n - 1)
    BY <1>1, <1>5, <2>2
  <2>4. ASSUME NEW j \in 0..(m - (n - 1) - 1)
        PROVE  buf'[j] = sent[j + 1]
    <3>1. CASE j = idx
      BY <1>5, <1>6, <1>7, <2>2, <3>1
    <3>2. CASE j # idx
      <4>1. j \in 0..(m - n - 1) /\ j \in 0..5
        BY <1>1, <1>3, <1>5, <3>2
      <4>2. QED
        BY <1>5, <1>7, <2>2, <3>2, <4>1
    <3>3. QED
      BY <3>1, <3>2
  <2>5. n - 1 # 0
    BY <1>1, <1>8
  <2>6. QED
    BY <2>2, <2>3, <2>4, <2>5
<1>9. CASE n = 1
  <2>1. line[1] = Term /\ idx = m - 1 /\ idx > 0
    BY <1>1, <1>3, <1>4, <1>5, <1>6, <1>9
  <2>2. /\ buf' = [buf EXCEPT ![idx] = Term]
        /\ echo' = [i \in 1..(idx + 1) |-> buf'[i - 1]]
    BY <1>5, <1>7, <2>1, CommandDoes, Zenon
  <2>3. idx + 1 = m
    BY <1>1, <2>1
  <2>4. ASSUME NEW i \in 1..m
        PROVE  buf'[i - 1] = sent[i]
    <3>1. CASE i = m
      BY <1>1, <1>4, <1>7, <2>1, <2>2, <3>1
    <3>2. CASE i # m
      <4>1. i - 1 \in 0..(m - n - 1) /\ i - 1 \in 0..5 /\ i - 1 # idx /\ (i - 1) + 1 = i
        BY <1>1, <1>3, <1>9, <2>1, <3>2
      <4>2. QED
        BY <1>5, <1>7, <2>2, <4>1
    <3>3. QED
      BY <3>1, <3>2
  <2>5. echo' = [i \in 1..m |-> sent[i]]
    BY <2>2, <2>3, <2>4
  <2>6. sent = [i \in 1..m |-> sent[i]]
    BY <1>4 DEF m
  <2>7. ~(n - 1 > 0)
    BY <1>9
  <2>8. QED
    BY <2>5, <2>6, <2>7
<1>10. QED
  BY <1>1, <1>8, <1>9

\* A speed frame whose left speed is not the terminator.
PlainSent == losses = 0 /\ Len(sent) = 4 /\ sent[1] = V /\ sent[2] # Term

\* What was read of it is what the buffer begins with; if the right speed looks
\* like the terminator the frame is executed one byte early, and the terminator
\* is then an empty command.
Plain ==
    PlainSent =>
        /\ Len(line) \in 1..3 => ~draining
        /\ Len(line) = 3 => idx = 1 /\ buf[0] = V
        /\ Len(line) = 2 => idx = 2 /\ buf[0] = V /\ buf[1] = sent[2]
        /\ Len(line) = 1 /\ sent[3] # Term =>
              idx = 3 /\ buf[0] = V /\ buf[1] = sent[2] /\ buf[2] = sent[3]
        /\ Len(line) = 1 /\ sent[3] = Term =>
              idx = 0 /\ pulse = PulsesOf(<<sent[2], sent[3]>>)
        /\ Len(line) = 0 => pulse = PulsesOf(<<sent[2], sent[3]>>)

LEMMA PlainLoop ==
    ASSUME LineTypes, CmdTypes, Ending, Following, Plain, Loop
    PROVE  Plain'
<1> DEFINE n == Len(line)
           Right == PulsesOf(<<sent[2], sent[3]>>)
<1>1. /\ n > 0 /\ Len(line') = n - 1 /\ n \in Nat
      /\ UNCHANGED <<sent, losses>>
  <2>1. n \in Nat
    BY DEF LineTypes
  <2>2. UNCHANGED losses
    BY Zenon DEF Loop, ReadByte, ReadCommand, TooLong, Drain, Receive
  <2>3. QED
    BY <2>1, <2>2, ReadByteDoes, Zenon DEF Ending, hostVars
<1>2. SUFFICES ASSUME PlainSent, n <= 4
               PROVE  /\ n - 1 \in 1..3 => ~draining'
                      /\ n - 1 = 3 => idx' = 1 /\ buf'[0] = V
                      /\ n - 1 = 2 => idx' = 2 /\ buf'[0] = V /\ buf'[1] = sent[2]
                      /\ n - 1 = 1 /\ sent[3] # Term =>
                            idx' = 3 /\ buf'[0] = V /\ buf'[1] = sent[2] /\ buf'[2] = sent[3]
                      /\ n - 1 = 1 /\ sent[3] = Term => idx' = 0 /\ pulse' = Right
                      /\ n - 1 = 0 => pulse' = Right
  <2> HIDE DEF n
  <2>1. ~(n <= 4) => n - 1 \notin 1..3 /\ n - 1 # 3 /\ n - 1 # 2 /\ n - 1 # 1 /\ n - 1 # 0
    BY <1>1
  <2>2. PlainSent' <=> PlainSent
    BY <1>1, Zenon DEF PlainSent
  <2>3. PulsesOf(<<sent[2], sent[3]>>)' = Right
    <3>1. sent' = sent
      BY <1>1
    <3>2. QED
      BY <3>1 DEF PulsesOf, LeftPulse, RightPulse, Map, Center, Band
  <2>4. QED
    BY <1>1, <1>2, <2>1, <2>2, <2>3, Zenon DEF Plain
<1>3. losses = 0 /\ Len(sent) = 4 /\ sent[1] = V /\ sent[2] # Term
  BY <1>2 DEF PlainSent
<1>4. /\ sent[4] = Term
      /\ \A k \in 0..3 : k < n => line[n - k] = sent[4 - k]
      /\ n = 4 => idx = 0 /\ ~draining
  BY <1>3 DEF Following, IsFrame
<1>5. buf \in [0..5 -> Byte] /\ V # Term
  BY DEF CmdTypes, MaxCmdLength, V, Term
<1>6. Plain /\ PlainSent
  BY <1>2
<1>7. ~draining /\ line[1] # Term /\ idx < 4 =>
          /\ ~draining' /\ idx' = idx + 1
          /\ buf' = [buf EXCEPT ![idx] = line[1]]
  BY ReadByteDoes, Zenon DEF Ending
<1>8. CASE n = 4
  <2>1. line[1] = V /\ ~draining /\ idx = 0
    BY <1>3, <1>4, <1>8
  <2>2. ~draining' /\ idx' = 1 /\ buf'[0] = V
    BY <1>5, <1>7, <2>1
  <2>3. QED
    BY <1>8, <2>2
<1>9. CASE n = 3
  <2>1. line[1] = sent[2] /\ ~draining /\ idx = 1 /\ buf[0] = V
    BY <1>4, <1>6, <1>9 DEF Plain
  <2>2. ~draining' /\ idx' = 2 /\ buf'[0] = V /\ buf'[1] = sent[2]
    BY <1>3, <1>5, <1>7, <2>1
  <2>3. QED
    BY <1>9, <2>2
<1>10. CASE n = 2
  <2>1. line[1] = sent[3] /\ ~draining /\ idx = 2 /\ buf[0] = V /\ buf[1] = sent[2]
    BY <1>4, <1>6, <1>10 DEF Plain
  <2>2. CASE sent[3] # Term
    <3>1. /\ ~draining' /\ idx' = 3
          /\ buf'[0] = V /\ buf'[1] = sent[2] /\ buf'[2] = sent[3]
      BY <1>5, <1>7, <2>1, <2>2
    <3>2. QED
      BY <1>10, <2>2, <3>1
  <2>3. CASE sent[3] = Term
    <3>1. idx < 4 /\ idx > 0 /\ line[1] = Term
      BY <2>1, <2>3
    <3>2. buf' = [buf EXCEPT ![idx] = Term] /\ Execute(buf')
      BY <2>1, <3>1, CommandDoes, Zenon
    <3>3. buf'[0] = V /\ buf'[1] = sent[2] /\ buf'[2] = sent[3]
      BY <1>5, <2>1, <2>3, <3>2
    <3>4. pulse' = [left |-> LeftPulse(sent[2]), right |-> RightPulse(sent[3])]
      BY <3>2, <3>3, Zenon DEF Execute
    <3>5. pulse' = Right
      BY <3>4 DEF PulsesOf
    <3>6. ~draining' /\ idx' = 0
      BY <3>1, ReadByteDoes, Zenon DEF Ending
    <3>7. QED
      BY <1>10, <2>3, <3>5, <3>6
  <2>4. QED
    BY <2>2, <2>3
<1>11. CASE n = 1
  <2>1. line[1] = Term /\ ~draining
    BY <1>4, <1>6, <1>11 DEF Plain
  <2>2. CASE sent[3] # Term
    <3>1. idx = 3 /\ buf[0] = V /\ buf[1] = sent[2] /\ buf[2] = sent[3]
      BY <1>6, <1>11, <2>2, Zenon DEF Plain
    <3>2. pulse' = [left |-> LeftPulse(buf[1]), right |-> RightPulse(buf[2])]
      BY <2>1, <3>1, ReadByteDoes, Zenon DEF Ending
    <3>3. pulse' = Right
      BY <3>1, <3>2 DEF PulsesOf
    <3>4. QED
      BY <1>11, <3>3
  <2>3. CASE sent[3] = Term
    <3>1. idx = 0 /\ pulse = Right
      BY <1>6, <1>11, <2>3, Zenon DEF Plain
    <3>2. idx < 4 /\ ~(idx > 0)
      BY <3>1
    <3>3. pulse' = Right
      BY <2>1, <3>1, <3>2, CommandDoes, Zenon DEF outVars
    <3>4. QED
      BY <1>11, <3>3
  <2>4. QED
    BY <2>2, <2>3
<1>12. QED
  <2> HIDE DEF n
  <2>1. n = 4 \/ n = 3 \/ n = 2 \/ n = 1
    BY <1>1, <1>2
  <2>2. QED
    BY <1>8, <1>9, <1>10, <1>11, <2>1, Zenon

-----------------------------------------------------------------------------
(* What is typed at the terminal is not empty; nor is it a speed frame. *)

NoEmptyCommand == <<>> \notin Commands
NoTypedFrames == \A c \in Commands : c # <<>> => c[1] # V

SentIs ==
    /\ NoEmptyCommand => sent = <<>> \/ Len(sent) > 1
    /\ NoTypedFrames => sent = <<>> \/ sent[1] # V \/ Len(sent) = 4

LEMMA SentIsSend ==
    /\ OnTimer => SentIs'
    /\ Type => SentIs'
    /\ OnClose => SentIs'
<1>1. ASSUME NEW a, NEW b
      PROVE  Len(<<V, a, b, Term>>) = 4 /\ Len(<<V, a, b, Term>>) > 1
  OBVIOUS
<1>2. ASSUME NEW speeds, sent' = Frame(speeds)
      PROVE  SentIs'
  <2>1. Len(sent') = 4 /\ Len(sent') > 1
    BY <1>1, <1>2 DEF Frame
  <2>2. QED
    BY <2>1, Zenon DEF SentIs
<1>3. ASSUME NEW c \in Commands, sent' = Append(c, Term)
      PROVE  SentIs'
  <2>1. c \in Seq(Byte)
    OBVIOUS
  <2>2. NoEmptyCommand => Len(sent') > 1
    BY <1>3, <2>1 DEF NoEmptyCommand
  <2>3. NoTypedFrames => sent'[1] # V
    <3>1. CASE c = <<>>
      BY <1>3, <3>1 DEF V, Term
    <3>2. CASE c # <<>>
      <4>1. sent'[1] = c[1]
        BY <1>3, <2>1, <3>2
      <4>2. QED
        BY <3>2, <4>1 DEF NoTypedFrames
    <3>3. QED
      BY <3>1, <3>2
  <2>4. QED
    BY <2>2, <2>3, Zenon DEF SentIs, NoTypedFrames, NoEmptyCommand
<1>4. QED
  BY <1>2, <1>3, Zenon DEF OnTimer, Type, OnClose, Send, StopFrame

EchoInv == Inv /\ Following /\ SentIs /\ Short /\ Plain

LEMMA EchoInit == Init => EchoInv
<1> SUFFICES ASSUME Init PROVE EchoInv
  OBVIOUS
<1>1. Inv
  BY InvInit
<1>2. sent = <<>> /\ Len(sent) = 0 /\ Len(line) = 0 /\ idx = 0 /\ draining = FALSE
  BY DEF Init
<1>3. Following
  BY <1>2 DEF Following
<1>4. ~(1 < Len(sent)) /\ Len(sent) # 4
  BY <1>2
<1>5. QED
  BY <1>1, <1>2, <1>3, <1>4, Zenon DEF EchoInv, SentIs, Short, ShortSent, Plain, PlainSent

LEMMA EchoStep == EchoInv /\ [Next]_vars => EchoInv'
<1> SUFFICES ASSUME EchoInv, [Next]_vars PROVE EchoInv'
  OBVIOUS
<1>0. Inv' /\ LineTypes /\ CmdTypes /\ Ending /\ Following /\ SentIs /\ Short /\ Plain
  BY InvStep, Zenon DEF EchoInv, Inv
<1>1. ASSUME NEW f, IsFrame(f), Send(f), SentIs'
      PROVE  EchoInv'
  <2>1. Following' /\ Len(line') >= Len(sent') /\ Len(sent') \in Nat
    BY <1>0, <1>1, FollowingSend, Zenon
  <2>2. Len(line') \in Nat
    BY <1>0 DEF Inv, LineTypes
  <2> DEFINE n == Len(line')
             m == Len(sent')
  <2>3. /\ ~(n < m)
        /\ m = 4 => n \notin 1..3 /\ n # 3 /\ n # 2 /\ n # 1 /\ n # 0
    <3>1. n >= m /\ m \in Nat /\ n \in Nat
      BY <2>1, <2>2
    <3> HIDE DEF n, m
    <3>2. QED
      BY <3>1
  <2>4. Short'
    BY <2>3, Zenon DEF Short
  <2>5. Plain'
    BY <2>3, Zenon DEF Plain, PlainSent
  <2>6. QED
    BY <1>0, <1>1, <2>1, <2>4, <2>5, Zenon DEF EchoInv
<1>2. CASE OnTimer \/ Type
  BY <1>1, <1>2, Sends, SentIsSend, Zenon
<1>3. CASE OnClose
  BY <1>1, <1>3, StopFrameIs, SentIsSend, Zenon DEF OnClose
<1>4. CASE LoseByte
  <2>1. losses' # 0 /\ sent' = sent
    BY <1>0, <1>4 DEF LoseByte, LineTypes
  <2>2. SentIs'
    BY <1>0, <2>1, Zenon DEF SentIs, NoEmptyCommand, NoTypedFrames
  <2>3. QED
    BY <1>0, <2>1, <2>2, Zenon
    DEF EchoInv, Following, Short, ShortSent, Plain, PlainSent
<1>5. CASE Loop
  <2>1. Following' /\ Short' /\ Plain'
    BY <1>0, <1>5, FollowingLoop, ShortLoop, PlainLoop, Zenon
  <2>2. sent' = sent
    BY <1>0, <1>5, ReadByteDoes, Zenon DEF Ending, hostVars
  <2>3. SentIs'
    BY <1>0, <2>2, Zenon DEF SentIs, NoEmptyCommand, NoTypedFrames
  <2>4. QED
    BY <1>0, <2>1, <2>3, Zenon DEF EchoInv
<1>6. CASE UNCHANGED vars
  <2>1. UNCHANGED <<line, sent, losses, idx, draining, buf, echo, pulse>>
    BY <1>6, Zenon DEF vars, hostVars, outVars
  <2>2. Following' /\ Short'
    BY <1>0, <2>1, Zenon DEF Following, IsFrame, Short, ShortSent
  <2>3. SentIs' /\ Plain'
    BY <1>0, <2>1, Zenon
    DEF SentIs, NoEmptyCommand, NoTypedFrames, Plain, PlainSent, PulsesOf
  <2>4. QED
    BY <1>0, <2>2, <2>3, Zenon DEF EchoInv
<1>7. QED
  BY <1>2, <1>3, <1>4, <1>5, <1>6, Zenon DEF Next

THEOREM EchoInvCorrect == Spec => []EchoInv
  BY EchoInit, EchoStep, PTL DEF Spec

\* On a line that loses nothing every command below the length limit is
\* executed whole and echoed, whatever too long commands and cut frames came
\* before it (loop of erictherobot_brain.ino), if no empty ones are
\* typed, which the controller rightly ignores.
THEOREM EchoCorrect == ASSUME NoEmptyCommand PROVE Spec => []ShortCommandsEchoed
<1>1. EchoInv => ShortCommandsEchoed
  <2> SUFFICES ASSUME EchoInv, line = <<>>, sent # <<>>, losses = 0,
                      Len(sent) < MaxCmdLength,
                      \A i \in 1..(Len(sent) - 1) : sent[i] # Term
               PROVE  echo = sent
    BY Zenon DEF ShortCommandsEchoed
  <2>1. Len(line) = 0 /\ Len(sent) > 1 /\ Len(sent) \in Nat
    BY DEF EchoInv, SentIs, Inv, LineTypes
  <2>2. 1 < Len(sent) /\ Len(sent) < 5 /\ Len(line) < Len(sent)
    BY <2>1 DEF MaxCmdLength
  <2>3. QED
    BY <2>1, <2>2, Zenon DEF EchoInv, Short, ShortSent
<1>2. QED
  BY <1>1, EchoInvCorrect, PTL

\* On a line that loses nothing both motors run at the speeds of the last frame
\* unless its left speed looks like the terminator; that the right one does is
\* harmless.  Only teleop sends frames (OnTimer and OnClose of teleop.py).
THEOREM PlainFramesCorrect == ASSUME NoTypedFrames PROVE Spec => []LastPlainFrameRuns
<1>1. EchoInv => LastPlainFrameRuns
  <2> SUFFICES ASSUME EchoInv, losses = 0, sent # <<>> => sent[2] # Term,
                      line = <<>>, sent # <<>>, sent[1] = V
               PROVE  pulse = PulsesOf(<<sent[2], sent[3]>>)
    BY Zenon DEF LastPlainFrameRuns, LastFrameRuns
  <2>1. Len(line) = 0 /\ Len(sent) = 4
    BY DEF EchoInv, SentIs
  <2>2. QED
    BY <2>1, Zenon DEF EchoInv, Plain, PlainSent
<1>2. QED
  BY <1>1, EchoInvCorrect, PTL
=============================================================================
