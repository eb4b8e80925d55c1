---------------------------- MODULE MotorSerial ----------------------------
(***************************************************************************)
(* The motor controller of MCU/erictherobot_brain.ino and the two programs *)
(* at the other end of its serial line: tests/teleop.py, which sends a     *)
(* frame 'V' left right '.' ten times a second and a last one when it is   *)
(* closed, and a person at a terminal.  The speeds are raw bytes, so that  *)
(* one of them may equal the terminator.  A byte in flight may be lost.    *)
(***************************************************************************)
EXTENDS Integers, Sequences

CONSTANTS
    Targets,    \* mouse positions <<x, y>> relative to the window's center
    Commands,   \* what is typed at the terminal, without the terminator
    MaxFrames,  \* bound: frames and commands sent
    MaxLosses   \* bound: bytes lost on the line

MaxCmdLength == 5
Term == 46      \* CMD_TERM_CHAR, '.'
V == 86         \* 'V'
L == 76         \* 'L'
On == 49        \* '1'
Off == 48       \* '0'
Radius == 150   \* circle_rad
Center == [left |-> 1664, right |-> 1643]
Band == 141

Byte == 0..255

ASSUME TargetsAssumption == Targets \subseteq Int \X Int
ASSUME CommandsAssumption == Commands \subseteq Seq(Byte)
ASSUME LimitsAssumption == MaxFrames \in Nat /\ MaxLosses \in Nat

VARIABLES
    line,       \* bytes on their way to the controller
    open,       \* the sender still has the serial port open
    sent,       \* history: the last frame, terminator included
    frames,     \* history: number of frames sent
    losses,     \* history: number of bytes lost
    damaged,    \* history: a loss hit the last frame or the '.' before it
    buf, idx,   \* cmd_buf, cmd_idx
    draining,   \* in the loop that follows "too long"
    echo,       \* the command last echoed by "OK:"
    pulse,      \* what writeMicroseconds was last given, per motor
    led         \* the debug LED

hostVars == <<open, sent, frames, damaged>>
outVars == <<echo, pulse, led>>
vars == <<line, hostVars, losses, buf, idx, draining, outVars>>

-----------------------------------------------------------------------------
(* tests/teleop.py *)

Sign(n) == IF n > 0 THEN 1 ELSE IF n < 0 THEN -1 ELSE 0
Clamp(n, lo, hi) == IF n < lo THEN lo ELSE IF n > hi THEN hi ELSE n

\* The two speeds OnTimer computes for a mouse position.  The code's floating
\* point sum 128 + 128 v / 150 -+ (128 w / 150) / 2 is put over 300.
WheelSpeeds(target) ==
    LET v == Clamp(-target[2], -Radius, Radius)
        w == Clamp(target[1], -Radius, Radius) * (IF v # 0 THEN -Sign(v) ELSE 1)
        Speed(turn) == Clamp(128 * 300 + 256 * v + 128 * turn, 0, 255 * 300) \div 300
    IN  <<Speed(-w), Speed(w)>>

Frame(speeds) == <<V, speeds[1], speeds[2], Term>>
StopFrame == Frame(<<128, 128>>)

Send(f) ==
    /\ open
    /\ line' = line \o f
    /\ sent' = f
    /\ UNCHANGED <<losses, buf, idx, draining, outVars>>

\* The timer's handler: one frame for the current mouse position.
OnTimer ==
    /\ frames < MaxFrames
    /\ \E target \in Targets : Send(Frame(WheelSpeeds(target)))
    /\ frames' = frames + 1 /\ damaged' = FALSE
    /\ UNCHANGED open

\* Somebody types a command.
Type ==
    /\ frames < MaxFrames
    /\ \E c \in Commands : Send(Append(c, Term))
    /\ frames' = frames + 1 /\ damaged' = FALSE
    /\ UNCHANGED open

\* Closing the window sends the stop frame and closes the port.
OnClose ==
    /\ Send(StopFrame)
    /\ open' = FALSE
    /\ UNCHANGED <<frames, damaged>>

\* The line loses a byte.  While the port is open only the last terminator
\* matters to the frame that will be the last one; afterwards, that terminator
\* and the whole stop frame.
LoseByte ==
    /\ losses < MaxLosses
    /\ \E i \in 1..Len(line) :
          /\ line' = SubSeq(line, 1, i - 1) \o SubSeq(line, i + 1, Len(line))
          /\ damaged' = (damaged \/ Len(line) - i < (IF open THEN 1 ELSE 5))
    /\ losses' = losses + 1
    /\ UNCHANGED <<open, sent, frames, buf, idx, draining, outVars>>

-----------------------------------------------------------------------------
(* MCU/erictherobot_brain.ino *)

\* Arduino's map(x, 0, 255, center - MOTOR_BAND, center + MOTOR_BAND).
Map(x, center) == (x * 2 * Band) \div 255 + center - Band

LeftPulse(b) == Map(255 - b, Center.left)

RightPulse(b) == Map(b, Center.right)

\* Mutant of Execute: the left motor is not inverted.
Execute_NotInverted(b) ==
    /\ pulse' = IF b[0] = V THEN [left |-> LeftPulse(255 - b[1]), right |-> RightPulse(b[2])]
                ELSE pulse
    /\ UNCHANGED led

\* The switch over the command in b; shorter commands than 'V' l r use what
\* is left in cmd_buf from the commands before.
Execute(b) ==
    /\ pulse' = IF b[0] = V THEN [left |-> LeftPulse(b[1]), right |-> RightPulse(b[2])]
                ELSE pulse
    /\ led' = IF b[0] = L /\ b[1] = On THEN TRUE
              ELSE IF b[0] = L /\ b[1] = Off THEN FALSE ELSE led

Receive ==
    /\ line # <<>>
    /\ line' = Tail(line)
    /\ UNCHANGED <<hostVars, losses>>

Store == buf' = [buf EXCEPT ![idx] = Head(line)]

Full == idx + 1 = MaxCmdLength

\* A byte of a command that goes on.
ReadByte ==
    /\ ~draining
    /\ Receive
    /\ Store
    /\ ~Full /\ Head(line) # Term
    /\ idx' = idx + 1
    /\ UNCHANGED <<draining, outVars>>

\* Mutant of ReadCommand: the index is not reset for an empty command.
ReadCommand_KeepsIndex ==
    /\ ~draining
    /\ Receive
    /\ Store
    /\ ~Full /\ Head(line) = Term
    /\ IF idx + 1 > 1
       THEN /\ Execute(buf')
            /\ echo' = [i \in 1..(idx + 1) |-> buf'[i - 1]]
            /\ idx' = 0
       ELSE UNCHANGED outVars /\ idx' = idx + 1
    /\ UNCHANGED draining

\* The terminator: the command is processed if there is any.
ReadCommand ==
    /\ ~draining
    /\ Receive
    /\ Store
    /\ ~Full /\ Head(line) = Term
    /\ IF idx + 1 > 1
       THEN /\ Execute(buf')
            /\ echo' = [i \in 1..(idx + 1) |-> buf'[i - 1]]
       ELSE UNCHANGED outVars
    /\ idx' = 0
    /\ UNCHANGED draining

\* Mutant of TooLong: the command is skipped, the index is not reset.
TooLong_Counts ==
    /\ ~draining
    /\ Receive
    /\ Store
    /\ Full
    /\ draining' = (Head(line) # Term)
    /\ idx' = idx + 1
    /\ UNCHANGED outVars

\* Mutant of TooLong: nothing is skipped, the last byte is overwritten.
TooLong_NoSkip ==
    /\ ~draining
    /\ Receive
    /\ Store
    /\ Full
    /\ UNCHANGED <<idx, draining, outVars>>

\* The buffer is full: the command is dropped, up to the next terminator.
TooLong ==
    /\ ~draining
    /\ Receive
    /\ Store
    /\ Full
    /\ draining' = (Head(line) # Term)
    /\ idx' = 0
    /\ UNCHANGED outVars

\* Mutant of Drain: the terminator is not recognized.
Drain_OneMore ==
    /\ draining
    /\ Receive
    /\ UNCHANGED <<buf, idx, draining, outVars>>

\* while (Serial.read() != CMD_TERM_CHAR)
Drain ==
    /\ draining
    /\ Receive
    /\ draining' = (Head(line) # Term)
    /\ UNCHANGED <<buf, idx, outVars>>

Loop == ReadByte \/ ReadCommand \/ TooLong \/ Drain

-----------------------------------------------------------------------------

\* setup(), and the beginning of loop(): cmd_buf is on the stack, and of what
\* it starts with only the third byte is ever read before it is written.
Init ==
    /\ line = <<>> /\ open = TRUE /\ sent = <<>>
    /\ frames = 0 /\ losses = 0 /\ damaged = FALSE
    /\ \E b \in {0, 128, 255} : buf = [i \in 0..MaxCmdLength |-> b]
    /\ idx = 0 /\ draining = FALSE
    /\ echo = <<>>
    /\ pulse = Center
    /\ led = FALSE

Next == OnTimer \/ Type \/ OnClose \/ LoseByte \/ Loop

\* The controller has nothing to do but its loop, and the window is closed
\* some day.
Spec == Init /\ [][Next]_vars
FairSpec == Spec /\ WF_vars(Loop) /\ WF_vars(OnClose)

-----------------------------------------------------------------------------
(* Properties. *)

\* Type invariant.
TypeOK ==
    /\ line \in Seq(Byte)
    /\ open \in BOOLEAN /\ damaged \in BOOLEAN
    /\ sent \in Seq(Byte)
    /\ frames \in 0..MaxFrames /\ losses \in 0..MaxLosses
    /\ buf \in [0..MaxCmdLength -> Byte]
    /\ idx \in 0..(MaxCmdLength - 1)
    /\ draining \in BOOLEAN
    /\ echo \in Seq(Byte)
    /\ pulse \in [left : Nat, right : Nat]
    /\ led \in BOOLEAN

PulsesOf(speeds) == [left |-> LeftPulse(speeds[1]), right |-> RightPulse(speeds[2])]

\* When the line is quiet, both motors run at the speeds of the last frame
\* ("Args: 1 byte left speed, 1 byte right speed").
LastFrameRuns ==
    line = <<>> /\ sent # <<>> /\ sent[1] = V =>
        pulse = PulsesOf(<<sent[2], sent[3]>>)

\* They do unless a byte was lost or the left speed looks like the terminator.
\* A right speed that does is executed, by the terminator that it is.
LastPlainFrameRuns == losses = 0 /\ (sent # <<>> => sent[2] # Term) => LastFrameRuns

\* The robot stands when teleop has been closed and the line is quiet, even if
\* speed bytes looked like terminators or bytes were lost before: only a loss
\* in the stop frame itself, or of the terminator before it, can prevent that.
StopStops ==
    ~open /\ line = <<>> /\ ~damaged => pulse = PulsesOf(<<128, 128>>)

\* Under the same condition the robot does come to a stop for good.
ComesToStop == <>[](line = <<>> /\ (damaged \/ pulse = PulsesOf(<<128, 128>>)))

\* Commands below the length limit without a '.' inside are executed whole and
\* in order when the line lost nothing, also after commands that were too long
\* or cut by a speed byte: the echo shows the last one.
ShortCommandsEchoed ==
    (line = <<>> /\ sent # <<>> /\ losses = 0 /\ Len(sent) < MaxCmdLength
     /\ \A i \in 1..(Len(sent) - 1) : sent[i] # Term)
        => echo = sent
=============================================================================
