---------------------------- MODULE CameraServer ----------------------------
(***************************************************************************)
(* The camera server's process: one instance at a time, a main loop that   *)
(* grabs an image from each camera in turn and writes them to the channel  *)
(* with the time of the last one, a console handler that stops it.  The    *)
(* memory is written in two steps, between which the process may be killed; *)
(* what keeps readers away meanwhile is CamData.                           *)
(***************************************************************************)
EXTENDS Integers, FiniteSets

CONSTANTS
    Servers,    \* processes that are started, each once
    NumCams,
    Wrap,       \* seconds until cycleSeconds starts again: 128
    Rate,       \* images a camera can take in a second
    MaxTime     \* bound: when the cameras stop taking images

ASSUME ServersAssumption == "nobody" \notin Servers
ASSUME CamsAssumption == NumCams \in Nat \ {0}
ASSUME ClockAssumption == Wrap \in Nat \ {0, 1} /\ Rate \in Nat \ {0}
ASSUME TimeAssumption == MaxTime \in Nat

Cams == 1..NumCams
NoImage == [at |-> [c \in Cams |-> -1], by |-> "nobody", zero |-> 0,
            steady |-> TRUE, whole |-> TRUE]

VARIABLES
    pc, handler, isRunning, \* per process: main, console handler, the flag
    holders,                \* processes with a handle of InstanceMutex
    now, shot,              \* clock, per camera: time of the last image taken
    cam,                    \* camera whose image is next
    cycleTimeSeconds, incrementCycleTimeSeconds, imageTimestamp,
    opened,                 \* the localizer's: it has opened the memory
    published, memory,      \* the memory: number of its image, time stamp
    zero, steady,           \* history: time 0 of the time stamps; images came
                            \* in the order of time, no second was left out
    taken,                  \* history: when the pictures of that image were
                            \* taken, and that it has its own stamp (whole)
    late, lost              \* history, per process: images written after the
                            \* console was closed; closing it was overwritten

procVars == <<pc, handler, isRunning, holders, late, lost>>
clockVars == <<now, shot>>
stampVars == <<cam, cycleTimeSeconds, incrementCycleTimeSeconds, imageTimestamp,
               zero, steady>>
channelVars == <<published, memory, taken>>
serverVars == <<procVars, clockVars, stampVars, channelVars>>

-----------------------------------------------------------------------------
(* Time in ticks, Rate of them in a second.  The cameras of a bus have one  *)
(* cycle timer, whose seconds wrap.                                        *)

Second(t) == t \div Rate
CycleSeconds(t) == Second(t) % Wrap
Cycle == Wrap * Rate

Tick ==
    /\ now < MaxTime
    /\ now' = now + 1
    /\ UNCHANGED <<procVars, shot, stampVars, channelVars>>

-----------------------------------------------------------------------------
(* Start and end of the process. *)

\* The handles are closed, what the process knew is gone.
End(s) ==
    /\ pc' = [pc EXCEPT ![s] = "ended"]
    /\ holders' = holders \ {s}
    /\ handler' = [handler EXCEPT ![s] = "none"]
    /\ isRunning' = [isRunning EXCEPT ![s] = TRUE]
    /\ late' = [late EXCEPT ![s] = 0]
    /\ lost' = [lost EXCEPT ![s] = FALSE]

\* Mutant of InitHandles: whoever gets a handle goes on.
InitHandles_NoCheck(s) ==
    /\ pc[s] = "off"
    /\ pc' = [pc EXCEPT ![s] = "init"]
    /\ holders' = holders \cup {s}
    /\ UNCHANGED <<handler, isRunning, late, lost, clockVars, stampVars,
                   channelVars>>

\* CreateMutex, which gives a handle to an instance that must not run as well.
\* A new process starts to count time anew.
InitHandles(s) ==
    /\ pc[s] = "off"
    /\ IF holders = {}
       THEN /\ pc' = [pc EXCEPT ![s] = "init"]
            /\ cam' = 1 /\ imageTimestamp' = -1
            /\ cycleTimeSeconds' = 0 /\ incrementCycleTimeSeconds' = FALSE
            /\ zero' = -1 /\ steady' = TRUE
       ELSE /\ pc' = [pc EXCEPT ![s] = "refused"]
            /\ UNCHANGED stampVars
    /\ holders' = holders \cup {s}
    /\ UNCHANGED <<handler, isRunning, late, lost, clockVars, channelVars>>

Refuse(s) ==
    /\ pc[s] = "refused"
    /\ End(s)
    /\ UNCHANGED <<clockVars, stampVars, channelVars>>

SetConsoleCtrlHandler(s) ==
    /\ pc[s] = "init"
    /\ handler' = [handler EXCEPT ![s] = "set"]
    /\ pc' = [pc EXCEPT ![s] = "setup"]
    /\ UNCHANGED <<isRunning, holders, late, lost, clockVars, stampVars,
                   channelVars>>

\* main up to its loop.  isRunning is set, which it was from the beginning; the
\* memory is blank, unless the localizer has kept it since an earlier server.
Setup(s) ==
    /\ pc[s] = "setup"
    /\ \/ /\ isRunning' = [isRunning EXCEPT ![s] = TRUE]
          /\ lost' = [lost EXCEPT ![s] = ~isRunning[s]]
          /\ pc' = [pc EXCEPT ![s] = "loop"]
          /\ IF opened THEN UNCHANGED channelVars
             ELSE published' = 0 /\ memory' = 0 /\ taken' = NoImage
          /\ UNCHANGED <<handler, holders, late>>
       \/ End(s) /\ UNCHANGED channelVars  \* a camera is missing or fails
    /\ UNCHANGED <<clockVars, stampVars>>

Cleanup(s) ==
    /\ pc[s] = "cleanup"
    /\ pc' = [pc EXCEPT ![s] = "enter"]
    /\ UNCHANGED <<handler, isRunning, holders, late, lost, clockVars, stampVars,
                   channelVars>>

\* "Press Enter to exit"
Enter(s) ==
    /\ pc[s] = "enter"
    /\ End(s)
    /\ UNCHANGED <<clockVars, stampVars, channelVars>>

\* The console is closed: without the handler the process ends.
CloseConsole(s) ==
    /\ pc[s] \notin {"off", "ended"} /\ handler[s] # "waiting"
    /\ IF handler[s] = "set"
       THEN /\ handler' = [handler EXCEPT ![s] = "waiting"]
            /\ isRunning' = [isRunning EXCEPT ![s] = FALSE]
            /\ UNCHANGED <<pc, holders, late, lost>>
       ELSE End(s)
    /\ UNCHANGED <<clockVars, stampVars, channelVars>>

\* main has not returned within 4 s.
ExitProcess(s) ==
    /\ handler[s] = "waiting"
    /\ End(s)
    /\ UNCHANGED <<clockVars, stampVars, channelVars>>

-----------------------------------------------------------------------------
(* The main loop. *)

\* Mutant of Loop: the flag is looked at before the first image only.
Loop_TestsOnce(s) ==
    /\ pc[s] = "loop"
    /\ pc' = [pc EXCEPT ![s] = IF isRunning[s] \/ published > 0 THEN "grab"
                               ELSE "cleanup"]
    /\ UNCHANGED <<handler, isRunning, holders, late, lost, clockVars, stampVars,
                   channelVars>>

\* while(isRunning), and the key q, which does not end this iteration.
Loop(s) ==
    /\ pc[s] = "loop"
    /\ IF isRunning[s]
       THEN /\ \E q \in BOOLEAN : isRunning' = [isRunning EXCEPT ![s] = ~q]
            /\ pc' = [pc EXCEPT ![s] = "grab"]
       ELSE /\ pc' = [pc EXCEPT ![s] = "cleanup"]
            /\ UNCHANGED isRunning
    /\ UNCHANGED <<handler, holders, late, lost, clockVars, stampVars, channelVars>>

\* Mutant of CycleTimestamp: the flag is not taken back.
CycleTimestamp_KeepsFlag(t) ==
    /\ IF CycleSeconds(t) = 0 /\ incrementCycleTimeSeconds
       THEN /\ cycleTimeSeconds' = cycleTimeSeconds + Wrap
            /\ UNCHANGED incrementCycleTimeSeconds
       ELSE /\ incrementCycleTimeSeconds' =
                    (incrementCycleTimeSeconds \/ CycleSeconds(t) = Wrap - 1)
            /\ UNCHANGED cycleTimeSeconds
    /\ imageTimestamp' = (cycleTimeSeconds' * Rate) + (t % Cycle)

\* GetCycleTimestampFromImage
CycleTimestamp(t) ==
    /\ IF CycleSeconds(t) = 0 /\ incrementCycleTimeSeconds
       THEN /\ cycleTimeSeconds' = cycleTimeSeconds + Wrap
            /\ incrementCycleTimeSeconds' = FALSE
       ELSE /\ incrementCycleTimeSeconds' =
                    (incrementCycleTimeSeconds \/ CycleSeconds(t) = Wrap - 1)
            /\ UNCHANGED cycleTimeSeconds
    /\ imageTimestamp' = (cycleTimeSeconds' * Rate) + (t % Cycle)

\* RetrieveBuffer: an image of this camera that is newer than its last one, in
\* whatever order to those of the other cameras.
Grab(s) ==
    /\ pc[s] = "grab"
    /\ \E t \in (shot[cam] + 1)..now :
        /\ shot' = [shot EXCEPT ![cam] = t]
        /\ CycleTimestamp(t)
        /\ IF zero = -1
           THEN zero' = t - (t % Cycle) /\ UNCHANGED steady
           ELSE /\ steady' = (/\ steady /\ imageTimestamp + zero <= t
                              /\ Second(t) - Second(imageTimestamp + zero) \in {0, 1})
                /\ UNCHANGED zero
    /\ IF cam < NumCams
       THEN cam' = cam + 1 /\ UNCHANGED pc
       ELSE cam' = 1 /\ pc' = [pc EXCEPT ![s] = "write"]
    /\ UNCHANGED <<handler, isRunning, holders, late, lost, now, channelVars>>

\* It reports an error: main returns, and cleans nothing up.
GrabFails(s) ==
    /\ pc[s] = "grab"
    /\ End(s)
    /\ UNCHANGED <<clockVars, stampVars, channelVars>>

\* WriteNextImage, whose result is not looked at: it fails, or copies the image
\* to the memory...
Write(s) ==
    /\ pc[s] = "write"
    /\ \/ /\ published' = published + 1
          /\ taken' = [at |-> shot, by |-> s, zero |-> zero, steady |-> steady,
                       whole |-> FALSE]
          /\ pc' = [pc EXCEPT ![s] = "stamp"]
          /\ UNCHANGED memory
       \/ /\ pc' = [pc EXCEPT ![s] = "loop"]
          /\ UNCHANGED channelVars
    /\ late' = [late EXCEPT
          ![s] = IF handler[s] = "waiting" /\ ~lost[s] THEN @ + 1 ELSE @]
    /\ UNCHANGED <<handler, isRunning, holders, lost, clockVars, stampVars>>

\* ...and then the time stamp.
WriteStamp(s) ==
    /\ pc[s] = "stamp"
    /\ memory' = imageTimestamp
    /\ taken' = [taken EXCEPT !.whole = TRUE]
    /\ pc' = [pc EXCEPT ![s] = "loop"]
    /\ UNCHANGED <<handler, isRunning, holders, late, lost, published, clockVars,
                   stampVars>>

-----------------------------------------------------------------------------
ServerInit ==
    /\ pc = [s \in Servers |-> "off"]
    /\ handler = [s \in Servers |-> "none"]
    /\ isRunning = [s \in Servers |-> TRUE]
    /\ holders = {}
    /\ now = 0 /\ shot = [c \in Cams |-> -1]
    /\ cam = 1 /\ cycleTimeSeconds = 0 /\ incrementCycleTimeSeconds = FALSE
    /\ imageTimestamp = -1 /\ zero = -1 /\ steady = TRUE
    /\ published = 0 /\ memory = 0
    /\ taken = NoImage
    /\ late = [s \in Servers |-> 0] /\ lost = [s \in Servers |-> FALSE]

ServerNext ==
    \/ Tick
    \/ \E s \in Servers :
        \/ InitHandles(s) \/ Refuse(s) \/ SetConsoleCtrlHandler(s) \/ Setup(s)
        \/ Cleanup(s) \/ Enter(s) \/ CloseConsole(s) \/ ExitProcess(s)
        \/ Loop(s) \/ Grab(s) \/ GrabFails(s) \/ Write(s) \/ WriteStamp(s)

-----------------------------------------------------------------------------
(* Properties of the server. *)

\* One server at a time has cameras and channel; the others end before that.
OneServer ==
    Cardinality({s \in Servers : pc[s] \notin {"off", "refused", "ended"}}) <= 1

\* After the console was closed a server writes the image it is on and no more,
\* unless it was closed before main set the flag.
StopsAfterThisImage == \A s \in Servers : lost[s] \/ late[s] <= 1
=============================================================================
