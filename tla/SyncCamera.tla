----------------------------- MODULE SyncCamera -----------------------------
(***************************************************************************)
(* Sync1394Camera: cameras that an application makes, sets up and deletes, *)
(* each with a thread that grabs images.  The threads wait until all       *)
(* cameras are set up; a trigger on the network may give the time of the   *)
(* images.  The application and the camera driver are not part of the      *)
(* repository: the application does one call at a time, in any order of    *)
(* cameras, and sets allCamInit when all are set up; the driver gives an   *)
(* image or an error within the second that StartImageAcquisitionEx sets.  *)
(***************************************************************************)
EXTENDS Naturals

CONSTANTS
    Cameras,
    Junk        \* what a bool may be before it is set

ASSUME JunkAssumption == Junk \subseteq BOOLEAN

VARIABLES
    config,             \* per camera: the SyncCamParams it will be set up with
    life,               \* the object, and the call on it that goes on
    isRunning,
    udp,                \* connections made: 0, udpRX (1), udpTX too (2)
    thread,             \* CamThread
    allCamInit, allStop

vars == <<config, life, isRunning, udp, thread, allCamInit, allStop>>

Configs == [syncEnabled : BOOLEAN, eTrigEnabled : BOOLEAN]

\* The application is not in a call.
Calling == {"camera", "rx", "tx", "start", "delete", "join", "close", "crashed"}
Idle == \A c \in Cameras : life[c] \notin Calling

-----------------------------------------------------------------------------
(* InitCamera, up to the connections, the connections, and the rest. *)

BeginInit(c) ==
    /\ Idle /\ life[c] \in {"made", "failed"}
    /\ isRunning' = [isRunning EXCEPT ![c] = FALSE]
    /\ life' = [life EXCEPT ![c] = "camera"]
    /\ UNCHANGED <<config, udp, thread, allCamInit, allStop>>

Fail(c) ==
    /\ life[c] \in {"camera", "rx", "tx", "start"}
    /\ life' = [life EXCEPT ![c] = "failed"]
    /\ UNCHANGED <<config, isRunning, udp, thread, allCamInit, allStop>>

InitDevice(c) ==
    /\ life[c] = "camera"
    /\ life' = [life EXCEPT ![c] =
            IF config[c].syncEnabled /\ ~config[c].eTrigEnabled THEN "rx"
            ELSE "start"]
    /\ UNCHANGED <<config, isRunning, udp, thread, allCamInit, allStop>>

\* Mutant of ConnectRX: a connection that could not be made is only reported.
ConnectRX_GoesOn(c) ==
    /\ life[c] = "rx"
    /\ \E made \in {0, 1} : udp' = [udp EXCEPT ![c] = made]
    /\ life' = [life EXCEPT ![c] = "tx"]
    /\ UNCHANGED <<config, isRunning, thread, allCamInit, allStop>>

ConnectRX(c) ==
    /\ life[c] = "rx"
    /\ udp' = [udp EXCEPT ![c] = IF @ = 0 THEN 1 ELSE @]
    /\ life' = [life EXCEPT ![c] = "tx"]
    /\ UNCHANGED <<config, isRunning, thread, allCamInit, allStop>>

\* What the messages to the trigger do is left out.
ConnectTX(c) ==
    /\ life[c] = "tx"
    /\ udp' = [udp EXCEPT ![c] = IF @ = 0 THEN 0 ELSE 2]
    /\ life' = [life EXCEPT ![c] = "start"]
    /\ UNCHANGED <<config, isRunning, thread, allCamInit, allStop>>

StartThread(c) ==
    /\ life[c] = "start"
    /\ isRunning' = [isRunning EXCEPT ![c] = TRUE]
    /\ thread' = [thread EXCEPT ![c] = "wait"]
    /\ life' = [life EXCEPT ![c] = "ready"]
    /\ UNCHANGED <<config, udp, allCamInit, allStop>>

SetAllCamInit ==
    /\ \A c \in Cameras : life[c] = "ready"
    /\ allCamInit' = TRUE
    /\ UNCHANGED <<config, life, isRunning, udp, thread, allStop>>

SetAllStop ==
    /\ allStop' = ~allStop
    /\ UNCHANGED <<config, life, isRunning, udp, thread, allCamInit>>

-----------------------------------------------------------------------------
(* The destructor. *)

\* Mutant of Delete: it does not wait for the thread.
Delete_NoWait(c) ==
    /\ Idle /\ life[c] \in {"made", "failed", "ready"}
    /\ isRunning' = [isRunning EXCEPT ![c] = FALSE]
    /\ life' = [life EXCEPT ![c] = "close"]
    /\ UNCHANGED <<config, udp, thread, allCamInit, allStop>>

\* Before InitCamera isRunning may be anything; the handle of the thread and the
\* critical section that it stands for do not exist then.
Delete(c) ==
    /\ Idle /\ life[c] \in {"made", "failed", "ready"}
    /\ isRunning' = [isRunning EXCEPT ![c] = FALSE]
    /\ life' = [life EXCEPT ![c] =
            IF ~isRunning[c] THEN IF life[c] = "made" THEN "gone" ELSE "close"
            ELSE IF life[c] = "made" THEN "crashed" ELSE "join"]
    /\ UNCHANGED <<config, udp, thread, allCamInit, allStop>>

Join(c) ==
    /\ life[c] = "join" /\ thread[c] = "ended"
    /\ life' = [life EXCEPT ![c] = "close"]
    /\ UNCHANGED <<config, isRunning, udp, thread, allCamInit, allStop>>

\* The message that stops the trigger, and what is used to send it.
Close(c) ==
    /\ life[c] = "close"
    /\ life' = [life EXCEPT ![c] =
            IF config[c].syncEnabled /\ udp[c] < 2 THEN "crashed" ELSE "gone"]
    /\ UNCHANGED <<config, isRunning, udp, thread, allCamInit, allStop>>

-----------------------------------------------------------------------------
(* CamThread. *)

WaitForAll(c) ==
    /\ thread[c] = "wait" /\ allCamInit
    /\ thread' = [thread EXCEPT ![c] = "test"]
    /\ UNCHANGED <<config, life, isRunning, udp, allCamInit, allStop>>

\* Mutant of Test: a thread that is stopped looks at nothing else.
Test_Stays(c) ==
    /\ thread[c] = "test" /\ ~allStop
    /\ thread' = [thread EXCEPT ![c] = IF isRunning[c] THEN "acquire" ELSE "ended"]
    /\ UNCHANGED <<config, life, isRunning, udp, allCamInit, allStop>>

\* while(isRunning) and if(allStop), which tests isRunning again.
Test(c) ==
    /\ thread[c] = "test" /\ (isRunning[c] => ~allStop)
    /\ thread' = [thread EXCEPT ![c] = IF isRunning[c] THEN "acquire" ELSE "ended"]
    /\ UNCHANGED <<config, life, isRunning, udp, allCamInit, allStop>>

\* AcquireImageEx(TRUE), with an image or without one, and what is done with it.
Acquire(c) ==
    /\ thread[c] = "acquire"
    /\ thread' = [thread EXCEPT ![c] = "test"]
    /\ UNCHANGED <<config, life, isRunning, udp, allCamInit, allStop>>

-----------------------------------------------------------------------------
Init ==
    /\ config \in [Cameras -> Configs]
    /\ life = [c \in Cameras |-> "made"]
    /\ isRunning \in [Cameras -> Junk]
    /\ udp = [c \in Cameras |-> 0]
    /\ thread = [c \in Cameras |-> "none"]
    /\ allCamInit = FALSE /\ allStop = FALSE

Grab(c) == WaitForAll(c) \/ Test(c) \/ Acquire(c)
Destroy(c) == Join(c) \/ Close(c)

Next ==
    \/ SetAllCamInit \/ SetAllStop
    \/ \E c \in Cameras :
        \/ BeginInit(c) \/ Fail(c) \/ InitDevice(c) \/ ConnectRX(c)
        \/ ConnectTX(c) \/ StartThread(c) \/ Delete(c)
        \/ Grab(c) \/ Destroy(c)

Spec == Init /\ [][Next]_vars

\* Threads that can go on do; the application owes nothing but to finish a
\* destructor.
FairSpec ==
    Spec /\ \A c \in Cameras : WF_vars(Grab(c)) /\ WF_vars(Destroy(c))

-----------------------------------------------------------------------------
(* Properties. *)

\* Type invariant; a camera that is being taken apart has no thread any more
\* (~Sync1394Camera).
TypeOK ==
    /\ config \in [Cameras -> Configs]
    /\ life \in [Cameras -> {"made", "failed", "ready", "gone"} \cup Calling]
    /\ isRunning \in [Cameras -> BOOLEAN] /\ udp \in [Cameras -> 0..2]
    /\ thread \in [Cameras -> {"none", "wait", "test", "acquire", "ended"}]
    /\ {allCamInit, allStop} \subseteq BOOLEAN
    /\ \A c \in Cameras :
        life[c] \in {"close", "gone"} => thread[c] \in {"none", "ended"}

\* Where the destructor uses what is not there, a connection is missing, and the
\* camera was never set up, its InitCamera failed, or it uses two triggers
\* (InitCamera makes no connections for syncEnabled if eTrigEnabled is set too):
\* no order of the cameras' calls does it to a camera that was set up for one.
CleanupIsSafe ==
    \A c \in Cameras :
        life[c] = "crashed" =>
            /\ udp[c] < 2
            /\ \/ thread[c] = "none"
               \/ config[c].syncEnabled /\ config[c].eTrigEnabled

\* Once all cameras were set up every destructor returns, with allStop set or
\* not, whether images come or not, in whatever order the cameras are deleted.
DestructorReturns ==
    \A c \in Cameras : life[c] = "join" ~> (life[c] # "join" \/ ~allCamInit)
=============================================================================
