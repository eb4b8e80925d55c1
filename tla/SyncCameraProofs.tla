-------------------------- MODULE SyncCameraProofs --------------------------
(***************************************************************************)
(* The synchronous cameras, for every number of them and every order in    *)
(* which they are made, set up and deleted, with failures of InitCamera.   *)
(***************************************************************************)
EXTENDS SyncCamera, TLAPS

USE JunkAssumption

Starting == {"camera", "rx", "tx", "start"}

\* The trigger's connections are the ones the camera needs.
Connected(c) == config[c].syncEnabled /\ ~config[c].eTrigEnabled => udp[c] = 2

\* What InitCamera has made when it comes to a step, and when it has returned.
Progress ==
    \A c \in Cameras :
        /\ life[c] \in Starting \cup {"made", "failed"} => thread[c] = "none"
        /\ life[c] \in Starting \cup {"failed"} => ~isRunning[c]
        /\ life[c] = "ready" => isRunning[c]
        /\ life[c] = "made" => udp[c] = 0
        /\ life[c] = "tx" => udp[c] # 0
        /\ life[c] \in {"start", "ready", "join"} => Connected(c)
        /\ life[c] = "close" /\ thread[c] # "none" => Connected(c)

Inv == TypeOK /\ Progress /\ CleanupIsSafe

-----------------------------------------------------------------------------
LEMMA InvInit == Init => Inv
<1> SUFFICES ASSUME Init PROVE Inv
  OBVIOUS
<1>1. TypeOK
  <2>1. /\ config \in [Cameras -> Configs]
        /\ life \in [Cameras -> {"made", "failed", "ready", "gone"} \cup Calling]
        /\ thread \in [Cameras -> {"none", "wait", "test", "acquire", "ended"}]
    BY DEF Init, Calling
  <2>2. udp \in [Cameras -> 0..2]
    BY DEF Init
  <2>3. isRunning \in [Cameras -> BOOLEAN]
    BY DEF Init
  <2>4. {allCamInit, allStop} \subseteq BOOLEAN
    BY Zenon DEF Init
  <2>5. \A c \in Cameras :
            life[c] \in {"close", "gone"} => thread[c] \in {"none", "ended"}
    BY DEF Init
  <2>6. QED
    BY <2>1, <2>2, <2>3, <2>4, <2>5, Zenon DEF TypeOK
<1>2. Progress /\ CleanupIsSafe
  BY DEF Init, Progress, CleanupIsSafe, Starting, Connected
<1>3. QED
  BY <1>1, <1>2, Zenon DEF Inv

\* A step of one camera's InitCamera, destructor or thread.
LEMMA CameraStep ==
    ASSUME Inv, NEW c \in Cameras,
           \/ BeginInit(c) \/ Fail(c) \/ InitDevice(c) \/ ConnectRX(c)
           \/ ConnectTX(c) \/ StartThread(c) \/ Delete(c) \/ Grab(c) \/ Destroy(c)
    PROVE  Inv'
<1> USE DEF Inv, Progress, CleanupIsSafe, TypeOK, Starting, Calling, Connected
<1>1. CASE BeginInit(c)
  BY <1>1 DEF BeginInit
<1>2. CASE Fail(c)
  BY <1>2 DEF Fail
<1>3. CASE InitDevice(c)
  BY <1>3 DEF InitDevice
<1>4. CASE ConnectRX(c)
  BY <1>4 DEF ConnectRX
<1>5. CASE ConnectTX(c)
  <2>1. /\ life[c] = "tx" /\ life' = [life EXCEPT ![c] = "start"]
        /\ udp' = [udp EXCEPT ![c] = IF @ = 0 THEN 0 ELSE 2]
        /\ UNCHANGED <<config, isRunning, thread, allCamInit, allStop>>
    BY <1>5, Zenon DEF ConnectTX
  <2>2. QED
    BY <2>1
<1>6. CASE StartThread(c)
  BY <1>6 DEF StartThread
<1>7. CASE Delete(c)
  BY <1>7 DEF Delete
<1>8. CASE Grab(c)
  BY <1>8 DEF Grab, WaitForAll, Test, Acquire
<1>9. CASE Join(c)
  BY <1>9 DEF Join
<1>10. CASE Close(c)
  <2>1. /\ life[c] = "close"
        /\ life' = [life EXCEPT ![c] =
              IF config[c].syncEnabled /\ udp[c] < 2 THEN "crashed" ELSE "gone"]
        /\ UNCHANGED <<config, isRunning, udp, thread, allCamInit, allStop>>
    BY <1>10, Zenon DEF Close
  <2>2. QED
    BY <2>1
<1>11. QED
  BY <1>1, <1>2, <1>3, <1>4, <1>5, <1>6, <1>7, <1>8, <1>9, <1>10, Zenon DEF Destroy

LEMMA InvStep == Inv /\ [Next]_vars => Inv'
<1> SUFFICES ASSUME Inv, [Next]_vars PROVE Inv'
  OBVIOUS
<1>1. CASE SetAllCamInit \/ SetAllStop \/ UNCHANGED vars
  <2>1. /\ UNCHANGED <<config, life, isRunning, udp, thread>>
        /\ allCamInit' \in BOOLEAN /\ allStop' \in BOOLEAN
    BY <1>1, Zenon DEF SetAllCamInit, SetAllStop, vars, Inv, TypeOK
  <2>2. QED
    BY <2>1, Zenon DEF Inv, TypeOK, Progress, CleanupIsSafe, Connected
<1>2. ASSUME NEW c \in Cameras,
             \/ BeginInit(c) \/ Fail(c) \/ InitDevice(c) \/ ConnectRX(c)
             \/ ConnectTX(c) \/ StartThread(c) \/ Delete(c) \/ Grab(c) \/ Destroy(c)
      PROVE  Inv'
  BY <1>2, CameraStep, Zenon
<1>3. QED
  BY <1>1, <1>2, Zenon DEF Next

THEOREM InvCorrect == Spec => []Inv
  BY InvInit, InvStep, PTL DEF Spec

\* Every variable keeps its type, and a camera that is taken apart has no thread
\* any more (~Sync1394Camera), for every number of cameras.
THEOREM TypeCorrect == Spec => []TypeOK
<1>1. Inv => TypeOK
  BY Zenon DEF Inv
<1>2. QED
  BY <1>1, InvCorrect, PTL

\* A camera whose InitCamera succeeded and that uses one trigger is taken apart
\* safely (~Sync1394Camera), for every number of cameras; what is excepted goes
\* wrong in the code, for want of a connection.
THEOREM CleanupCorrect == Spec => []CleanupIsSafe
<1>1. Inv => CleanupIsSafe
  BY Zenon DEF Inv
<1>2. QED
  BY <1>1, InvCorrect, PTL
=============================================================================
