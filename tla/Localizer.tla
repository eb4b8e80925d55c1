------------------------------ MODULE Localizer ------------------------------
(***************************************************************************)
(* The localizer beside the camera server: it reads images from the        *)
(* channel, looks for the tags of each camera in them, sends their poses   *)
(* with the image's time stamp, and counts the images.  It reads the memory *)
(* as it is, while no server writes: that readers and a server that runs    *)
(* keep apart is what CamData shows, whatever servers were killed before.   *)
(***************************************************************************)
EXTENDS CameraServer

VARIABLES
    lpc, running,           \* RunRealtime: "read", "send", "stopped"
    read,                   \* number of the last image read
    held,                   \* the image in img, resize
    timestamp, oldtimestamp, frameNum,
    camNum,                 \* camera whose poses are next
    message,                \* the last one sent: camera, time stamp, image
    processed, last,        \* history: different images processed, the last
    alike                   \* history: images came whose stamps may be equal

locVars == <<opened, lpc, running, read, held, timestamp, oldtimestamp, frameNum, camNum,
             message, processed, last, alike>>
vars == <<serverVars, locVars>>

-----------------------------------------------------------------------------
(* RunRealtime *)

\* CamDataReader's constructor waits for the memory of a server.
Open ==
    /\ ~opened
    /\ \E s \in Servers : pc[s] \in {"loop", "grab", "write", "stamp", "cleanup"}
    /\ opened' = TRUE
    /\ UNCHANGED <<lpc, running, read, held, timestamp, oldtimestamp, frameNum,
                   camNum, message, processed, last, alike>>

\* The image in the memory with the stamp beside it, be it the same as before
\* (a killed server left the doors open) or half written (it was killed between
\* its two copies); a server that runs has the reader wait until its write is
\* done.  The call may fail as well (Iterate).  Stamps of whole images of one
\* server differ while its clock is steady, but for one that is 0, the value
\* timestamp has at the start.
ReadNextImage ==
    /\ \A s \in Servers : pc[s] # "stamp"
    /\ read' = published
    /\ held' = taken
    /\ timestamp' = memory
    /\ alike' = (\/ alike \/ ~taken.whole \/ ~taken.steady
                 \/ memory = 0 /\ taken # NoImage
                 \/ held # NoImage /\ held.by # taken.by)

\* while(running): the key q ends it after this iteration.  What ReadNextImage
\* returns is not looked at.
Iterate ==
    /\ lpc = "read" /\ opened
    /\ \E q \in BOOLEAN : running' = ~q
    /\ \/ ReadNextImage
       \/ UNCHANGED <<read, held, timestamp, alike>>
    /\ camNum' = 1
    /\ lpc' = "send"
    /\ UNCHANGED <<opened, oldtimestamp, frameNum, message, processed, last>>

\* Mutant of CountFrame: every iteration counts.
CountFrame_Always ==
    /\ frameNum' = frameNum + 1
    /\ oldtimestamp' = timestamp

CountFrame ==
    IF oldtimestamp # timestamp
    THEN frameNum' = frameNum + 1 /\ oldtimestamp' = timestamp
    ELSE UNCHANGED <<frameNum, oldtimestamp>>

\* Mutant of RunCamera: one camera too many.
RunCamera_OneMore ==
    /\ lpc = "send"
    /\ message' = [cam |-> camNum, timestamp |-> timestamp, image |-> held]
    /\ IF camNum <= NumCams
       THEN /\ camNum' = camNum + 1
            /\ UNCHANGED <<lpc, frameNum, oldtimestamp, processed, last>>
       ELSE /\ CountFrame
            /\ processed' = IF last = read THEN processed ELSE processed + 1
            /\ last' = read
            /\ lpc' = IF running THEN "read" ELSE "stopped"
            /\ UNCHANGED camNum
    /\ UNCHANGED <<opened, running, read, held, timestamp, alike>>

\* RunCamera for one camera; after the last one the end of the iteration.
RunCamera ==
    /\ lpc = "send"
    /\ message' = [cam |-> camNum, timestamp |-> timestamp, image |-> held]
    /\ IF camNum < NumCams
       THEN /\ camNum' = camNum + 1
            /\ UNCHANGED <<lpc, frameNum, oldtimestamp, processed, last>>
       ELSE /\ CountFrame
            /\ processed' = IF last = read THEN processed ELSE processed + 1
            /\ last' = read
            /\ lpc' = IF running THEN "read" ELSE "stopped"
            /\ UNCHANGED camNum
    /\ UNCHANGED <<opened, running, read, held, timestamp, alike>>

LocInit ==
    /\ opened = FALSE /\ lpc = "read" /\ running = TRUE
    /\ read = 0 /\ held = NoImage
    /\ timestamp = 0 /\ oldtimestamp = -1 /\ frameNum = 0 /\ camNum = 1
    /\ message = [cam |-> NumCams, timestamp |-> 0, image |-> NoImage]
    /\ processed = 0 /\ last = -1 /\ alike = FALSE

-----------------------------------------------------------------------------
Init == ServerInit /\ LocInit
Next ==
    \/ ServerNext /\ UNCHANGED locVars
    \/ (Open \/ Iterate \/ RunCamera) /\ UNCHANGED serverVars
Spec == Init /\ [][Next]_vars

-----------------------------------------------------------------------------
(* Properties. *)

Images == [at : [Cams -> Int], by : Servers \cup {"nobody"}, zero : Int,
           steady : BOOLEAN, whole : BOOLEAN]

\* Every variable has its type (globals of CameraServerFirefly.cpp and of the
\* localizer's main.cpp).
TypeOK ==
    /\ pc \in [Servers -> {"off", "init", "refused", "setup", "loop", "grab",
                           "write", "stamp", "cleanup", "enter", "ended"}]
    /\ handler \in [Servers -> {"none", "set", "waiting"}]
    /\ isRunning \in [Servers -> BOOLEAN] /\ holders \subseteq Servers
    /\ now \in 0..MaxTime /\ shot \in [Cams -> Int] /\ cam \in Cams
    /\ cycleTimeSeconds \in Nat /\ incrementCycleTimeSeconds \in BOOLEAN
    /\ {imageTimestamp, zero, memory, timestamp, oldtimestamp, last} \subseteq Int
    /\ steady \in BOOLEAN /\ {published, read, frameNum, processed} \subseteq Nat
    /\ late \in [Servers -> Nat] /\ lost \in [Servers -> BOOLEAN]
    /\ {taken, held} \subseteq Images
    /\ lpc \in {"read", "send", "stopped"} /\ {opened, running, alike} \subseteq BOOLEAN
    /\ camNum \in Cams
    /\ message \in [cam : Cams, timestamp : Int, image : Images]

\* The poses of a camera are sent with a time that is not before its picture was
\* taken, and is that of the last camera's picture: seconds of the cycle timer
\* that started again (GetCycleTimestampFromImage) are counted on, failed reads
\* send the old poses with the old time.  For images that came in the order of
\* time, at least one in a second (steady): otherwise the count may be off; and
\* for whole images: one that a killed server left half written has the stamp of
\* the image before it.
PosesHaveTheirTime ==
    LET image == message.image IN
    image # NoImage /\ image.whole /\ image.steady =>
        /\ image.at[message.cam] <= message.timestamp + image.zero
        /\ image.at[NumCams] = message.timestamp + image.zero

\* frameNum is the number of different images that were processed: reads that
\* failed or brought the same image do not count (but the blank image before the
\* first one does), and an image is left out only where stamps may be equal:
\* another server's, which starts to count again, a half-written one's, an
\* unsteady clock's, or one that is 0.
FramesCounted ==
    lpc # "send" =>
        /\ frameNum <= processed
        /\ ~alike => frameNum = processed
=============================================================================
