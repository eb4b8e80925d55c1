------------------------------ MODULE CamData ------------------------------
(***************************************************************************)
(* The shared-memory image channel of Camera/CamDataInterface.cpp: one     *)
(* CamDataWriter (the camera server) and several CamDataReaders (the AR    *)
(* tag localizers), in different processes, around                         *)
(*   - a mutex, the FIRST DOOR: the writer owns it except while an image   *)
(*     is being copied; a reader that gets it knows an image is coming and *)
(*     gives it back at once;                                              *)
(*   - a semaphore of MaxSem slots, the SECOND DOOR: the writer takes all  *)
(*     of them to copy an image, a reader takes one to read it.            *)
(* An image is copied in two parts, pixels and time stamp, by both sides.  *)
(* Every wait of the code has a timeout; time itself is left out, and a    *)
(* timeout may fire when the thing waited for is not there and either the  *)
(* process that has it is "slow" or no live process will give it back.     *)
(***************************************************************************)
EXTENDS Integers, FiniteSets

CONSTANTS
    Readers,     \* the client processes
    Writer,      \* the camera server's main thread, as an owner of the mutex
    NoOne,       \* the mutex is free
    Abandoned,   \* the mutex is free, its last owner died with it
    MaxSem,      \* MAX_SEM_COUNT
    Faults,      \* what may go wrong besides a camera that stops
    MaxImages,   \* bound: images the camera produces
    MaxCrashes   \* bound: crashes and destructor calls

FaultKinds == {
    "early",        \* a reader starts before the server or its first image
    "slow",         \* a live process keeps a slot or the mutex past a timeout
    "unmapped",     \* MapViewOfFile failed in a reader
    "readerClose",  \* ~CamDataReader runs
    "writerClose",  \* ~CamDataWriter runs, the server may start again
    "readerCrash",  \* a reader's process ends anywhere but with the mutex
    "abandon",      \* a reader's process ends with the mutex in its hands
    "writerCrash"}  \* the server's process ends without the destructor

ASSUME MaxSemAssumption == MaxSem \in Nat \ {0}
ASSUME FaultsAssumption == Faults \subseteq FaultKinds
ASSUME BoundsAssumption == MaxImages \in Nat /\ MaxCrashes \in Nat
ASSUME ReadersAssumption == IsFiniteSet(Readers)
ASSUME OwnersAssumption ==
    /\ Writer \notin Readers
    /\ NoOne \notin Readers \cup {Writer}
    /\ Abandoned \notin Readers \cup {Writer, NoOne}

VARIABLES
    sem,         \* free slots of the semaphore
    owner,       \* owner of the mutex, NoOne or Abandoned
    depth,       \* how often the owner has acquired it
    pixels,      \* number of the image whose pixels are in shared memory
    stamp,       \* number of the image whose time stamp is there; 0 = blank
    wpc,         \* where the writer is
    got,         \* AcquireSemaphores' counter i
    frame,       \* images the camera has produced
    rpc,         \* where each reader is
    img,         \* each reader's destImg and timestamp
    read,        \* number of the last image ReadNextImage returned
    failed,      \* history: calls of WriteNextImage that returned false
    crashes      \* history: crashes and destructor calls

mutexVars == <<owner, depth>>
memVars == <<pixels, stamp>>
writerVars == <<wpc, got, frame, failed>>
readerVars == <<rpc, img, read>>
vars == <<sem, mutexVars, memVars, writerVars, readerVars, crashes>>

WriterPCs == {"off", "idle", "acquire", "failed", "open", "pixels", "stamp",
              "close", "publish", "closing", "leaving"}
ReaderPCs == {"off", "waiting", "deaf", "idle", "door1", "signalled", "door2",
              "pixels", "stamp", "leave", "closing"}
Images == 0..MaxImages

\* Readers between taking a slot of the semaphore and giving it back.
Inside == {r \in Readers : rpc[r] \in {"pixels", "stamp", "leave"}}

Slow == "slow" \in Faults

\* Named objects live as long as some process has them open: the mutex and the
\* semaphore, which a "deaf" reader came too early to open, and the memory.
HandlesOpen ==
    wpc # "off" \/ \E r \in Readers : rpc[r] \notin {"off", "waiting", "deaf"}
MemoryOpen == wpc # "off" \/ \E r \in Readers : rpc[r] \notin {"off", "waiting"}

-----------------------------------------------------------------------------
(* The kernel objects. *)

\* A wait for an abandoned mutex succeeds too, and says WAIT_ABANDONED.
CanTake(p) == owner \in {NoOne, Abandoned, p}

TakeMutex(p) ==
    /\ owner' = p
    /\ depth' = depth + 1

\* ReleaseMutex does nothing when the caller is not the owner.
ReleaseMutex(p) ==
    /\ owner' = IF owner = p /\ depth = 1 THEN NoOne ELSE owner
    /\ depth' = IF owner = p THEN depth - 1 ELSE depth

\* A process ends: the kernel marks a mutex it owned as abandoned.
DropMutex(p) ==
    /\ owner' = IF owner = p THEN Abandoned ELSE owner
    /\ depth' = IF owner = p THEN 0 ELSE depth

\* ReleaseSemaphore(hAccessSem, 1, NULL) fails on a full semaphore.
ReleaseSlot == sem' = IF sem < MaxSem THEN sem + 1 ELSE sem

\* ReleaseSemaphores(hAccessSem, MAX_SEM_COUNT).  When some slot is already
\* free the call fails and leaves prevCount uninitialized; the second call
\* then releases any number of slots, or none when that number is too large.
ReleaseAllSlots ==
    IF sem = 0 THEN sem' = MaxSem ELSE sem' \in sem..MaxSem

-----------------------------------------------------------------------------
(* The writer. *)

WriterGoto(pc) == wpc' = pc /\ UNCHANGED <<got, frame, failed>>

\* CamDataWriter::init, in one step.  Objects that no reader has open are
\* created, the mutex not owned and the memory blank.
StartWriter ==
    /\ wpc = "off"
    /\ WriterGoto("idle")
    /\ IF HandlesOpen THEN UNCHANGED <<sem, mutexVars>>
       ELSE sem' = MaxSem /\ owner' = NoOne /\ depth' = 0
    /\ IF MemoryOpen THEN UNCHANGED memVars ELSE pixels' = 0 /\ stamp' = 0
    /\ UNCHANGED <<readerVars, crashes>>

\* The main loop has an image and calls WriteNextImage.
StartWrite ==
    /\ wpc = "idle"
    /\ frame < MaxImages
    /\ wpc' = "acquire" /\ got' = 0 /\ frame' = frame + 1
    /\ UNCHANGED <<sem, mutexVars, memVars, failed, readerVars, crashes>>

\* One turn of AcquireSemaphores' loop, for a write or for the destructor.
AcquireSlot ==
    /\ wpc \in {"acquire", "closing"}
    /\ got < MaxSem
    /\ sem > 0
    /\ sem' = sem - 1
    /\ got' = got + 1
    /\ UNCHANGED <<wpc, frame, failed, mutexVars, memVars, readerVars, crashes>>

\* Mutant of AllAcquired: one slot is taken for all of them.
AllAcquired_OneSlot ==
    /\ wpc = "acquire"
    /\ got >= 1
    /\ wpc' = "open" /\ got' = MaxSem
    /\ UNCHANGED <<frame, failed, sem, mutexVars, memVars, readerVars, crashes>>

\* AcquireSemaphores has every slot: close second door.
AllAcquired ==
    /\ wpc = "acquire"
    /\ got = MaxSem
    /\ WriterGoto("open")
    /\ UNCHANGED <<sem, mutexVars, memVars, readerVars, crashes>>

CanTimeOut == got < MaxSem /\ sem = 0 /\ (Slow \/ Inside = {})

\* Mutant of AcquireTimeout: the loop tries again, as its message says.
AcquireTimeout_TriesAgain ==
    /\ wpc = "acquire"
    /\ CanTimeOut
    /\ UNCHANGED vars

\* A slot did not come within a second.
AcquireTimeout ==
    /\ wpc = "acquire"
    /\ CanTimeOut
    /\ WriterGoto("failed")
    /\ UNCHANGED <<sem, mutexVars, memVars, readerVars, crashes>>

\* Mutant of GiveUpWrite: only the slots acquired in this call are released.
GiveUpWrite_ReleasesAcquired ==
    /\ wpc = "failed"
    /\ sem' = IF sem + got <= MaxSem THEN sem + got ELSE sem
    /\ wpc' = "idle" /\ got' = 0 /\ failed' = failed + 1
    /\ UNCHANGED <<frame, mutexVars, memVars, readerVars, crashes>>

\* ReleaseSemaphores(MAX_SEM_COUNT), however few slots were acquired, and
\* WriteNextImage returns false.
GiveUpWrite ==
    /\ wpc = "failed"
    /\ ReleaseAllSlots
    /\ wpc' = "idle" /\ got' = 0 /\ failed' = failed + 1
    /\ UNCHANGED <<frame, mutexVars, memVars, readerVars, crashes>>

\* Open first door.
OpenDoor1 ==
    /\ wpc = "open"
    /\ ReleaseMutex(Writer)
    /\ WriterGoto("pixels")
    /\ UNCHANGED <<sem, memVars, readerVars, crashes>>

WritePixels ==
    /\ wpc = "pixels"
    /\ pixels' = frame
    /\ WriterGoto("stamp")
    /\ UNCHANGED <<sem, mutexVars, stamp, readerVars, crashes>>

\* Mutant of WriteStamp: the second door opens before the first is closed.
WriteStamp_OpensDoor2 ==
    /\ wpc = "stamp"
    /\ stamp' = frame
    /\ sem' = MaxSem
    /\ WriterGoto("close")
    /\ UNCHANGED <<mutexVars, pixels, readerVars, crashes>>

WriteStamp ==
    /\ wpc = "stamp"
    /\ stamp' = frame
    /\ WriterGoto("close")
    /\ UNCHANGED <<sem, mutexVars, pixels, readerVars, crashes>>

\* Mutant of CloseDoor1: the mutex is not taken back.
CloseDoor1_LeavesOpen ==
    /\ wpc = "close"
    /\ WriterGoto("publish")
    /\ UNCHANGED <<sem, mutexVars, memVars, readerVars, crashes>>

\* Close first door.  WAIT_ABANDONED makes the writer the owner and yet is
\* not WAIT_OBJECT_0: WriteNextImage returns true with every slot taken.
CloseDoor1 ==
    /\ wpc = "close"
    /\ CanTake(Writer)
    /\ TakeMutex(Writer)
    /\ IF owner = Abandoned
       THEN wpc' = "idle" /\ got' = 0 /\ UNCHANGED <<frame, failed>>
       ELSE WriterGoto("publish")
    /\ UNCHANGED <<sem, memVars, readerVars, crashes>>

\* The mutex did not come within a second: the same early return.
CloseTimeout ==
    /\ wpc = "close"
    /\ ~CanTake(Writer)
    /\ Slow \/ rpc[owner] # "signalled"
    /\ wpc' = "idle" /\ got' = 0
    /\ UNCHANGED <<frame, failed, sem, mutexVars, memVars, readerVars, crashes>>

\* Mutant of OpenDoor2: one slot is given back, as in the destructor.
OpenDoor2_OneSlot ==
    /\ wpc = "publish"
    /\ ReleaseSlot
    /\ wpc' = "idle" /\ got' = 0
    /\ UNCHANGED <<frame, failed, mutexVars, memVars, readerVars, crashes>>

\* Mutant of OpenDoor2: the slots are kept.
OpenDoor2_KeepsSlots ==
    /\ wpc = "publish"
    /\ wpc' = "idle" /\ got' = 0
    /\ UNCHANGED <<frame, failed, sem, mutexVars, memVars, readerVars, crashes>>

\* Open second door.
OpenDoor2 ==
    /\ wpc = "publish"
    /\ ReleaseAllSlots
    /\ wpc' = "idle" /\ got' = 0
    /\ UNCHANGED <<frame, failed, mutexVars, memVars, readerVars, crashes>>

\* ~CamDataWriter, up to its AcquireSemaphores ...
StartClose ==
    /\ "writerClose" \in Faults
    /\ crashes < MaxCrashes
    /\ wpc = "idle"
    /\ wpc' = "closing" /\ got' = 0 /\ crashes' = crashes + 1
    /\ UNCHANGED <<frame, failed, sem, mutexVars, memVars, readerVars>>

\* ... what it does when that returns, with all slots or without ...
FinishClose ==
    /\ wpc = "closing"
    /\ got = MaxSem \/ CanTimeOut
    /\ ReleaseMutex(Writer)
    /\ WriterGoto("leaving")
    /\ UNCHANGED <<sem, memVars, readerVars, crashes>>

\* ... and one slot, of those it has, is given back.
LeaveChannel ==
    /\ wpc = "leaving"
    /\ ReleaseSlot
    /\ wpc' = "off" /\ got' = 0
    /\ UNCHANGED <<frame, failed, mutexVars, memVars, readerVars, crashes>>

\* The server's process ends: a camera error, or ExitProcess in
\* ConsoleHandlerRoutine.
WriterCrash ==
    /\ "writerCrash" \in Faults
    /\ crashes < MaxCrashes
    /\ wpc # "off"
    /\ DropMutex(Writer)
    /\ wpc' = "off" /\ got' = 0 /\ crashes' = crashes + 1
    /\ UNCHANGED <<frame, failed, sem, memVars, readerVars>>

-----------------------------------------------------------------------------
(* A reader. *)

ReaderGoto(r, pc) == rpc' = [rpc EXCEPT ![r] = pc] /\ UNCHANGED <<img, read>>

\* CamDataReader::init opens mutex and semaphore, if they exist, and waits for
\* the file mapping, however long that takes.
OpenReader(r) ==
    /\ rpc[r] = "off"
    /\ "early" \in Faults \/ (HandlesOpen /\ stamp # 0)
    /\ ReaderGoto(r, IF HandlesOpen THEN "idle" ELSE "waiting")
    /\ UNCHANGED <<sem, mutexVars, memVars, writerVars, crashes>>

\* The mapping exists, but the reader's other handles are NULL.
MapMemory(r) ==
    /\ rpc[r] = "waiting" /\ MemoryOpen
    /\ ReaderGoto(r, "deaf")
    /\ UNCHANGED <<sem, mutexVars, memVars, writerVars, crashes>>

\* ReadNextImage is called; without handles it returns false at once.
StartRead(r) ==
    /\ rpc[r] \in {"idle", "deaf"}
    /\ ReaderGoto(r, IF rpc[r] = "deaf" THEN "deaf" ELSE "door1")
    /\ UNCHANGED <<sem, mutexVars, memVars, writerVars, crashes>>

\* The wait for the mutex ends.  WAIT_ABANDONED makes the reader its owner
\* but ReadNextImage returns false without giving it back.
PassDoor1(r) ==
    /\ rpc[r] = "door1"
    /\ CanTake(r)
    /\ TakeMutex(r)
    /\ ReaderGoto(r, IF owner = Abandoned THEN "idle" ELSE "signalled")
    /\ UNCHANGED <<sem, memVars, writerVars, crashes>>

\* No image for five seconds: ReadNextImage returns false.
Door1Timeout(r) ==
    /\ rpc[r] = "door1"
    /\ ~CanTake(r)
    /\ ReaderGoto(r, "idle")
    /\ UNCHANGED <<sem, mutexVars, memVars, writerVars, crashes>>

\* Mutant of ReturnMutex: the mutex is kept while the image is read.
ReturnMutex_Keeps(r) ==
    /\ rpc[r] = "signalled"
    /\ ReaderGoto(r, "door2")
    /\ UNCHANGED <<sem, mutexVars, memVars, writerVars, crashes>>

\* The mutex is only a signal and is given back immediately.
ReturnMutex(r) ==
    /\ rpc[r] = "signalled"
    /\ ReleaseMutex(r)
    /\ ReaderGoto(r, "door2")
    /\ UNCHANGED <<sem, memVars, writerVars, crashes>>

PassDoor2(r) ==
    /\ rpc[r] = "door2"
    /\ sem > 0
    /\ sem' = sem - 1
    /\ ReaderGoto(r, "pixels")
    /\ UNCHANGED <<mutexVars, memVars, writerVars, crashes>>

\* No slot for five seconds: ReadNextImage returns false.
Door2Timeout(r) ==
    /\ rpc[r] = "door2"
    /\ sem = 0
    /\ Slow \/ (wpc \in {"off", "idle"} /\ Inside = {})
    /\ ReaderGoto(r, "idle")
    /\ UNCHANGED <<sem, mutexVars, memVars, writerVars, crashes>>

\* pBuf is NULL: the slot is given back, ReadNextImage returns false.
ReadUnmapped(r) ==
    /\ "unmapped" \in Faults
    /\ rpc[r] = "pixels"
    /\ ReleaseSlot
    /\ ReaderGoto(r, "idle")
    /\ UNCHANGED <<mutexVars, memVars, writerVars, crashes>>

\* Mutant of ReadPixels: the slot is given back before the time stamp is read.
ReadPixels_LeavesEarly(r) ==
    /\ rpc[r] = "pixels"
    /\ img' = [img EXCEPT ![r].pixels = pixels]
    /\ rpc' = [rpc EXCEPT ![r] = "stamp"]
    /\ ReleaseSlot
    /\ UNCHANGED <<read, mutexVars, memVars, writerVars, crashes>>

ReadPixels(r) ==
    /\ rpc[r] = "pixels"
    /\ img' = [img EXCEPT ![r].pixels = pixels]
    /\ rpc' = [rpc EXCEPT ![r] = "stamp"]
    /\ UNCHANGED <<read, sem, mutexVars, memVars, writerVars, crashes>>

ReadStamp(r) ==
    /\ rpc[r] = "stamp"
    /\ img' = [img EXCEPT ![r].stamp = stamp]
    /\ rpc' = [rpc EXCEPT ![r] = "leave"]
    /\ UNCHANGED <<read, sem, mutexVars, memVars, writerVars, crashes>>

\* The slot is given back, ReadNextImage returns true.
FinishRead(r) ==
    /\ rpc[r] = "leave"
    /\ ReleaseSlot
    /\ rpc' = [rpc EXCEPT ![r] = "idle"]
    /\ read' = [read EXCEPT ![r] = img[r].pixels]
    /\ UNCHANGED <<img, mutexVars, memVars, writerVars, crashes>>

\* ~CamDataReader, up to the semaphore; a deaf reader has no handles to use.
CloseReader(r) ==
    /\ "readerClose" \in Faults
    /\ crashes < MaxCrashes
    /\ rpc[r] \in {"idle", "deaf"}
    /\ ReleaseMutex(r)
    /\ ReaderGoto(r, IF rpc[r] = "deaf" THEN "off" ELSE "closing")
    /\ crashes' = crashes + 1
    /\ UNCHANGED <<sem, memVars, writerVars>>

\* It gives back a slot that the reader does not hold.
LeaveReader(r) ==
    /\ rpc[r] = "closing"
    /\ ReleaseSlot
    /\ ReaderGoto(r, "off")
    /\ UNCHANGED <<mutexVars, memVars, writerVars, crashes>>

\* The reader's process ends; a slot it holds is never given back.
ReaderCrash(r) ==
    /\ rpc[r] # "off"
    /\ crashes < MaxCrashes
    /\ IF owner = r THEN "abandon" \in Faults ELSE "readerCrash" \in Faults
    /\ DropMutex(r)
    /\ ReaderGoto(r, "off")
    /\ crashes' = crashes + 1
    /\ UNCHANGED <<sem, memVars, writerVars>>

-----------------------------------------------------------------------------

Init ==
    /\ sem = MaxSem
    /\ owner = NoOne /\ depth = 0
    /\ pixels = 0 /\ stamp = 0
    /\ wpc = "off" /\ got = 0 /\ frame = 0 /\ failed = 0
    /\ rpc = [r \in Readers |-> "off"]
    /\ img = [r \in Readers |-> [pixels |-> 0, stamp |-> 0]]
    /\ read = [r \in Readers |-> 0]
    /\ crashes = 0

WriteCall ==
    \/ AcquireSlot \/ AllAcquired \/ AcquireTimeout \/ GiveUpWrite
    \/ OpenDoor1 \/ WritePixels \/ WriteStamp
    \/ CloseDoor1 \/ CloseTimeout \/ OpenDoor2

WriterNext ==
    StartWriter \/ StartWrite \/ WriteCall
    \/ StartClose \/ FinishClose \/ LeaveChannel \/ WriterCrash

ReadCall(r) ==
    \/ Door1Timeout(r) \/ ReturnMutex(r) \/ PassDoor2(r) \/ Door2Timeout(r)
    \/ ReadUnmapped(r) \/ ReadPixels(r) \/ ReadStamp(r) \/ FinishRead(r)

ReaderNext(r) ==
    OpenReader(r) \/ MapMemory(r) \/ StartRead(r) \/ PassDoor1(r) \/ ReadCall(r)
    \/ CloseReader(r) \/ LeaveReader(r) \/ ReaderCrash(r)

Next == WriterNext \/ \E r \in Readers : ReaderNext(r)

Spec == Init /\ [][Next]_vars

(***************************************************************************)
(* Both processes run their calls to the end, the camera keeps producing   *)
(* images, the localizers keep calling ReadNextImage, and a server that    *)
(* ended is started again.  A thread that waits for a mutex or a semaphore *)
(* is queued by the kernel, which hands what is released to the thread     *)
(* that has waited longest: strong fairness for the actions that end a     *)
(* wait.                                                                   *)
(***************************************************************************)
Fairness ==
    /\ WF_vars(StartWriter) /\ WF_vars(StartWrite) /\ WF_vars(WriteCall)
    /\ WF_vars(FinishClose) /\ WF_vars(LeaveChannel) /\ SF_vars(AcquireSlot)
    /\ \A r \in Readers :
          /\ WF_vars(OpenReader(r)) /\ WF_vars(MapMemory(r))
          /\ WF_vars(StartRead(r)) /\ WF_vars(ReadCall(r)) /\ WF_vars(LeaveReader(r))
          /\ SF_vars(PassDoor1(r)) /\ SF_vars(PassDoor2(r))

FairSpec == Spec /\ Fairness

-----------------------------------------------------------------------------
(* Properties. *)

\* Type invariant.  Nobody acquires the mutex a third time: a reader that kept
\* one it found abandoned still gives back what it takes as a signal.
TypeOK ==
    /\ sem \in 0..MaxSem
    /\ owner \in Readers \cup {Writer, NoOne, Abandoned}
    /\ depth \in 0..2
    /\ pixels \in Images /\ stamp \in Images /\ frame \in Images
    /\ wpc \in WriterPCs
    /\ got \in 0..MaxSem
    /\ rpc \in [Readers -> ReaderPCs]
    /\ img \in [Readers -> [pixels : Images, stamp : Images]]
    /\ read \in [Readers -> Images]
    /\ failed \in Nat
    /\ crashes \in 0..MaxCrashes

\* No reader copies the image out of shared memory while the writer copies
\* the next one in (CamDataInterface.h: clients "don't read the image while
\* it is being written"): all the slots the writer counted in
\* AcquireSemaphores exclude every reader.
Exclusion == wpc \in {"pixels", "stamp"} => Inside = {}

\* The pixels and the time stamp that ReadNextImage returns belong together.
ReadsWhole == \A r \in Readers : rpc[r] = "leave" => img[r].pixels = img[r].stamp

\* ReadNextImage never returns an image that the reader already had, nor one
\* from before it, nor the blank memory ("clients only read each image once").
ReadOnce == \A r \in Readers : rpc[r] = "leave" => img[r].pixels > read[r]

\* The channel, as its clients see it, is the abstract one.
Channel == INSTANCE FrameChannel WITH published <- stamp
ImplementsChannel == Channel!Spec

\* A reader whose process ends while it holds a slot makes at most one call of
\* WriteNextImage fail: the failing call puts the lost slot back.
CrashCostsOneImage == failed <= crashes

\* A reader that was signalled for an image gets past the second door and
\* returns one; the writer does not leave it waiting there.
SignalledReaderReads ==
    \A r \in Readers : (rpc[r] = "door2") ~> (rpc[r] = "leave")

\* An image that WriteNextImage began to write is in the end readable.
EveryImagePublished ==
    \A n \in 1..MaxImages :
        (frame = n /\ wpc = "acquire") ~> (stamp = n /\ sem > 0)

\* No call blocks for ever, whatever else goes wrong: the timeouts see to it, but
\* for the constructor of a reader, which waits for a server.
CallsReturn ==
    /\ (wpc # "idle") ~> (wpc = "idle")
    /\ \A r \in Readers :
        rpc[r] \notin {"off", "deaf", "idle"} ~> rpc[r] \in {"off", "deaf", "idle"}

-----------------------------------------------------------------------------
(* The inductive invariants behind the safety properties (CamDataProofs).  *)

Copying == wpc \in {"pixels", "stamp"}
Window == wpc \in {"pixels", "stamp", "close"}

\* Every acquisition of the mutex has an owner, which has it twice only between
\* PassDoor1 and ReturnMutex; only destructors close.
MutexInv ==
    /\ owner \in {NoOne, Abandoned} <=> depth = 0
    /\ depth = 2 => owner \in Readers /\ rpc[owner] = "signalled"
    /\ owner = Writer => wpc \notin {"pixels", "stamp", "close", "off", "leaving"}
    /\ owner \in Readers => rpc[owner] \notin {"off", "waiting", "deaf", "closing"}
    /\ \A r \in Readers : rpc[r] = "closing" => "readerClose" \in Faults

\* No slot is given out twice: needs processes that keep to the timeouts and
\* no ~CamDataReader, which gives back a slot it never took.
SlotInv ==
    /\ sem + got + Cardinality(Inside) <= MaxSem
    /\ wpc = "off" => got = 0
    /\ wpc \in {"open", "pixels", "stamp", "close", "publish"} => got = MaxSem
    /\ wpc \in {"failed", "leaving"} => sem = 0 /\ Inside = {}

\* The first door: outside the window between OpenDoor1 and CloseDoor1 the
\* writer has the mutex, and a reader has it only to give it back.
DoorInv ==
    /\ owner # Abandoned
    /\ wpc \notin {"closing", "leaving"}
    /\ depth <= 1
    /\ wpc = "off" => stamp = 0
    /\ stamp = 0 => \A r \in Readers : rpc[r] = "off"
    /\ stamp # 0 /\ ~Window => owner = Writer
    /\ Window => owner # Writer
    /\ owner \in Readers => rpc[owner] = "signalled"

\* The image in memory is whole except between the writer's two copies.
ImageInv ==
    /\ pixels = IF wpc = "stamp" THEN frame ELSE stamp
    /\ wpc \in {"acquire", "failed", "open", "pixels", "stamp"} => stamp < frame
    /\ stamp <= frame
    /\ \A r \in Readers :
          /\ rpc[r] \in {"stamp", "leave"} => img[r].pixels = pixels
          /\ rpc[r] = "leave" => img[r].stamp = stamp

\* Whoever passed the first door is owed an image it has not had.
NewsInv ==
    \A r \in Readers :
        /\ read[r] <= stamp
        /\ wpc = "close" => read[r] < stamp
        /\ rpc[r] \in {"signalled", "door2"} /\ ~Copying => read[r] < stamp
        /\ r \in Inside => read[r] < stamp
=============================================================================
