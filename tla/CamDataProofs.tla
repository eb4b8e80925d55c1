--------------------------- MODULE CamDataProofs ---------------------------
(***************************************************************************)
(* What holds of the image channel of CamData for every number of readers, *)
(* slots, images and crashes.                                              *)
(***************************************************************************)
EXTENDS CamData, FiniteSetTheorems, TLAPS

USE MaxSemAssumption, FaultsAssumption, BoundsAssumption, ReadersAssumption,
    OwnersAssumption

LEMMA TypeInit == Init => TypeOK /\ MutexInv
BY DEF Init, TypeOK, MutexInv, Images, WriterPCs, ReaderPCs

\* The writer's steps keep the types, and count the mutex's acquisitions.
LEMMA TypeWriter == TypeOK /\ MutexInv /\ WriterNext => TypeOK' /\ MutexInv'
<1> SUFFICES ASSUME TypeOK, MutexInv, WriterNext PROVE TypeOK' /\ MutexInv'
  OBVIOUS
<1> USE DEF TypeOK, MutexInv, Images, WriterPCs, WriterGoto, readerVars,
            mutexVars, memVars
<1>1. CASE StartWriter
  BY <1>1 DEF StartWriter
<1>2. CASE StartWrite
  BY <1>2 DEF StartWrite
<1>3. CASE AcquireSlot
  BY <1>3 DEF AcquireSlot
<1>4. CASE AllAcquired
  BY <1>4 DEF AllAcquired
<1>5. CASE AcquireTimeout
  BY <1>5 DEF AcquireTimeout
<1>6. CASE GiveUpWrite
  BY <1>6 DEF GiveUpWrite, ReleaseAllSlots
<1>7. CASE OpenDoor1
  BY <1>7 DEF OpenDoor1, ReleaseMutex
<1>8. CASE WritePixels
  BY <1>8 DEF WritePixels
<1>9. CASE WriteStamp
  BY <1>9 DEF WriteStamp
<1>10. CASE CloseDoor1
  BY <1>10 DEF CloseDoor1, CanTake, TakeMutex
<1>11. CASE CloseTimeout
  BY <1>11 DEF CloseTimeout
<1>12. CASE OpenDoor2
  BY <1>12 DEF OpenDoor2, ReleaseAllSlots
<1>13. CASE StartClose
  BY <1>13 DEF StartClose
<1>14. CASE FinishClose
  BY <1>14 DEF FinishClose, ReleaseMutex
<1>15. CASE WriterCrash
  BY <1>15 DEF WriterCrash, DropMutex
<1>17. CASE LeaveChannel
  BY <1>17 DEF LeaveChannel, ReleaseSlot
<1>16. QED
  BY <1>1, <1>2, <1>3, <1>4, <1>5, <1>6, <1>7, <1>8, <1>9, <1>10, <1>11,
     <1>12, <1>13, <1>14, <1>15, <1>17 DEF WriterNext, WriteCall

\* So do the steps of the readers.
LEMMA TypeReader ==
    ASSUME NEW r \in Readers, TypeOK, MutexInv, ReaderNext(r)
    PROVE  TypeOK' /\ MutexInv'
<1> USE DEF TypeOK, MutexInv, Images, ReaderPCs, ReaderGoto, writerVars,
            mutexVars, memVars
<1>1. CASE OpenReader(r)
  BY <1>1 DEF OpenReader
<1>2. CASE StartRead(r)
  BY <1>2 DEF StartRead
<1>3. CASE PassDoor1(r)
  BY <1>3 DEF PassDoor1, CanTake, TakeMutex
<1>4. CASE Door1Timeout(r)
  BY <1>4 DEF Door1Timeout
<1>5. CASE ReturnMutex(r)
  BY <1>5 DEF ReturnMutex, ReleaseMutex
<1>6. CASE PassDoor2(r)
  BY <1>6 DEF PassDoor2
<1>7. CASE Door2Timeout(r)
  BY <1>7 DEF Door2Timeout
<1>8. CASE ReadUnmapped(r)
  BY <1>8 DEF ReadUnmapped, ReleaseSlot
<1>9. CASE ReadPixels(r)
  BY <1>9 DEF ReadPixels
<1>10. CASE ReadStamp(r)
  BY <1>10 DEF ReadStamp
<1>11. CASE FinishRead(r)
  BY <1>11 DEF FinishRead, ReleaseSlot
<1>12. CASE CloseReader(r)
  BY <1>12 DEF CloseReader, ReleaseMutex
<1>13. CASE ReaderCrash(r)
  BY <1>13 DEF ReaderCrash, DropMutex
<1>15. CASE MapMemory(r)
  BY <1>15 DEF MapMemory
<1>16. CASE LeaveReader(r)
  BY <1>16 DEF LeaveReader, ReleaseSlot
<1>14. QED
  BY <1>1, <1>2, <1>3, <1>4, <1>5, <1>6, <1>7, <1>8, <1>9, <1>10, <1>11,
     <1>12, <1>13, <1>15, <1>16 DEF ReaderNext, ReadCall

LEMMA TypeStutter == TypeOK /\ MutexInv /\ UNCHANGED vars => TypeOK' /\ MutexInv'
BY DEF TypeOK, MutexInv, vars, writerVars, readerVars, mutexVars, memVars

\* The state of the channel keeps its types whatever goes wrong: the counts of
\* slots stay between 0 and MAX_SEM_COUNT, and the mutex is free exactly when
\* every acquisition of it has been released.
THEOREM TypeCorrect == Spec => [](TypeOK /\ MutexInv)
<1>1. Init => TypeOK /\ MutexInv
  BY TypeInit
<1>2. TypeOK /\ MutexInv /\ [Next]_vars => TypeOK' /\ MutexInv'
  BY TypeWriter, TypeReader, TypeStutter DEF Next
<1>3. QED
  BY <1>1, <1>2, PTL DEF Spec

-----------------------------------------------------------------------------
(* The slots of the semaphore. *)

\* Every process keeps to the timeouts, and no reader runs its destructor.
Prompt == Faults \cap {"slow", "readerClose"} = {}

LEMMA InsideFinite == IsFiniteSet(Inside) /\ Cardinality(Inside) \in Nat
<1>1. Inside \subseteq Readers
  BY DEF Inside
<1>2. IsFiniteSet(Inside)
  BY <1>1, FS_Subset
<1>3. QED
  BY <1>2, FS_CardinalityType

\* How the number of readers with a slot changes.
LEMMA InsideSame == UNCHANGED rpc => Inside' = Inside
BY DEF Inside

LEMMA InsideEmpty == Cardinality(Inside) = 0 <=> Inside = {}
BY InsideFinite, FS_EmptySet

LEMMA Enter ==
    ASSUME NEW r \in Readers, r \notin Inside, Inside' = Inside \cup {r}
    PROVE  Cardinality(Inside') = Cardinality(Inside) + 1
BY InsideFinite, FS_AddElement

LEMMA Leave ==
    ASSUME NEW r \in Inside, Inside' = Inside \ {r}
    PROVE  Cardinality(Inside') = Cardinality(Inside) - 1
BY InsideFinite, FS_RemoveElement

LEMMA SlotInit == Init => SlotInv
<1> SUFFICES ASSUME Init PROVE SlotInv
  OBVIOUS
<1>1. Inside = {}
  BY DEF Init, Inside
<1>2. Cardinality(Inside) = 0
  BY <1>1, InsideEmpty
<1>3. QED
  BY <1>1, <1>2 DEF Init, SlotInv

\* The writer's steps leave the readers where they are; what matters is that a
\* timeout finds no reader with a slot, so that ReleaseSemaphores(MAX) is exact.
LEMMA SlotWriter ==
    ASSUME Prompt, TypeOK, SlotInv, WriterNext
    PROVE  SlotInv'
<1>1. Inside' = Inside
  <2>1. UNCHANGED rpc
    BY DEF WriterNext, WriteCall, StartWriter, StartWrite, AcquireSlot,
           AllAcquired, AcquireTimeout, GiveUpWrite, OpenDoor1, WritePixels,
           WriteStamp, CloseDoor1, CloseTimeout, OpenDoor2, StartClose,
           FinishClose, LeaveChannel, WriterCrash, readerVars
  <2>2. QED
    BY <2>1, InsideSame
<1>2. Cardinality(Inside') = Cardinality(Inside)
  BY <1>1
<1>3. ~Slow
  BY DEF Prompt, Slow
<1> USE <1>1, <1>2, <1>3, InsideFinite, InsideEmpty DEF TypeOK, SlotInv,
        WriterPCs, WriterGoto, CanTimeOut
<1>4. CASE StartWriter
  <2>1. CASE ~HandlesOpen
    <3>1. Inside = {}
      BY <2>1 DEF Inside, HandlesOpen
    <3>2. QED
      BY <1>4, <2>1, <3>1 DEF StartWriter
  <2>2. CASE HandlesOpen
    BY <1>4, <2>2 DEF StartWriter
  <2>3. QED
    BY <2>1, <2>2
<1>5. CASE StartWrite
  BY <1>5 DEF StartWrite
<1>6. CASE AcquireSlot
  BY <1>6 DEF AcquireSlot
<1>7. CASE AllAcquired
  BY <1>7 DEF AllAcquired
<1>8. CASE AcquireTimeout
  BY <1>8 DEF AcquireTimeout
<1>9. CASE GiveUpWrite
  BY <1>9 DEF GiveUpWrite, ReleaseAllSlots
<1>10. CASE OpenDoor1
  BY <1>10 DEF OpenDoor1
<1>11. CASE WritePixels
  BY <1>11 DEF WritePixels
<1>12. CASE WriteStamp
  BY <1>12 DEF WriteStamp
<1>13. CASE CloseDoor1
  BY <1>13 DEF CloseDoor1
<1>14. CASE CloseTimeout
  BY <1>14 DEF CloseTimeout
<1>15. CASE OpenDoor2
  BY <1>15 DEF OpenDoor2, ReleaseAllSlots
<1>16. CASE StartClose
  BY <1>16 DEF StartClose
<1>17. CASE FinishClose
  BY <1>17 DEF FinishClose
<1>18. CASE WriterCrash
  BY <1>18 DEF WriterCrash
<1>20. CASE LeaveChannel
  BY <1>20 DEF LeaveChannel, ReleaseSlot
<1>19. QED
  BY <1>4, <1>5, <1>6, <1>7, <1>8, <1>9, <1>10, <1>11, <1>12, <1>13, <1>14,
     <1>15, <1>16, <1>17, <1>18, <1>20 DEF WriterNext, WriteCall

\* A reader's step takes one slot, gives back the one it has, dies with it, or
\* has nothing to do with slots.
LEMMA SlotReader ==
    ASSUME Prompt, TypeOK, MutexInv, SlotInv, NEW r \in Readers, ReaderNext(r)
    PROVE  SlotInv'
<1> USE InsideFinite, InsideEmpty
<1>1. UNCHANGED <<wpc, got>>
  BY DEF ReaderNext, ReadCall, OpenReader, StartRead, PassDoor1, Door1Timeout,
         ReturnMutex, PassDoor2, Door2Timeout, ReadUnmapped, ReadPixels,
         ReadStamp, FinishRead, CloseReader, ReaderCrash, MapMemory, LeaveReader,
         writerVars
<1>2. CASE Inside' = Inside /\ UNCHANGED sem
  <2>1. Cardinality(Inside') = Cardinality(Inside)
    BY <1>2
  <2>2. QED
    BY <1>1, <1>2, <2>1 DEF SlotInv, TypeOK
<1>3. CASE r \in Inside /\ Inside' = Inside \ {r} /\ (ReleaseSlot \/ UNCHANGED sem)
  <2>1. Cardinality(Inside') = Cardinality(Inside) - 1
    BY <1>3, Leave
  <2>2. QED
    BY <1>1, <1>3, <2>1 DEF SlotInv, TypeOK, ReleaseSlot
<1>4. CASE PassDoor2(r)
  <2>1. r \notin Inside /\ Inside' = Inside \cup {r} /\ sem > 0 /\ sem' = sem - 1
    BY <1>4 DEF PassDoor2, ReaderGoto, Inside, TypeOK
  <2>2. Cardinality(Inside') = Cardinality(Inside) + 1
    BY <2>1, Enter
  <2>3. QED
    BY <1>1, <2>1, <2>2 DEF SlotInv, TypeOK
<1>5. CASE ReadUnmapped(r) \/ FinishRead(r)
  <2>1. r \in Inside /\ Inside' = Inside \ {r} /\ ReleaseSlot
    BY <1>5 DEF ReadUnmapped, FinishRead, ReaderGoto, Inside, TypeOK
  <2>2. QED
    BY <1>3, <2>1
<1>6. CASE ReaderCrash(r)
  <2>1. UNCHANGED sem
    BY <1>6 DEF ReaderCrash
  <2>2. Inside' = Inside \ {r}
    BY <1>6 DEF ReaderCrash, ReaderGoto, Inside, TypeOK
  <2>3. CASE r \in Inside
    BY <1>3, <2>1, <2>2, <2>3
  <2>4. CASE r \notin Inside
    <3>1. Inside' = Inside
      BY <2>2, <2>4
    <3>2. QED
      BY <1>2, <2>1, <3>1
  <2>5. QED
    BY <2>3, <2>4
<1>7. CASE OpenReader(r) \/ StartRead(r) \/ PassDoor1(r) \/ Door1Timeout(r)
           \/ ReturnMutex(r) \/ Door2Timeout(r) \/ ReadPixels(r) \/ ReadStamp(r)
           \/ MapMemory(r)
  <2>1. UNCHANGED sem
    BY <1>7 DEF OpenReader, StartRead, PassDoor1, Door1Timeout, ReturnMutex,
                Door2Timeout, ReadPixels, ReadStamp, MapMemory
  <2>2. \E pc \in ReaderPCs :
           /\ rpc' = [rpc EXCEPT ![r] = pc]
           /\ pc \in {"pixels", "stamp", "leave"} <=> r \in Inside
    BY <1>7 DEF OpenReader, StartRead, PassDoor1, Door1Timeout, ReturnMutex,
                Door2Timeout, ReadPixels, ReadStamp, MapMemory, ReaderGoto, Inside,
                TypeOK, ReaderPCs
  <2>3. Inside' = Inside
    BY <2>2 DEF Inside, TypeOK
  <2>4. QED
    BY <1>2, <2>1, <2>3
<1>8. CASE CloseReader(r) \/ LeaveReader(r)
  <2>1. CASE CloseReader(r)
    BY <2>1 DEF CloseReader, Prompt
  <2>2. CASE LeaveReader(r)
    BY <2>2 DEF LeaveReader, MutexInv, Prompt
  <2>3. QED
    BY <1>8, <2>1, <2>2
<1>9. QED
  BY <1>4, <1>5, <1>6, <1>7, <1>8 DEF ReaderNext, ReadCall

LEMMA SlotStutter == SlotInv /\ UNCHANGED vars => SlotInv'
BY DEF SlotInv, Inside, vars, writerVars, readerVars

\* The writer's count and the readers with a slot never exceed the semaphore,
\* also when readers and the writer crash, the server restarts, a reader comes
\* before the first image or the mutex is abandoned.
THEOREM SlotsCorrect == ASSUME Prompt PROVE Spec => []SlotInv
<1>1. Init => SlotInv
  BY SlotInit
<1>2. TypeOK /\ MutexInv /\ SlotInv /\ [Next]_vars => SlotInv'
  BY SlotWriter, SlotReader, SlotStutter DEF Next
<1>3. QED
  BY <1>1, <1>2, TypeCorrect, PTL DEF Spec

\* A writer that has all the slots is alone, from OpenDoor1 to OpenDoor2.
LEMMA WriterAlone ==
    TypeOK /\ SlotInv /\ wpc \in {"open", "pixels", "stamp", "close", "publish"}
        => Inside = {} /\ sem = 0
<1> SUFFICES ASSUME TypeOK, SlotInv,
                    wpc \in {"open", "pixels", "stamp", "close", "publish"}
             PROVE  Inside = {} /\ sem = 0
  OBVIOUS
<1>1. Cardinality(Inside) = 0 /\ sem = 0
  BY InsideFinite DEF SlotInv, TypeOK
<1>2. QED
  BY <1>1, InsideEmpty

LEMMA SlotsExclude == TypeOK /\ SlotInv => Exclusion
BY WriterAlone DEF Exclusion

\* No reader copies an image while the writer writes one
\* (CamDataInterface.h: "don't read the image while it is being written"), as
\* long as no process outlasts a timeout and no ~CamDataReader runs.
THEOREM ReadersExcluded == ASSUME Prompt PROVE Spec => []Exclusion
<1>1. TypeOK /\ SlotInv => Exclusion
  BY SlotsExclude
<1>2. QED
  BY <1>1, TypeCorrect, SlotsCorrect, PTL

-----------------------------------------------------------------------------
(* The first door, and with it the images. *)

\* The only things that go wrong: a camera that stops, a reader that could not
\* map the memory, and readers that end, though not with the mutex in hand.
Benign == Faults \subseteq {"unmapped", "readerCrash"}

ImageIInv == TypeOK /\ MutexInv /\ SlotInv /\ DoorInv /\ ImageInv /\ NewsInv

LEMMA BenignIsPrompt == Benign => Prompt /\ ~Slow
BY DEF Benign, Prompt, Slow

LEMMA ImageInit == Init => DoorInv /\ ImageInv /\ NewsInv
BY DEF Init, DoorInv, ImageInv, NewsInv, Window, Copying, Inside

\* The writer releases the mutex to open the window and only then writes; no
\* reader has a slot in the window, and when it closes every reader is owed
\* the new image.
LEMMA DoorWriter == ASSUME Benign, ImageIInv, WriterNext PROVE DoorInv'
<1> USE BenignIsPrompt DEF Benign, ImageIInv, TypeOK, MutexInv, SlotInv, DoorInv,
        Window, ReaderPCs, WriterPCs, WriterGoto, CanTimeOut, readerVars, mutexVars, memVars
<1>1. CASE StartWriter
  BY <1>1 DEF StartWriter
<1>2. CASE StartWrite
  BY <1>2 DEF StartWrite
<1>3. CASE AcquireSlot
  BY <1>3 DEF AcquireSlot
<1>4. CASE AllAcquired
  BY <1>4 DEF AllAcquired
<1>5. CASE AcquireTimeout
  BY <1>5 DEF AcquireTimeout
<1>6. CASE GiveUpWrite
  BY <1>6 DEF GiveUpWrite
<1>7. CASE OpenDoor1
  BY <1>7 DEF OpenDoor1, ReleaseMutex
<1>8. CASE WritePixels
  BY <1>8 DEF WritePixels
<1>9. CASE WriteStamp
  BY <1>9 DEF WriteStamp, ImageInv, Images
<1>10. CASE CloseDoor1
  BY <1>10 DEF CloseDoor1, CanTake, TakeMutex
<1>11. CASE CloseTimeout
  BY <1>11 DEF CloseTimeout, CanTake
<1>12. CASE OpenDoor2
  BY <1>12 DEF OpenDoor2
<1>13. CASE StartClose
  BY <1>13 DEF StartClose
<1>14. CASE FinishClose
  BY <1>14 DEF FinishClose, ReleaseMutex
<1>15. CASE WriterCrash
  BY <1>15 DEF WriterCrash, DropMutex
<1>17. CASE LeaveChannel
  BY <1>17 DEF LeaveChannel
<1>16. QED
  BY <1>1, <1>2, <1>3, <1>4, <1>5, <1>6, <1>7, <1>8, <1>9, <1>10, <1>11,
     <1>12, <1>13, <1>14, <1>15, <1>17 DEF WriterNext, WriteCall

\* A reader takes the mutex in the window only, and gives it back before
\* anything else.
LEMMA DoorReader ==
    ASSUME Benign, ImageIInv, NEW r \in Readers, ReaderNext(r)
    PROVE  DoorInv'
<1> USE BenignIsPrompt DEF Benign, ImageIInv, TypeOK, MutexInv, DoorInv, Window, ReaderPCs,
        ReaderGoto, writerVars, mutexVars, memVars
<1>1. CASE OpenReader(r)
  BY <1>1 DEF OpenReader
<1>2. CASE StartRead(r)
  BY <1>2 DEF StartRead
<1>3. CASE PassDoor1(r)
  BY <1>3 DEF PassDoor1, CanTake, TakeMutex
<1>4. CASE Door1Timeout(r)
  BY <1>4 DEF Door1Timeout, CanTake
<1>5. CASE ReturnMutex(r)
  BY <1>5 DEF ReturnMutex, ReleaseMutex
<1>6. CASE PassDoor2(r)
  BY <1>6 DEF PassDoor2
<1>7. CASE Door2Timeout(r)
  BY <1>7 DEF Door2Timeout
<1>8. CASE ReadUnmapped(r)
  BY <1>8 DEF ReadUnmapped
<1>9. CASE ReadPixels(r)
  BY <1>9 DEF ReadPixels
<1>10. CASE ReadStamp(r)
  BY <1>10 DEF ReadStamp
<1>11. CASE FinishRead(r)
  BY <1>11 DEF FinishRead
<1>12. CASE CloseReader(r)
  BY <1>12 DEF CloseReader, ReleaseMutex
<1>13. CASE ReaderCrash(r)
  BY <1>13 DEF ReaderCrash, DropMutex
<1>15. CASE MapMemory(r)
  BY <1>15 DEF MapMemory
<1>16. CASE LeaveReader(r)
  BY <1>16 DEF LeaveReader
<1>14. QED
  BY <1>1, <1>2, <1>3, <1>4, <1>5, <1>6, <1>7, <1>8, <1>9, <1>10, <1>11,
     <1>12, <1>13, <1>15, <1>16 DEF ReaderNext, ReadCall

LEMMA ImageWriter ==
    ASSUME Benign, ImageIInv, WriterNext
    PROVE  ImageInv' /\ NewsInv'
<1>0. wpc \in {"open", "pixels", "stamp", "close", "publish"}
        => Inside = {} /\ sem = 0
  BY WriterAlone DEF ImageIInv
<1> USE <1>0, BenignIsPrompt DEF Benign, ImageIInv, TypeOK, DoorInv, ImageInv,
        NewsInv, Inside, Window, Copying, Images, WriterPCs, WriterGoto, readerVars,
        mutexVars, memVars
<1>1. CASE StartWriter
  BY <1>1 DEF StartWriter
<1>2. CASE StartWrite
  BY <1>2 DEF StartWrite
<1>3. CASE AcquireSlot
  BY <1>3 DEF AcquireSlot
<1>4. CASE AllAcquired
  BY <1>4 DEF AllAcquired
<1>5. CASE AcquireTimeout
  BY <1>5 DEF AcquireTimeout
<1>6. CASE GiveUpWrite
  BY <1>6 DEF GiveUpWrite
<1>7. CASE OpenDoor1
  BY <1>7 DEF OpenDoor1
<1>8. CASE WritePixels
  BY <1>8 DEF WritePixels
<1>9. CASE WriteStamp
  BY <1>9 DEF WriteStamp
<1>10. CASE CloseDoor1
  BY <1>10 DEF CloseDoor1
<1>11. CASE CloseTimeout
  BY <1>11 DEF CloseTimeout
<1>12. CASE OpenDoor2
  BY <1>12 DEF OpenDoor2
<1>13. CASE StartClose
  BY <1>13 DEF StartClose
<1>14. CASE FinishClose
  BY <1>14 DEF FinishClose
<1>15. CASE WriterCrash
  BY <1>15 DEF WriterCrash
<1>17. CASE LeaveChannel
  BY <1>17 DEF LeaveChannel
<1>16. QED
  BY <1>1, <1>2, <1>3, <1>4, <1>5, <1>6, <1>7, <1>8, <1>9, <1>10, <1>11,
     <1>12, <1>13, <1>14, <1>15, <1>17 DEF WriterNext, WriteCall

LEMMA ImageReader ==
    ASSUME Benign, ImageIInv, NEW r \in Readers, ReaderNext(r)
    PROVE  ImageInv' /\ NewsInv'
<1>0. wpc \in {"open", "pixels", "stamp", "close", "publish"}
        => Inside = {} /\ sem = 0
  BY WriterAlone DEF ImageIInv
<1> USE <1>0, BenignIsPrompt DEF Benign, ImageIInv, TypeOK, DoorInv, ImageInv,
        NewsInv, Inside, Window, Copying, Images, ReaderPCs, ReaderGoto, writerVars,
        mutexVars, memVars
<1>1. CASE OpenReader(r)
  BY <1>1 DEF OpenReader
<1>2. CASE StartRead(r)
  BY <1>2 DEF StartRead
<1>3. CASE PassDoor1(r)
  BY <1>3 DEF PassDoor1, CanTake, TakeMutex
<1>4. CASE Door1Timeout(r)
  BY <1>4 DEF Door1Timeout
<1>5. CASE ReturnMutex(r)
  BY <1>5 DEF ReturnMutex
<1>6. CASE PassDoor2(r)
  BY <1>6 DEF PassDoor2
<1>7. CASE Door2Timeout(r)
  BY <1>7 DEF Door2Timeout
<1>8. CASE ReadUnmapped(r)
  BY <1>8 DEF ReadUnmapped
<1>9. CASE ReadPixels(r)
  BY <1>9 DEF ReadPixels
<1>10. CASE ReadStamp(r)
  BY <1>10 DEF ReadStamp
<1>11. CASE FinishRead(r)
  BY <1>11 DEF FinishRead
<1>12. CASE CloseReader(r)
  BY <1>12 DEF CloseReader
<1>13. CASE ReaderCrash(r)
  BY <1>13 DEF ReaderCrash
<1>15. CASE MapMemory(r)
  BY <1>15 DEF MapMemory
<1>16. CASE LeaveReader(r)
  BY <1>16 DEF LeaveReader
<1>14. QED
  BY <1>1, <1>2, <1>3, <1>4, <1>5, <1>6, <1>7, <1>8, <1>9, <1>10, <1>11,
     <1>12, <1>13, <1>15, <1>16 DEF ReaderNext, ReadCall

LEMMA ImageStutter ==
    DoorInv /\ ImageInv /\ NewsInv /\ UNCHANGED vars
        => DoorInv' /\ ImageInv' /\ NewsInv'
BY DEF DoorInv, ImageInv, NewsInv, Window, Copying, Inside, vars, writerVars,
       readerVars, mutexVars, memVars

LEMMA ImageIInvCorrect == ASSUME Benign PROVE Spec => []ImageIInv
<1>1. Init => DoorInv /\ ImageInv /\ NewsInv
  BY ImageInit
<1>2. TypeOK /\ MutexInv /\ SlotInv /\ (DoorInv /\ ImageInv /\ NewsInv) /\ [Next]_vars
        => (DoorInv /\ ImageInv /\ NewsInv)'
  BY DoorWriter, DoorReader, ImageWriter, ImageReader, ImageStutter
     DEF Next, ImageIInv
<1>3. Spec => [](TypeOK /\ MutexInv) /\ []SlotInv
  BY BenignIsPrompt, TypeCorrect, SlotsCorrect
<1>4. QED
  BY <1>1, <1>2, <1>3, PTL DEF Spec, ImageIInv

\* What ReadNextImage returns is one image, not the pixels of one and the time
\* stamp of another.
THEOREM ImagesAreWhole == ASSUME Benign PROVE Spec => []ReadsWhole
<1>1. ImageIInv => ReadsWhole
  <2> SUFFICES ASSUME ImageIInv, NEW r \in Readers, rpc[r] = "leave"
               PROVE  img[r].pixels = img[r].stamp
    BY DEF ReadsWhole
  <2>1. r \in Inside
    BY DEF Inside
  <2>2. wpc # "stamp"
    BY <2>1, SlotsExclude DEF ImageIInv, Exclusion
  <2>3. QED
    BY <2>2 DEF ImageIInv, ImageInv
<1>2. QED
  BY <1>1, ImageIInvCorrect, PTL

\* "Clients only read each image once": ReadNextImage returns newer images only.
THEOREM ImagesAreNew == ASSUME Benign PROVE Spec => []ReadOnce
<1>1. ImageIInv => ReadOnce
  <2> SUFFICES ASSUME ImageIInv, NEW r \in Readers, rpc[r] = "leave"
               PROVE  img[r].pixels > read[r]
    BY DEF ReadOnce
  <2>1. r \in Inside
    BY DEF Inside
  <2>2. wpc # "stamp"
    BY <2>1, SlotsExclude DEF ImageIInv, Exclusion
  <2>3. QED
    BY <2>1, <2>2 DEF ImageIInv, ImageInv, NewsInv, TypeOK, Images
<1>2. QED
  BY <1>1, ImageIInvCorrect, PTL

-----------------------------------------------------------------------------
(* The channel implements FrameChannel. *)

LEMMA ChannelStepWriter ==
    ASSUME Benign, ImageIInv, WriterNext
    PROVE  Channel!Next \/ UNCHANGED <<stamp, read>>
<1> USE DEF Benign, ImageIInv, TypeOK, DoorInv, ImageInv, Images, WriterGoto,
        readerVars, memVars
<1>1. CASE WriteStamp
  <2>1. stamp' \in Nat /\ stamp' > stamp /\ UNCHANGED read
    BY <1>1 DEF WriteStamp
  <2>2. QED
    BY <2>1 DEF Channel!Next, Channel!Publish
<1>2. CASE StartWriter
  BY <1>2 DEF StartWriter
<1>3. CASE ~WriteStamp /\ ~StartWriter
  BY <1>3 DEF WriterNext, WriteCall, StartWrite, AcquireSlot,
           AllAcquired, AcquireTimeout, GiveUpWrite, OpenDoor1, WritePixels,
           CloseDoor1, CloseTimeout, OpenDoor2, StartClose,
           FinishClose, LeaveChannel, WriterCrash
<1>4. QED
  BY <1>1, <1>2, <1>3

LEMMA ChannelStepReader ==
    ASSUME Benign, ImageIInv, NEW r \in Readers, ReaderNext(r)
    PROVE  Channel!Next \/ UNCHANGED <<stamp, read>>
<1>1. CASE FinishRead(r)
  <2>1. r \in Inside
    BY <1>1 DEF FinishRead, Inside
  <2>2. wpc # "stamp"
    BY <2>1, SlotsExclude DEF ImageIInv, Exclusion
  <2>3. img[r].pixels = stamp /\ stamp > read[r]
    BY <1>1, <2>1, <2>2 DEF FinishRead, ImageIInv, ImageInv, NewsInv, TypeOK, Images
  <2>4. Channel!Deliver(r)
    BY <1>1, <2>3 DEF FinishRead, Channel!Deliver, memVars
  <2>5. QED
    BY <2>4 DEF Channel!Next
<1>2. CASE ~FinishRead(r)
  BY <1>2 DEF ReaderNext, ReadCall, OpenReader, StartRead, PassDoor1,
       Door1Timeout, ReturnMutex, PassDoor2, Door2Timeout, ReadUnmapped,
       ReadPixels, ReadStamp, CloseReader, ReaderCrash, MapMemory, LeaveReader,
       ReaderGoto, memVars
<1>3. QED
  BY <1>1, <1>2

\* Seen through the time stamp in memory and the images returned, writer and
\* readers are the one-place channel that hands every reader whole images, each
\* at most once and in order.
THEOREM ChannelImplemented == ASSUME Benign PROVE Spec => ImplementsChannel
<1>1. Init => Channel!Init
  BY DEF Init, Channel!Init
<1>2. ImageIInv /\ [Next]_vars => [Channel!Next]_<<stamp, read>>
  <2>1. UNCHANGED vars => UNCHANGED <<stamp, read>>
    BY DEF vars, memVars, readerVars
  <2>2. QED
    BY <2>1, ChannelStepWriter, ChannelStepReader DEF Next
<1>3. QED
  BY <1>1, <1>2, ImageIInvCorrect, PTL
     DEF Spec, ImplementsChannel, Channel!Spec, Channel!chanVars

-----------------------------------------------------------------------------
(* What a crash costs. *)

\* A slot is neither free, nor counted by the writer, nor in a reader's hands.
SlotLost == sem + got + Cardinality(Inside) < MaxSem

\* A slot is lost only by a crash that has not been paid for, and a write fails
\* only while one is lost; the failing call puts it back.
CostInv ==
    /\ wpc = "idle" => got = 0
    /\ wpc = "failed" => got < MaxSem
    /\ failed <= crashes
    /\ SlotLost => failed < crashes

LEMMA CostInit == Init => CostInv
<1> SUFFICES ASSUME Init PROVE CostInv
  OBVIOUS
<1>1. Cardinality(Inside) = 0
  <2>1. Inside = {}
    BY DEF Init, Inside
  <2>2. QED
    BY <2>1, InsideEmpty
<1>2. QED
  BY <1>1 DEF Init, CostInv, SlotLost

LEMMA CostWriter == ASSUME Benign, ImageIInv, CostInv, WriterNext PROVE CostInv'
<1> DEFINE n == Cardinality(Inside)
<1>1. n' = n
  <2>1. UNCHANGED rpc
    BY DEF WriterNext, WriteCall, StartWriter, StartWrite, AcquireSlot,
           AllAcquired, AcquireTimeout, GiveUpWrite, OpenDoor1, WritePixels,
           WriteStamp, CloseDoor1, CloseTimeout, OpenDoor2, StartClose,
           FinishClose, LeaveChannel, WriterCrash, readerVars
  <2>2. QED
    BY <2>1, InsideSame
<1>2. n \in Nat /\ (n = 0 <=> Inside = {})
  BY InsideFinite, InsideEmpty
<1>3. ~HandlesOpen => n = 0
  <2>1. ~HandlesOpen => Inside = {}
    BY DEF Inside, HandlesOpen
  <2>2. QED
    BY <1>2, <2>1
<1>4. /\ sem \in 0..MaxSem /\ got \in 0..MaxSem /\ sem + got + n <= MaxSem
      /\ wpc = "off" => got = 0
      /\ wpc \in {"open", "pixels", "stamp", "close", "publish"} => got = MaxSem
      /\ wpc = "failed" => sem = 0 /\ n = 0
      /\ failed \in Nat /\ crashes \in Nat
  BY <1>2 DEF ImageIInv, TypeOK, SlotInv
<1>5. /\ wpc = "idle" => got = 0
      /\ wpc = "failed" => got < MaxSem
      /\ failed <= crashes
      /\ sem + got + n < MaxSem => failed < crashes
  BY DEF CostInv, SlotLost
<1>6. SUFFICES /\ wpc' = "idle" => got' = 0
               /\ wpc' = "failed" => got' < MaxSem
               /\ failed' <= crashes'
               /\ sem' + got' + n < MaxSem => failed' < crashes'
  BY <1>1 DEF CostInv, SlotLost
<1> HIDE DEF n
<1> USE <1>2, <1>4, <1>5 DEF WriterGoto
<1>7. CASE StartWriter
  BY <1>3, <1>7 DEF StartWriter
<1>8. CASE StartWrite
  BY <1>8 DEF StartWrite
<1>9. CASE AcquireSlot
  BY <1>9 DEF AcquireSlot
<1>10. CASE AllAcquired
  BY <1>10 DEF AllAcquired
<1>11. CASE AcquireTimeout
  BY <1>11 DEF AcquireTimeout, CanTimeOut
<1>12. CASE GiveUpWrite
  BY <1>12 DEF GiveUpWrite, ReleaseAllSlots
<1>13. CASE OpenDoor1
  BY <1>13 DEF OpenDoor1
<1>14. CASE WritePixels
  BY <1>14 DEF WritePixels
<1>15. CASE WriteStamp
  BY <1>15 DEF WriteStamp
<1>16. CASE CloseDoor1
  <2>1. owner # Abandoned
    BY DEF ImageIInv, DoorInv
  <2>2. QED
    BY <1>16, <2>1 DEF CloseDoor1
<1>17. CASE CloseTimeout
  <2>1. ~Slow /\ owner \notin {NoOne, Abandoned, Writer} /\ rpc[owner] # "signalled"
    BY <1>17, BenignIsPrompt DEF CloseTimeout, CanTake
  <2>2. owner \in Readers
    BY <2>1 DEF ImageIInv, TypeOK
  <2>3. QED
    BY <2>1, <2>2 DEF ImageIInv, DoorInv
<1>18. CASE OpenDoor2
  BY <1>18 DEF OpenDoor2, ReleaseAllSlots
<1>19. CASE StartClose
  BY <1>19 DEF StartClose, Benign
<1>20. CASE FinishClose
  BY <1>20 DEF FinishClose, ImageIInv, DoorInv
<1>21. CASE WriterCrash
  BY <1>21 DEF WriterCrash, Benign
<1>23. CASE LeaveChannel
  BY <1>23 DEF LeaveChannel, ImageIInv, DoorInv
<1>22. QED
  BY <1>7, <1>8, <1>9, <1>10, <1>11, <1>12, <1>13, <1>14, <1>15, <1>16, <1>17,
     <1>18, <1>19, <1>20, <1>21, <1>23 DEF WriterNext, WriteCall

LEMMA CostReader ==
    ASSUME Benign, ImageIInv, CostInv, NEW r \in Readers, ReaderNext(r)
    PROVE  CostInv'
<1>1. UNCHANGED <<wpc, got, failed>>
  BY DEF ReaderNext, ReadCall, OpenReader, StartRead, PassDoor1, Door1Timeout,
         ReturnMutex, PassDoor2, Door2Timeout, ReadUnmapped, ReadPixels,
         ReadStamp, FinishRead, CloseReader, ReaderCrash, MapMemory, LeaveReader,
         writerVars
<1>2. /\ sem \in 0..MaxSem /\ got \in 0..MaxSem
      /\ sem + got + Cardinality(Inside) <= MaxSem
      /\ failed \in Nat /\ crashes \in Nat /\ Cardinality(Inside) \in Nat
  BY InsideFinite DEF ImageIInv, TypeOK, SlotInv
<1>3. ASSUME sem' + Cardinality(Inside') = sem + Cardinality(Inside),
             UNCHANGED crashes, sem' \in Int, Cardinality(Inside') \in Int
      PROVE  CostInv'
  BY <1>1, <1>2, <1>3 DEF CostInv, SlotLost
<1>4. CASE PassDoor2(r)
  <2>1. r \notin Inside /\ Inside' = Inside \cup {r} /\ sem > 0 /\ sem' = sem - 1
        /\ UNCHANGED crashes
    BY <1>4 DEF PassDoor2, ReaderGoto, Inside, ImageIInv, TypeOK
  <2>2. Cardinality(Inside') = Cardinality(Inside) + 1
    BY <2>1, Enter
  <2>3. QED
    BY <1>2, <1>3, <2>1, <2>2
<1>5. CASE ReadUnmapped(r) \/ FinishRead(r)
  <2>1. r \in Inside /\ Inside' = Inside \ {r} /\ ReleaseSlot /\ UNCHANGED crashes
    BY <1>5 DEF ReadUnmapped, FinishRead, ReaderGoto, Inside, ImageIInv, TypeOK
  <2>2. Cardinality(Inside') = Cardinality(Inside) - 1
    BY <2>1, Leave
  <2>3. Cardinality(Inside) > 0
    BY <1>2, <2>1, InsideEmpty
  <2>4. sem' = sem + 1
    BY <1>2, <2>1, <2>3 DEF ReleaseSlot
  <2>5. QED
    BY <1>2, <1>3, <2>1, <2>2, <2>4
<1>6. CASE ReaderCrash(r)
  <2>1. crashes' = crashes + 1
    BY <1>6 DEF ReaderCrash
  <2>2. QED
    BY <1>1, <1>2, <2>1 DEF CostInv, SlotLost
<1>7. CASE OpenReader(r) \/ StartRead(r) \/ PassDoor1(r) \/ Door1Timeout(r)
           \/ ReturnMutex(r) \/ Door2Timeout(r) \/ ReadPixels(r) \/ ReadStamp(r)
           \/ MapMemory(r)
  <2>1. UNCHANGED <<sem, crashes>>
    BY <1>7 DEF OpenReader, StartRead, PassDoor1, Door1Timeout, ReturnMutex,
                Door2Timeout, ReadPixels, ReadStamp, MapMemory
  <2>2. \E pc \in ReaderPCs :
           /\ rpc' = [rpc EXCEPT ![r] = pc]
           /\ pc \in {"pixels", "stamp", "leave"} <=> r \in Inside
    BY <1>7 DEF OpenReader, StartRead, PassDoor1, Door1Timeout, ReturnMutex,
                Door2Timeout, ReadPixels, ReadStamp, MapMemory, ReaderGoto, Inside,
                ImageIInv, TypeOK, ReaderPCs
  <2>3. Inside' = Inside
    BY <2>2 DEF Inside, ImageIInv, TypeOK
  <2>4. QED
    BY <1>2, <1>3, <2>1, <2>3
<1>8. CASE CloseReader(r) \/ LeaveReader(r)
  BY <1>8 DEF CloseReader, LeaveReader, Benign, ImageIInv, MutexInv
<1>9. QED
  BY <1>4, <1>5, <1>6, <1>7, <1>8 DEF ReaderNext, ReadCall

LEMMA CostStutter == CostInv /\ UNCHANGED vars => CostInv'
BY DEF CostInv, SlotLost, Inside, vars, writerVars, readerVars

\* A reader that dies with a slot in hand makes one call of WriteNextImage fail
\* and no more, however many slots and readers there are: two that die before
\* the next write cost one image together.
THEOREM CrashesCostOne == ASSUME Benign PROVE Spec => []CrashCostsOneImage
<1>1. ImageIInv /\ CostInv /\ [Next]_vars => CostInv'
  BY CostWriter, CostReader, CostStutter DEF Next
<1>2. CostInv => CrashCostsOneImage
  BY DEF CostInv, CrashCostsOneImage
<1>3. QED
  BY <1>1, <1>2, CostInit, ImageIInvCorrect, PTL DEF Spec
=============================================================================
