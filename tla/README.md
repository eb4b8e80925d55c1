# ShowcaseRobotERIC: a verification project

TLA+ models, TLC runs and TLAPS proofs about the program under `src/`: the
sensor software of a showcase robot (`src/DEASLDEV/Sensors`), its motor
controller (`src/MCU`) and the script that drives it (`src/tests/teleop.py`).

## 1. The system

A *camera server* grabs images from FireWire cameras and puts them in shared
memory; *AR tag localizers* read them from there, compute the pose of the tags
and multicast it. Other processes exchange protobuf messages over TCP, UDP
multicast and named pipes; a microcontroller triggers the cameras and another
one turns serial commands into motor pulses. Everything is Win32 C++: threads,
kernel objects, overlapped I/O.

| component | state | operations | meets |
|---|---|---|---|
| shared-memory image channel `Camera/CamDataInterface` | mutex ("first door"), semaphore of 10 ("second door"), image and time stamp in shared memory | `WriteNextImage`, `ReadNextImage`, constructors, destructors | camera server (writer), localizers (readers): separate processes |
| camera server `CameraServerFirefly` | running flag, single-instance mutex, seconds counted of the cycle timer | main loop, console handler, `InitHandles`, `GetCycleTimestampFromImage` | cameras, the channel |
| AR tag localizer `ARtagLocalizer` | image and time stamp last read, frame counter, camera parameters, filters per tag | `InitCommon`, `RunRealtime`, `RunCamera`, `getPose`, `LogPose` | the channel, the pipe server, an `ActInterfaceReceiver`, multicast sender |
| bounded queue `Utility/FixedQueue.h` | ring of `size` slots, `begin`, `end` | `push`, `pop_oldest`, `newest`, `oldest`, `n_meas`, `[]` | filters of the localizer |
| synchronous FireWire camera `Camera/sync1394camera` | grab thread, current image under `camgrab_cs`, sequence number from the trigger, gains and shutter | constructor, grab thread, `getCurrentFrame`, `UDPCallback`, auto shutter | trigger MCU (UDP), camera driver |
| UDP image/actuation clients `udpCameraBroadcaster`, `camSyncClient`, `externTrigger`, `actuationInterface` | packet counters, drop counters | receive callbacks, start/stop | `udp_connection` |
| UDP `Network/udp_connection` | socket, listener thread, callback | constructor, `set_callback`, destructor | all UDP clients |
| TCP server `Network/tcp_server` | I/O completion port, 10 client slots | accept, read, write, close, completion threads | callers' callbacks |
| TCP client `Network/tcp_connection` | socket, Winsock reference | connect, send, receive, close | |
| pipe server and client `ProtoBufPipes` | client list, connection thread, overlapped I/O | connect, read/write completion routines, `WriteMessage` | localizer and others |
| multicast `ARtagLocalizer/Network/ProtoBuffMulticast` | socket | send, receive | localizer |
| packet logger `Network/PacketLogger.h` | file under a critical section | `Log` | UDP clients |
| logged camera `Camera/loggedsynccam` | cursor over files | open, next image | offline runs |
| JPEG encoder `Camera/simplejpeg` | bit packer, Huffman tables | encode | image broadcaster |
| white balance `Camera/AutoWhiteBal` | gains | one adjustment | camera |
| motor controller `src/MCU/erictherobot_brain` | command buffer, motor pulses, LED | `loop` | teleop over serial |
| teleop `src/tests/teleop.py` | speed and turn | timer, keys, close | motor controller over serial |

What is hard: two doors between processes that can time out, crash or be
restarted at any point; completions and callbacks of overlapped I/O that arrive
after the object they belong to has been reused; threads started before the
state they read is set; serial frames with bytes lost; counters over sequence
numbers that wrap, repeat or go back; ring indices after a wrap.

`src/DEASLDEV/Resources` is third-party code and data and is not modelled.

How the parts meet, as far as they are modelled:

- The camera server's main loop is the only writer of the image channel, every
  localizer is a reader of it. `CamData` is the code of both sides,
  `FrameChannel` what it promises as long as the server is not killed.
  `CameraServer` and `Localizer` are the two programs above it; there servers
  are killed, so that they do not use the promise but a memory of their own,
  which is written in two steps.
- The localizer's main thread also calls `WriteMessage` (`PipeServer`), next to
  the connection thread of the same pipe server; it sends what `Localizer` calls
  a message.
- The localizer's `InitCommon` makes an `ActInterfaceReceiver` and sets its
  callback afterwards: a receiver of the kind `"feedback"` in `UdpReceiver`,
  whose listener thread runs already.
- The queue is used inside one thread of the localizer; the motor controller and
  teleop share nothing but a serial line; the TCP server and the synchronous
  camera belong to applications that are not part of the repository, which is
  why their users do as they like in the models.

What makes each part correct:

| part | it is correct if |
|---|---|
| image channel | no reader copies an image while it is overwritten; what a reader gets is whole, and newer than what it got before; an image once begun becomes readable; no call blocks for ever, whatever dies |
| camera server | one process at a time serves; it stops when its console is closed; time stamps count on when the cycle timer starts again |
| localizer | each pose is sent with the time of its picture, also after a failed read; different images count once |
| motor controller | short commands are executed whole; the last frame sent is what the motors do; closing teleop stops the robot |
| bounded queue | it is a queue that forgets its oldest value, and its accessors say what is in it |
| pipe server | each client in the list gets every message since it joined, whole and in order, whatever other clients do; clients that left are dropped; new ones are accepted |
| UDP connection | a packet handler runs only when it is there, not while it is being set up, and nothing that is not set is called |
| drop counters | dropped = missing, less what came twice or late |
| TCP server | a slot belongs to one client until that client's last completion; accepting goes on until the listening socket is closed, all slots are taken or a peer that waits has gone |
| synchronous camera | the destructor outlives the thread, uses only what a camera set up for one trigger has, and returns once all cameras were set up |

The hazards, each at its line and with the properties that watch it, are in
`PROJECT.json`.

## 2. The models

Where a name of the model is a name of the code, it means that. In every
module an action is one step that other processes cannot see the inside of: a
call of a kernel object, a copy into or out of shared memory, one byte of a
serial line, one `WriteFile`. A mutant (`Action_WhatIsWrong`) stands next to the
action it spoils; it is not part of any specification.

### CamData: the image channel

`FrameChannel` says what the header promises: one place with the newest image,
each reader takes a whole image at most once and in order. `CamData` is the code, and
implements it with `published <- stamp`.

| state | code |
|---|---|
| `sem`, `owner`, `depth` | `hAccessSem`; `hMutex` with its owner and recursion count |
| `pixels`, `stamp` | the two parts of the shared memory, as numbers of the image they are from |
| `wpc`, `got`, `frame` | the server between two calls on kernel objects (`closing`, `leaving`: in the destructor), `i` of `AcquireSemaphores`, images grabbed |
| `rpc`, `img`, `read` | the same for each reader (`waiting`: in the constructor, for the memory; `deaf`: with no mutex and no semaphore), its `destImg` and `timestamp`, the last image returned |
| `failed`, `crashes` | history only |

| actions | code |
|---|---|
| `StartWriter`, `StartClose`, `FinishClose`, `LeaveChannel`, `WriterCrash` | `init`, `~CamDataWriter`, `ExitProcess` in the console handler |
| `StartWrite` ... `OpenDoor2` | `WriteNextImage`, with `AcquireSlot`, `AllAcquired`, `AcquireTimeout` for `AcquireSemaphores` |
| `OpenReader`, `MapMemory`, `CloseReader`, `LeaveReader`, `ReaderCrash` | the reader's constructor, destructor, end of its process |
| `StartRead` ... `FinishRead` | `ReadNextImage` |

Time is left out. A wait that times out is an action that is enabled when what
it waits for is not there, and either the process that has it counts as slow
(`"slow" \in Faults`) or no live process is about to give it back. So without
`"slow"` the runs say what holds as long as every live process keeps to the
timeouts. The other members of `Faults` switch on what may go wrong besides:
the safety properties need most of them off; `camdata_close` shows why for one,
section 5 says it of the others.
A reader's constructor opens mutex and semaphore once, whether they exist or
not, and then waits for the memory without a limit: who starts before the server
(`"early"`) is `waiting`, and `deaf` when the server comes. The kernel keeps
each object as long as a process has it open (`HandlesOpen`, `MemoryOpen`).
`ReleaseSemaphores(hAccessSem, MAX_SEM_COUNT)` fails on a semaphore that is not
empty and then releases as many slots as an uninitialized variable says: a
nondeterministic number (`ReleaseAllSlots`).

### MotorSerial: teleop and the motor controller

`line` is the serial line, byte by byte; `buf`, `idx`, `draining` are `cmd_buf`,
`cmd_idx` and the loop that skips a command that is too long; `pulse` and `led`
are the outputs, `echo` the command last printed after `OK:`. `OnTimer` and
`OnClose` are teleop's handlers (the mouse position is the input, the conversion
to two speed bytes is done as the script does it, over a common denominator),
`Type` is a terminal, `LoseByte` the line. `ReadByte`, `ReadCommand`, `TooLong`
and `Drain` are the branches of `loop()` for one byte. The buffer's contents
survive a command, as in the code, which is why short commands see old bytes.
`MAX_CMD_LENGTH` counts the terminator: a command of five bytes with it is
already too long.

### FixedQueue: the bounded queue

`BoundedFifo` is a queue of at most `span` values. `FixedQueue` has the array
`data` of `span + 1` slots and the indices `begin` and `end`; `items` is the
queue they stand for. `push`, `pop_oldest`, `reset` are actions, the accessors
are operators. `history` remembers whether anything was popped since the last
reset, because `operator[]` and `n_meas` are right only until then.

### PipeServer: the pipe server

| state | code |
|---|---|
| `tpc`, `event`, `instance`, `running` | the connection thread, the event of its `OVERLAPPED`, the pipe instance it waits on and the client that connected to it |
| `pipes`, `owner`, `info` | `pipes`, `hPipesMutex`, the `ClientInfo` of each client: not yet made, live, deleted |
| `mpc`, `msg`, `i`, `unread` | `WriteMessage`, number of the message, loop index, what must be read from before a pending write completes |
| `client`, `chan`, `got` | each client, what is in its pipe, what it has read |
| `since`, `left`, `missed` | history only |

`CreatePipe` ... `ReleasePipes` are `ConnectionThread` with
`CreateAndConnectInstance`; `StartWrite` ... `FinishWrite` are `WriteMessage`,
client after client from the end of the list, two writes for each. `Connect`,
`Read`, `Leave` are the other processes; they do as they like, and nothing makes
them read. `ConnectPipe` contains the `PulseEvent` that signals nobody: the only
thread that waits for this event is the one that calls it.

### CameraServer and Localizer: the programs on both sides of the channel

`CameraServer` is the process around `WriteNextImage`, `Localizer` extends it
with the process around `ReadNextImage`. Between them is the memory as it is,
written in two steps: `Write` copies the image, `WriteStamp` its time stamp, and
the server may be killed in between. Of the two doors only one thing is kept: a
reader is not in the memory while a server that runs writes it. So the
localizer's read may fail, bring a new image, the same one again (a killed
server left the doors open) or a new one with the old stamp.

| state | code |
|---|---|
| `pc`, `handler`, `isRunning` | main and `ConsoleCtrlHandler` of each process that is started, the flag they share |
| `holders` | processes with a handle of `InstanceMutex`: its name exists while there is one |
| `now`, `shot` | clock of the bus; when each camera took its last image |
| `cycleTimeSeconds`, `incrementCycleTimeSeconds` | the globals of `GetCycleTimestampFromImage` |
| `published`, `memory` | the image in the memory and the time stamp there |
| `opened` | the localizer has the memory open, so that it outlives the servers |
| `timestamp`, `oldtimestamp`, `frameNum`, `camNum`, `message` | `RunRealtime` and `RunCamera` of the localizer |
| `zero`, `steady`, `taken`, `held`, `late`, `lost`, `processed`, `last`, `alike` | history only; `taken` and `held` are when the pictures in memory and in `img` were taken, by which server, and whether the stamp is their own (`whole`) |

| actions | code |
|---|---|
| `InitHandles`, `Refuse`, `SetConsoleCtrlHandler`, `Setup`, `Loop`, `Cleanup`, `Enter` | `main` of the server, from the mutex to "Press Enter"; `Setup` makes the memory anew unless the localizer has it open |
| `CloseConsole`, `ExitProcess` | the console handler, which gives main four seconds |
| `Grab`, `GrabFails`, `Write`, `WriteStamp` | one camera's `RetrieveBuffer` with `CycleTimestamp`; the write, whose result is ignored |
| `Open`, `Iterate`, `RunCamera` | `CamDataReader`'s constructor; one turn of the localizer's loop, camera by camera; the result of the read is ignored |

Time is a number of ticks, `Rate` of them in a second, and the timer's seconds
start again after `Wrap` of them (128 in the code). Cameras may take images in
any order of time among them: `steady` remembers whether they did so in order
and at least one in a second, which is what counting a wrap needs.

### TcpServer: the TCP server

| state | code |
|---|---|
| `slot`, `sock`, `cbk` | `clients[]`: `state`, `sock`, whether the callbacks are set |
| `conn`, `home`, `reads`, `unread` | the clients' sockets as the kernel sees them: state, the slot whose overlapped structure their reads name, pending reads, data not read yet |
| `listening`, `asking`, `accepts` | `acc_sock`, the peers that wait, the sockets with an `AcceptEx` pending |
| `accOv` | `ov_accept.client`, which every accept shares |
| `accCbk` | whether `acc_cbk` is set |
| `port` | the completion port's queue |
| `pc`, `cur`, `data`, `back` | each listener thread and the user's, inside the handlers: its client, what it has read, where it goes on after `do_read` |
| `user` | the slots whose client was handed to `acc_cbk` and whose `close_cbk` was not called yet |
| `made`, `sent`, `heard`, `odd` | history, and what was unusual so far |

`TakeSlot` ... `AcceptFails` are `start_accept`, `HandleAccept` and `Tell` are
`handle_accept` with the test of `acc_cbk` and its call apart, `ReadPending` ... `ReadFails` are `do_read`, `Deliver` is the
call of `read_cbk`, `EndClient` and `FreeEntry` are `close_client`;
`TakeClose`, `TakeAccept`, `TakeRead` are the switch of the thread's loop over
the completion's key; `BeginListen`, `Close`, `EndListen` with
`ClearCallback`, `Destroy`, `DestroySocket`, `Join` the user's calls. The destructor looks at one slot per
step, with the critical section held (`Locked`: nobody takes a slot meanwhile,
but the rest of the handlers do not ask for it). Data is the set of pieces that
peers have sent, so that a read takes what is there. `CompleteAccept`, `BreakAccept` and `CompleteRead`
are the kernel, `PeerConnects`, `PeerSends`, `PeerEnds` the other side. A peer
that waits may have gone by the time it is taken: the pending accept completes
with an error (`BreakAccept`), or `AcceptEx` fails at once (`AcceptFails`), and
in either case nothing starts the next accept. A thread that calls an `acc_cbk`
cleared since its test may crash, with the process.
`odd` records the events the properties are conditional on (a call that is over
at once, `close()`, a socket that cannot be made), and bounds them.

### UdpReceiver: listener thread and receivers

| state | code |
|---|---|
| `upc` | the user's thread, from the receiver's constructor to its destructor |
| `running`, `thread`, `pkt` | `udp_connection`'s thread and the packet it has |
| `conCbk`, `userCbk`, `userArg` | the two delegates, empty, half assigned or set, and the argument |
| `sequenceNumber`, `packetCount`, `dropCount` | the receiver's counters |
| `base`, `got`, `early` | history only |

A receiver is of one of two kinds: `"counter"` (`UDPCameraReceiver`,
`CamSyncReceiver`) or `"feedback"` (`ActInterfaceReceiver`, `eTrigReceiver`).
The network is the choice of a number in `Receive`: any packet may be lost,
repeated, late. A delegate is two words (`FastDelegate.h`) that are assigned one
after the other while the listener runs (`SetFunction`, `SetThis`). `Join` is
the wait of 200 ms and `TerminateThread` after it, wherever the thread is then.

### SyncCamera: the synchronous FireWire camera

`life` is what happens to each object (`InitCamera`'s steps, the destructor's),
`udp` the connections it made, `thread` its `CamThread`, `config` the parameters
that decide its way; `allCamInit`, `allStop` are the shared flags. Members that
a constructor does not set start with any value of `Junk`. Making a camera again
after a failed `InitCamera` is part of it. `Acquire` is one call of
`AcquireImageEx`: it ends within the frame timeout of a second, with an image or
with an error, and either way the loop goes on to its test of `isRunning`.

## 3. The runs

| run | instance | what it shows |
|---|---|---|
| `camdata_safety` | 4 images, 3 readers, 2 slots, 2 crashes | exclusion, whole and new images, one failed write per crashed reader, refinement of `FrameChannel`; readers may crash with a slot in hand or fail to map the memory |
| `camdata_live` | 3 images, 2 readers, no fault | images become readable, a signalled reader reads |
| `camdata_faults` | 2 images, 2 readers, 1 crash or destructor, every fault | types; every call returns but for a reader's constructor without a server; nobody acquires the mutex a third time |
| `camdata_close` | one fault | a violation, see section 5 |
| `pipeline_core` | 2 server processes, 2 cameras, a timer of 3 s, 5 ticks | one server at a time, its end, time stamps across the wrap, frame counter; with reads that fail, repeat or bring half an image of a killed server (7.3 million states) |
| `motor_lossy` | 2 frames or commands and the stop frame, 2 losses | last frame, short commands, stop |
| `queue_core` | 4 places, 3 values | refinement of `BoundedFifo`, accessors |
| `queue_index` | 3 places | a violation, see section 5 |
| `pipe_core` | 3 connections, 2 messages, quota 2 | frames, list, dropping, returning, accepting |
| `tcp_core` | 2 threads, 2 slots, 3 sockets, 2 connections, 1 piece of data, 1 unusual event | owner of a slot, what ends accepting, data once, end of the threads (6.7 million states) |
| `udp_core` | numbers to 4, 5 packets, counters that start again after 2 | drop counter, callbacks that are not there |
| `sync_core` | 2 cameras, every setting, any initial value of a bool | what the destructor uses, and that it returns |

Why these bounds are enough to see what matters:

- Two slots instead of ten let readers hold none, some or all of them while the
  writer is in the middle of acquiring; three readers are more than there are
  slots. The proofs hold for every number. Three images are what a reader needs
  to skip one; four let two writes fail and another succeed. Readers are
  interchangeable, and so are server processes; symmetry is used in
  `camdata_safety` and `pipeline_core`, which check no liveness.
- `SomeTargets` are the mouse positions whose speed bytes equal the terminator,
  left, right or both, that make a frame look like another command, and the
  extreme ones. Two frames before the stop frame let the first one leave bytes
  in the buffer for the second, and the second for the last one; two losses can
  take a terminator and a byte of the next frame. `SomeCommands` has the lengths
  around the limit.
- The queue has no counter that grows: its run covers every state of a queue of
  four places, wrapped in every way.
- Three connections let one client be erased between two others in one loop, or
  one leave and one stop reading while a third connects. A quota of two is one
  message: the body of the second one has to wait for the reader.
- One crash in `camdata_faults` is any of the five kinds (three ends of a process, two destructors), at any step; the waits
  it leaves behind are what the run is about. Two readers let one be the
  abandoned mutex's owner, or deaf, while the other goes on.
- Two servers are one that serves beside one that is refused or comes after it.
  With five ticks a timer of three seconds starts again once with images before
  and after; two cameras can take their images on both sides of that moment.
  `Rate` is 1 there, so that order inside a second does not occur in the run:
  the proof of `PosesHaveTheirTime` has it for every rate.
- Two TCP threads can hold two completions of one client, or an accept and a
  read; two slots can be taken by connections while the accept finds none; three
  sockets are two connections and the accept after them. One unusual event is
  what each property survives or says it does not.
- A window of 2 instead of 100 lets the counters start again twice in five
  packets; numbers to 4 can be skipped, repeated and late. `Junk` has a value
  inside the window and one outside.
- Two cameras let one be deleted while the other is not set up yet, set up, or
  deleted too; every combination of settings is an initial state.

`CHECK_DEADLOCK FALSE` appears where the system may really stop: the port is
closed; all clients of the pipe are gone; every server process and the localizer
have ended; the TCP server is destroyed or its peers want nothing more; the
receiver is deleted, or crashed; all cameras are deleted.

### Fairness

- `CamData`: both processes run their calls to the end and call again, and a
  server that ended is started again (weak fairness). Without that last one a
  constructor would wait for ever, which it may. The kernel serves the threads
  that wait for a mutex or a semaphore in turn, so a wait whose object becomes free again and again is served: strong
  fairness for the steps that end such a wait. Nothing is assumed of crashes.
- `MotorSerial`: the controller does nothing but its loop, the window is closed
  some day.
- `PipeServer`: both threads run; waits for the list's mutex are served in turn;
  a wait in vain times out. Nothing is assumed of the clients, which is why
  `WriteReturns` has the case of a client that does not read: `GetOverlappedResult`
  is called with `bWait = TRUE` and the documented `writeTimeout` is not used.
- `SyncCamera`: the grab threads run, which includes that a call of the driver
  ends within its timeout, and a destructor that has begun is run to its end.
  That images come is not assumed. The application owes nothing else: not even
  that it sets up the other cameras, which is the case `DestructorReturns` has
  to name.

The other modules claim no liveness: a TCP peer, a network and a console may do
nothing for ever.

## 4. The proofs

Checked by the TLA+ proof system, for every value of the constants. TLC checks
the same formulas on the instances above.

`CamDataProofs`

- `TypeCorrect`: `TypeOK` and `MutexInv` (the mutex has an owner exactly when
  its recursion count is not 0), whatever the faults.
- `SlotsCorrect`, `ReadersExcluded`: from `Prompt` (no process outlasts a
  timeout and no `~CamDataReader` runs), `Exclusion`. It is not inductive: that
  the writer excludes readers while it copies depends on what it counted while
  it acquired. `SlotInv` says that free slots, slots counted and readers inside
  never add up to more than the semaphore has, and that the writer copies only
  with all of them counted. Crashes only lose slots, and the one place that puts
  lost slots back (`GiveUpWrite`) runs when nobody is inside and none is free.
- `ImagesAreWhole`, `ImagesAreNew`, `ChannelImplemented`: from `Benign` (nothing
  but unmapped or crashing readers), `ReadsWhole`, `ReadOnce` and the refinement
  of `FrameChannel`. `DoorInv` says where the mutex is: with the writer, except
  in the window between its two calls on it, and then only in the hands of a
  reader that is about to give it back; so a reader passes the first door only
  inside the window. `ImageInv` says which image is in memory and in each
  reader's hands, `NewsInv` that whoever passed the first door is owed an image
  it has not had: it must hold from the signal to the copy, across a second
  door that may open late.
- `CrashesCostOne`: from `Benign`, `CrashCostsOneImage`. Failed writes and
  crashes are counted far apart; `CostInv` connects them by the slots: one is
  lost only by a crash that no failed write has paid for yet, a write gives up
  only while one is lost, and giving up puts all of them back.

`LocalizerProofs`, for every number of processes and cameras, any timer and rate

- `TypeCorrect`.
- `OneServerCorrect`: `Handles`, every process that serves has a handle of the
  mutex, and a process gets past `InitHandles` only when there is none.
- `StopCorrect`: `Stopping`, what `isRunning` and the loop's position say about
  the images still to come once the console is closed.
- `TimesCorrect`: `PosesHaveTheirTime`, whatever servers are killed and wherever,
  for images that are whole and came steadily. `Clock` says what the two globals of
  `GetCycleTimestampFromImage` mean while images come steadily: the seconds
  counted are where the last image's cycle of the timer began, and the flag is
  up exactly in the last second of the cycle. With `Shots` (the last camera's
  image is the one at the time of the stamp), `Half` (what is in memory between
  the server's two copies) and `Poses` (image and stamp stay together through
  memory, the localizer and its messages, failed reads or not) it is inductive.
- `FramesCorrect`: `FramesCounted`. The localizer tells images apart by their
  stamps. `After` and `Older` say that the pictures a server takes are later than
  those in memory and with the localizer if they are its own, `Whole` where an
  image can lack its stamp, `Newer` that what is in memory is later than what the
  localizer has or the same, `Blank` what holds before the first image. `Counted`
  says what is counted and whether the image in hand will be. A server may be
  killed between its two copies: the image with the old stamp is then one of
  those that may be left out (`alike`), and none is counted twice.

`MotorSerialProofs`, for any mouse positions, commands, frames and losses

- `TypeCorrect`: the index stays in `cmd_buf`, and both speeds are bytes.
- `StopCorrect`: `StopStops`. `Ending` follows the stop frame through the line:
  its last bytes are those of the stop frame after a terminator, and when fewer
  are left than the frame has, the controller has read exactly the rest of it.
  Before the window is closed it says that the line ends in a terminator, or
  the controller stands between two commands.
- `EchoCorrect`, from `NoEmptyCommand`: `ShortCommandsEchoed`. On a line that lost nothing
  `Following` says that the line ends with the last frame, after a terminator, and
  that the controller is between two commands when it gets there, whatever too
  long commands and cut frames came before; `Short`, that the buffer begins with
  what was read of the frame since. An empty command is ignored by the
  controller and never echoed, hence the hypothesis.
- `PlainFramesCorrect`, from `NoTypedFrames`: `LastPlainFrameRuns`, from
  `Following` and `Plain`, which has the case of a right speed that looks like
  the terminator: the frame is then executed one byte early, with that byte in
  `cmd_buf[2]`, and the real terminator is an empty command.

`FixedQueueProofs`

- `TypeCorrect`: the indices stay in the array, so the asserts hold.
- `FifoImplemented`: every push, pop and reset maps to the one of `BoundedFifo`.
  The invariant is only the type; the work is in the lemmas that relate a slot
  to its position in `items` before and after a step, across the wrap.
- `QueriesCorrect`, from `EndsCorrect` and `IndexCorrect`: the accessors. The
  second needs `PushOnlyInv`: until something is popped `begin` moves only when
  the queue is full, so that the wrong formula of `n_meas` is used only where it
  happens to be right.

`PipeServerProofs`

- `CoreCorrect`, `TypeCorrect`: the types, with `LockInv` (who has the mutex
  and that the loop's index is an entry while that entry is written to) and
  `InstanceInv` (the event is set for a client that has connected, which has no
  entry yet).
- `ListCorrect`: `ListIsLive`. `ListInv` is the same by index; it needs
  `InstanceInv`, because only a client that was not in the list may be appended.
- `DroppedCorrect`: `GoneClientsAreDropped`. It says something between two calls
  of `WriteMessage`; `GoneInv` says what holds inside one, entry by entry: the
  entries the loop has passed are up to date with this message, those before it
  with the last one, and the one a write waits for is up to date too.
- `MessagesCorrect`: `EveryClientGetsEveryMessage`. `FramesInv` says for each
  entry what has been written to it at every point of the loop, also when other
  entries were erased: all frames with the message's for the entries passed,
  without them for those to come, and half of them for the one in hand.

`UdpReceiverProofs`, for every window, any numbers and any number of packets

- `TypeCorrect`, with the bound on `packetCount`.
- `CrashesCorrect`: `CrashesOnlyEarly`. `Phases` relates the user's thread to what is
  assigned of the delegates, and a packet that is handled to the moment it came.
- `DropsCorrect`: `DropsAreMissing`. The code adds differences of consecutive
  numbers; `Counts` is their telescoped sum, `dropCount = sequenceNumber - base -
  Len(got)`. That this is the number of missing packets less the superfluous
  ones is a fact about finite sets, proved from it when the newest packet is the
  last one counted.

`TcpServerProofs`, for every number of threads, slots, sockets, connections,
pieces of data and unusual events

- `TypeCorrect`: the types, with `Linked` (whatever is pending, completed or in
  a thread's hands names a slot that has a socket, and that socket names the
  slot) and `Phases` (nothing is accepted once the listening socket is closed).
- `EndCorrect`: `ThreadsWillEnd`. A socket that is closed puts its own
  completions after those that end the threads; `EndInv` adds that before the
  destructor runs there is none of these and no thread has ended. `ClosingTaken`
  and `ClosingPosted` say what taking or adding an entry does to a count of the
  port.
- `HeardOnce`: `NothingHeardTwice`, whatever is closed or fails, as long as no
  call is over at once. `DataInv`: a piece of data is at one socket, in one
  completion or in one thread's hands, and the user has not had it; or it is
  nowhere, and the user had it once at most.
- `HandlersCorrect`: `OneHandlerPerSlot`, which is far from inductive.
  `OneAccept` says that the next accept is in one place only (pending,
  completed, or a thread that will start it); `PendingInv`, which slot that is
  and that it waits; `ConnectedInv`, that exactly the connected slots have a
  thread, a completed or a pending read, and one of these; `CleaningInv`, that a
  slot which is being freed is freed by one thread. Each of the four is kept
  only because of the others: that the accept's slot is not the one a thread is
  closing, for instance, is the state of the slot.
- `AcceptingCorrect`: `AcceptingGoesOn`, a property of steps, from the same
  invariant: the accept, its completion and the thread that starts the next one
  hand on to each other. What ends the chain is named in the property and
  nothing else does: the listening socket is closed, no slot is free, or the
  peer that is taken has gone.

`SyncCameraProofs`, for every number of cameras

- `TypeCorrect`.
- `CleanupCorrect`: `CleanupIsSafe`, which is about cameras whose `InitCamera`
  succeeded and that use one trigger. `Progress` says what `InitCamera` has made
  at each of its steps and when it has returned, failed or not. For the other
  cameras it says only what they may lack; section 5 has what they come to.

Assumptions: those on the constants in the modules, and `Prompt`, `Benign`,
`NoEmptyCommand` and `NoTypedFrames`, which are hypotheses of their theorems;
TLC's instances satisfy them.

Left to TLC:

- Everything about liveness, which the proof system does not do here:
  `CallsReturn`, `SignalledReaderReads`, `EveryImagePublished`, `ComesToStop`,
  `WriteReturns`, `ClientsAreServed`, `DestructorReturns`.

## 5. Where the code and its comments disagree

Each is the counterexample of a run.

1. `camdata_close`: `~CamDataReader` gives back a slot that `ReadNextImage` gave
   back already, and a reader gets in while the writer writes.
2. `queue_index`: `n_meas` of a wrapped queue is right only when it is full;
   after a pop `operator[]` returns values popped long ago.

Seen on the way, without a run of their own (a property's condition or a fault
that is switched off stands for each):

- Image channel. When a reader keeps its slot for more than a second,
  `WriteNextImage` gives up and releases all ten slots, the reader's included
  (`CamDataInterface.cpp:13`, `:181`, `"slow"`); its next call overwrites the image
  under the reader. After the server ended, the first reader to wait for the
  mutex becomes its owner, takes `WAIT_ABANDONED` for a failed wait and never
  gives it back; it passes the first door at once from then on and returns one
  image again and again (`:84`, `"abandon"`). A reader can be given the blank
  memory before the first image (`"early"`); `~CamDataWriter` leaves the mutex
  free and all slots but one taken (`"writerClose"`); a server killed
  between its two copies (`:189`, `"writerCrash"`) leaves the new image with the
  stamp of the one before, and doors in whatever position; readers get that image
  when another server has opened them, and a localizer then sends its poses with
  the old time and does not count it as a new one (`whole` in
  `PosesHaveTheirTime`, `alike` in `FramesCounted`). A client started before the server has NULL for mutex and
  semaphore (`:37`): its constructor returns when the server comes, and none of
  its reads ever succeeds (`"early"`, `deaf`). The header says nothing of either.
- Camera server. `main` sets `isRunning` after the console handler is installed
  (`CameraServerFirefly.cpp:328`): a console closed before that is closed in
  vain, and the process is killed four seconds later (`lost`). The wrap of the
  cycle timer is counted over the images of all cameras: when they come out of
  order around it, the time stamps are off by 128 s from then on (`steady`).
- Motor controller. The terminator `.` is searched in raw speed bytes
  (`erictherobot_brain.ino:85`): a left speed of 46 cuts the frame, and the
  right motor gets a byte of an earlier command. `MAX_CMD_LENGTH` counts the
  terminator (`:16`, `:77`), so that a command of exactly this length is dropped.
- Pipe server. A client that opens the pipe between `CreateNamedPipe` and
  `ConnectNamedPipe` is never served, and no client is after it: the
  `PulseEvent` meant for this case wakes nobody (`ProtobufPipeServer.cpp:232`).
  A client that connects while `WriteMessage` has the list's mutex for longer than
  the thread waits (`:112`) is not added, its event is reset, and no client after
  it is served either (`missed`). The documented `writeTimeout` is not used
  (`:281`): a client that does not read keeps `WriteMessage` waiting, with the
  mutex, until it reads or leaves.
- TCP server. Accepting ends for good when all slots are taken at the moment it
  would start again (`tcp_server.cpp:164`), and when a peer that waited has reset
  its connection by the time it is taken (`:345`; a comment there calls it "for
  now"); the listening socket stays open. `acc_cbk` is tested and then called
  (`:231`) while `end_listen` may clear it in between: the call is then one of
  NULL, if the build reads the member again (`Tell`, `crashed`). A read that is
  over at once is handled there and once more with its completion (`:251`);
  `close()` frees a slot whose read is pending, and the aborted completion then
  closes whoever has it (`:310`). Both are `odd`. The socket of an accept that is
  pending when the server is destroyed may not be closed.
- UDP receivers. A packet that comes while the callback is being set is handed
  to half a delegate (`udp_connection.cpp:499`); feedback before
  `SetFeedbackCallback` calls an empty one (`actuationInterface.cpp:38`). The
  destructor terminates the listener thread 200 ms after it asked it to end,
  wherever it is (`udp_connection.cpp:210`), also inside the user's callback; no
  property of the model can say what that breaks, since it is the user's.
- Synchronous camera. With `syncEnabled` and `eTrigEnabled` the destructor
  deletes connections `InitCamera` never makes (`sync1394camera.cpp:197`); a
  camera that was never set up is deleted by an `isRunning` nobody set. Until all
  cameras are set up a grab thread waits for that without a look at `isRunning`
  (`:27`): the destructor of a camera that is deleted before waits for ever.

## 6. What is not modelled

Inside the modelled parts: kernel objects that cannot be created (the code
prints and goes on), messages longer than the pipe server's buffer, messages
that clients send to it (no caller in the repository sets a receive callback),
its destructor (no caller destroys it), copying a queue (it copies every
member), time as a number except for the cycle timer, failing set-up of Winsock,
`send` of the TCP server (it blocks and changes nothing), the senders of UDP
packets (one send per call).

Whole parts:

- TCP client (`tcp_connection`): one thread, blocking calls, a socket and a
  reference to Winsock; no second actor meets it. (Its `close` calls
  `WSACleanup`, a reconnect does not call `WSAStartup` again.)
- Vision, pose filters, auto shutter, white balance and the JPEG transform:
  floating point code. `AutoWhiteBal` decrements an unsigned gain before it is
  compared with its minimum: an arithmetic slip that a unit test finds.
- The JPEG encoder's bit packer: a pure function without a hazard of order; an
  encoder's tables make up most of it.
- Packet logger, logged camera, multicast of poses, display test: no state but a
  file, a socket or a pin.
- Generated code, `FastDelegate.h`, `src/DEASLDEV/Resources`: not the project's
  own. Protobuf, OpenCV, ARToolKit and their tests under `Resources` are nearly
  all of the repository's lines (about 180,000 of 188,000), so that the share of
  *all* lines the models stand for stays small whatever is modelled; of the
  project's own control code they cover the components above.

## 7. Plan

Done: all modules of section 2 with their runs, the proofs of section 4.

Left, in this order:

1. The pipe server's destructor beside its thread, which sets `running` after
   the destructor may have cleared it (`ProtobufPipeServer.cpp:30`).
2. `Localizer` over `CamData` itself instead of a memory of its own, on a small
   instance.
3. The gains of `AutoWhiteBal` as integers with their width.
