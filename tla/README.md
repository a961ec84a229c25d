# zwdev: a verification project for the Z-Wave gateway daemon

`zwdevd` is a single-threaded gateway daemon. It drives a Z-Wave controller module over a serial
line, keeps the devices of its network, and takes requests from a console and from the cloud
(ubus). This directory holds TLA+ modules of its core and of its libraries, TLC configurations that check them on small
instances, and proofs, checked by TLAPS, that hold for every instance. `PROJECT.json` says which
lines of the source each definition stands for.

- [1. The system](#1-the-system)
- [2. Plan](#2-plan)
- [3. The modules and the code](#3-the-modules-and-the-code)
- [4. The runs](#4-the-runs)
- [5. Bounds](#5-bounds)
- [6. Fairness](#6-fairness)
- [7. What is proved](#7-what-is-proved)
- [8. What is only model-checked, and what is not modelled](#8-what-is-only-model-checked-and-what-is-not-modelled)
- [9. Where the code departs from what it says](#9-where-the-code-departs-from-what-it-says)

## 1. The system

One thread runs everything. `main.c` (`api_test`) registers three descriptors (serial port, console,
ubus) and then loops over `timer_advance` and `file_event_poll`. Every function of the layers below
runs to its end from a byte that came, a timer that expired, or a call of the layer above. So
"concurrency" here is the order in which bytes, timers and calls come, and the state that one
callback leaves for the next.

```
   console (cmd.c)     cloud (uproto.c, zwave.c)
          \ app_util_push_cmd, app_push /
               app layer (app.c)      cmdq, subcmdq, msgq; smApp + a submachine; 10 ms timer
      api_call |            ^ app_util_push_msg
               api layer (api.c)      qSend, qSendBack, qRecv; smApi + a machine per command;
  session_send |            ^         1 ms beat timer, 3 s timer of CmdZWaveSendData
               session.c, frame.c     qSend, frame in flight, 1 s timer | byte parser, 200 ms timer
        bytes  |            ^
               Z-Wave module (serial line)
```

| component | state | operations | who it talks to | what is hard |
|---|---|---|---|---|
| send side: `session.c`, send half of `frame.c` | queue of frames, frame in flight, its timer, `trycnt` | `session_send`; an ACK, NAK or CAN byte; the timer | called by the api layer, calls it back with `send_over_cb`, which frees the frame | an answer does not say which frame it answers; retries; a return code that is ignored; two pops per frame that is over |
| receive half of `frame.c` | parser state, buffer, its timer | one byte; the timer | gives buffers to the api layer, answers to the send side | lost, changed and stray bytes; a buffer handed over exactly once; the width of `char` |
| api layer: `api.c`, `statemachine.c`, `lockqueue.c` | three event queues, `smApi`, the machine of the running command, two timers | `api_call`; a byte; the beat timer; the 3 s timer | frames down, messages up | one event is handled per byte or beat, so a decision made when a byte comes is used when its event is handled; calls are put back while another runs; a nested step inside an error transition |
| app layer: `app.c` and what `cmd.c`, `zwave.c`, `classcmd.c` push | three queues, `smApp` and one submachine, step timer, the devices | `app_run` every 10 ms; requests; messages; the online check | calls down, messages from below | the timer is not set while a call is under way; events are queued apart from the command they belong to; replies that come late or never |
| main loop: `timer.c`, `file_event.c`, `main.c` | sorted linked list of timers, table of descriptors | `timer_set`, `timer_cancel`, `timer_advance`, `file_event_poll` | calls every handler | handlers change the list while it is walked; the sleep in `poll` is computed before |
| attribute store: `classcmd.c`, `hashmap.c` | a hash map of hash maps, a flash file | set, get, report, save | app layer, cloud | stale values, a removal in a probe chain, a failing step of several |
| cloud protocol: `uproto.c`, `system.c` | the ubus context, a queue of messages | dispatch of set, get and control, responses, reports | app layer, ubus | messages for handlers that are not there; partial failure of a set |
| console: `cmd.c`, `parse_argv.c` | input descriptor | one line | app layer | a line without an end; arguments |
| serial port: `serial.c`, `transport.c` | descriptor | read and write with timeouts | frame.c | short reads and writes |
| queues between threads: `list.c`, `lockqueue.c`, `cond.c`, `mutex.c` | a doubly linked list, a counting condition | push, pop, wait, wake | the daemon's layers use the queue from one thread, `test.c` from two | the size is read without the lock; the last pop resets both ends |
| other libraries: `buffer.c`, `conf_io.c`, `async.c`, `filesystem_monitor.c` | a list of buffers; a JSON tree and two files; a timer per operation; watches of inotify | see section 3 | not linked into the daemon | partial trims, a kill during a save, a restarted operation, events about files that have changed again |

What makes each component correct:

- **send side**: every frame handed in is given back exactly once, as acknowledged only if the module
  has it, after at most four writes; a freed frame is neither queued nor in flight; an idle line
  means an empty queue.
- **receive side**: a frame that reached a hunting parser whole is delivered whole and acknowledged (if a
  `char` holds its length, section 9); no byte inside a frame counts as an answer; each buffer is given
  away once.
- **api layer**: every call is started once the calls cease, ends and is reported to the app layer as
  itself; calls that wait while another runs are neither lost nor doubled; queued events always
  have a timer that works them off.
- **app layer**: every command is taken up and ends; no wake-up is lost; events reach the submachine
  they were queued for; one submachine at a time, in step with `smApp`.
- **main loop**: timers fire in the order of their deadlines, none late because of the sleep in
  `poll`; every ready descriptor gets its callback.
- **attribute store**: it holds what a device reported last, and that agrees with the device once all that
  was asked is answered; what no function wrote is not told (but for the battery, section 9); the map behaves as a dictionary whatever is put and removed, also during a walk.
- **cloud protocol**: each request is answered once, a get behind the report it asked for; what waits
  goes out.
- **libraries**: what was put into a queue, list or byte queue comes out, in order; no wake-up is lost; an
  operation times out at its own deadline; a restart gives back what was saved last; a watcher watches
  the file that is at its path.

The hazards, each at its line and with the properties that would show it, are in `PROJECT.json`.

## 2. Plan

In the order of importance; the models of all points are written.

1. `Session` (send half of frame.c under session.c), `SendService` (what it promises), `SessionProofs`.
2. `FrameReceive` (receive half of frame.c) and `FrameReceiveProofs`.
3. `ApiMachines` (the table of command machines), `Api` (api.c over an abstract session) and `ApiProofs`.
4. `App` (app.c over any api layer).
5. `Gateway`, the composition of `App` and `Api`, and `GatewayProofs`: the theorems of `App`, which it
   carries over to the composition by refinement.
6. `Timers` (the list) and `MainLoop` (timers and descriptors together).
7. `Hashmap` (the algorithms), `HashmapUse` (any calls and walks) and `Dictionary` (what it promises).
8. `ClassCmd` (the attribute store over hash maps), `Uproto` (the bus) over it, and `Console` (command
   lines) over both.
   `StoreProofs` and `ConsoleProofs` follow this split: the hash map as a dictionary, and what is built on it.
9. `LinkedList` and, over it, `LockQueue`; `Async` over `Timers`; `ConfIo`; `FileMonitor`; `Buffer`. They
   share no state and share one run. `LibraryProofs` has the theorems about these parts and those of point 6.

## 3. The modules and the code

Every action is one function of the program from its entry to its return, with all it calls.
Definitions carry the name of the function they translate where there is one. Operators commented
`mutant of X` are plausible slips of the code; no specification uses them. They are what each
property was tried against: with the slip in place, the property must fail.

**`Session`**: `session_send`, `frame_receive_answer` (the ACK, NAK and CAN branches of
`frame_receive_step`), `frame_send_timer_callback` and the module's `ModuleAnswers`. All three of the
first end in `session_send_over_callback`, which is `send_over`: `Retry` (lines 92-111) or `Over` (pop
the frame that is over, pop the next and send it, give the first back). `held`, `outcome`, `sent` and
`got` are history. The line is two sequences that may lose what is put on them; frames are model
values.

**`SendService`**: the promise of the session layer, without queue, line or timer: a frame is
accepted, perhaps delivered, and given back as acknowledged only if it was delivered.

**`FrameReceive`**: `frame_receive_step` with one operator per parser state, and
`frame_receive_timer_callback`. A frame is its length byte and how many payload bytes are stored. The
line sends frames byte by byte; bytes may be lost or changed, and others may come between frames. Sizes
and `char` follow the code: where `char` is signed, so is the length, and an allocation may fail. The
step that then reads through the NULL frame ends the daemon (`alive`). `lenByte` is history.

**`ApiMachines`, `Api`**: `ApiMachines` holds the tables `smCmd*` of api.c (which state each command's
machine starts in and goes to on E_DATA and E_ACK) and the message each state pushes. `Api` is
`handlerOneEvent` and the handlers of `smApi`, driven by `api_call`, by bytes and by the two timers.
`running_transition_error` calls `api_beat(1)` inside its own step; that inner step is the action
`NestedBeat`, before which nothing else may happen (`nested`). Payloads are left out; the session
below is its queue and the frame in flight.

**`App`**: `app_run` with one operator per return of the function (`RunMessage`, `RunWaits`,
`RunSubEvent`, `RunOver`, `RunCommand`, `RunNothing`), the requests of the console and the cloud, the
message from the api layer, and the online check. `E_SUB_COMMAND` is `E_SUB_ATTR`: the enumerators
have the same value, and the model keeps that. The api layer is *any*: every message at any time.

**`Gateway`**: `App` and `Api` together. A step of `app_run` that makes api_calls is a step of both;
a step of the api layer that has something to tell also appends to `msgq`.

**`Timers`, `MainLoop`**: `Timers` keeps the list by its `next` pointers and `time_ms`, as the code
does, and walks it through the pointers. `timer_advance` reads the clock only when it must, and its
handlers may set and cancel any timer. `MainLoop` adds the descriptor table, `poll` and the dispatch
of callbacks.

**`Hashmap`**: hashmap.c as operators on a record: a probe (`Find`) looks at half the table at most, a
removal moves entries back along the chain by the bit test of `HASHMAP_INDEX_LE`, a put may rehash
twice. **`HashmapUse`**: any sequence of calls, with a walk by `hashmap_foreach` or by an
iterator during which entries go. **`Dictionary`** is what it implements.

**`ClassCmd`**: `memory` is the hash map of hash maps of classcmd.c, made of `Hashmap`'s operators, with
the flash file behind it. A device's answer is formatted (`class_cmd_save`) and stored; a set pushes the
event of the set and of the get that reads it back; a list shows what the store has and asks
for what it lacks. The app layer is abstract here: it hands on the events of `subcmdq` in order. The node id of a report goes
through a `char` (`AsChar`), so the store has ids that no device has (`Dids`).
The rows of `classes` stand for the kinds of rows the table has: with and without a set, a get, a
report function, listed or not.

**`Uproto`**: a message of the bus from its arrival to the reports and results it pushes, by the tables
of uproto.c; `uproto_run` sends one per 10 ms. A message for whose attribute the table has no function
calls NULL and ends the daemon (`CallsNull`, `alive`). **`Console`**: `parse_argv` over the characters
of a line (a line of blanks ends the daemon, too), the commands that change something, and the composition of console, bus,
store, app layer and devices.

**`LinkedList`, `LockQueue`**: list.c by its `prev` and `next`, items freed and used again; a producer and
a consumer as in test/test.c, a step being what one mutex protects. **`Async`**: the operations of
async.c, each over its timer in `Timers`. **`ConfIo`**: a JSON tree is a function from paths
to values; a save takes four steps, between which the process may be killed. **`FileMonitor`**:
the list of watchers, the kernel's watches and its queue of events; what is idealised of inotify is in
section 8. **`Buffer`**: the buffers with
their sizes, and beside them the bytes that are due. **`Null`** declares the NULL they share.

**`MCSession`, `MCFrameReceive`, `MCApi`, `MCGateway`, `MCMainLoop`, `MCConsole`, `MCLibrary`** give the
constants of the runs. `MCLibrary` also puts the six library parts side by side: a behaviour is
one of one part, the others staying at their start.
**`SessionProofs`, `FrameReceiveProofs`, `ApiProofs`, `GatewayProofs`, `StoreProofs`, `ConsoleProofs`,
`LibraryProofs`** hold the theorems, **`SequenceFacts`** the lemmas on recursive functions and sequences
that the last three share.

## 4. The runs

| run | question | result |
|---|---|---|
| `queue` | Three frames handed in at a time, a line that loses frames and answers, answers that come after the timeout. Do queue, frame in flight and `trycnt` agree? | `IdleMeansDrained`, `NoFreedFrame`, `InFlightIsHeadOrGone`, `ReportedFromLine`, and `InFlightSettles`: what was written ends |
| `single` | One frame at a time, a module that answers in time. Is the session layer the service it promises? | it implements `SendService` with its liveness |
| `lost` | Is any frame handed in given back? | **no**, from the third waiting frame on (section 9) |
| `parse` | Frames whole, damaged and cut, with stray bytes | `FrameWhereNeeded`, `NoAnswerInsideFrame`, `WholeFrameDelivered`, `HandedOverOnce`: the parser finds the next frame, gives each buffer away once, delivers whole frames whose length a `char` holds, and which lengths end the daemon |
| `reliable` | The commands of the app layer over a module that answers, made again and again: is each call started once they cease, ended and told as itself? | `OneFrameAtATime`, `WaitingIsRestored`, `MessageOfCurrent`, `QueuedIsStarted`, `RunningEnds` |
| `hostile` | Frames refused or timed out, replies missing or late, a stop, a reset | `QueuedHasBeat`, `ReceivedAtOnce`, `CallOnce` still hold |
| `silence` | App over api, a device that answers, answers late or never | `WorkHasTimer`, `MachinesAgree`, `ClassEventsHaveMachine` |
| `serve` | App over api, a device that answers and reports | `CommandsEnd`: every command is taken up and ends, the five calls of the initialisation included |
| `stuck` | Does a get or set that is not answered end? | **no** (section 9) |
| `store` | Console and cloud list, get and set; devices, one of them with an id no `char` holds, answer and change by themselves | `StoreIsLastReport`, `SettledStoreAgrees`, `NothingUnwrittenIsListed`, `OneResultEach`, `MessagesGoOut` |
| `library` | The library parts, each under any calls, and a kill, another thread or the file system where it has one | `OwnTimeoutOnly` (async), `ListIsDeque` and `AllIsTaken` (lock queue), `ImplementsDictionary` and `WalkSeesAll` (hash map), `ChangesAreTold` and `RestartRestores` (configuration), `WatcherIsAtPath` (file monitor), `CopiesWhatIsDue` (byte queue) |
| `loop` | Timers set and cancelled by handlers and callbacks while the list is walked | `ListIsSorted`, `EarliestFires`, `TimersFire`, `ReadyIsCalled` |

`IdleMeansDrained` is worth a word: `session_send` ignores that `frame_send` refuses a frame while
another is in flight. That is sound only because a frame in flight always has its timer and its end
always drains the queue, which is what the property says.
`QueuedIsStarted` is about calls that cease (`CallsCease`). While they keep coming a call that was put back
can wait for ever: at the end of each command it is restored behind the newest one, which runs first and
has it put back again. Without `CallsCease` TLC finds that behaviour in `reliable`.
`NothingUnwrittenIsListed` says of the battery, which zwave.c:44-48 tells of whether or not it was read, when it is
told unwritten: flash has none and no report of it can be found. `OneResultEach` also says
which messages of the bus end the daemon, and `FrameWhereNeeded` that of the bytes that come only a length byte
without buffer does.
`ReceivedAtOnce` says that a received frame is handled in the very step that completes it; on
it rests that the decision `api_is_async_data` made is still right when it is used.

Properties that fail outside their run, and why they are not stated there: in `hostile`,
`MessageOfCurrent` fails, since an error leaves the machine of the command that was waiting in
S_RUNNING's parameter (api.c:2570); the hazards list says so. `CopiesWhatIsDue` and `WatcherIsAtPath`
name the one case each in which the code departs from the promise (section 9) and hold it to the rest.

## 5. Bounds

- `MaxTry = 4` is `SESSION_MAX_SEND_TRY_CNT`. `Window = 3` is the least at which the second pop takes a
  frame that nobody sent; `Window = 1` is how the api layer uses the session (`OneFrameAtATime`,
  checked in `reliable`). `MaxWire` bounds each direction of the line. With 1, a second frame or
  answer is lost while one is on the line, which is one of the losses the line has anyway; with 2, in
  `single`, a stale answer can meet a fresh one.
- `Lengths` has the smallest frame, one with one and one with several payload bytes, the largest that a
  signed `char` holds, one beyond it whose allocation fails, and the largest. `Noise` has every value the
  parser compares a byte with, neighbours of the length limits, and lengths on each side of where
  the allocation fails. `SignedChar` is TRUE, as in the build of the Makefile. `MaxSize` stops a frame of a
  length that no buffer has.
- `Lead` is how many bytes of an inbound frame come before its last. Each byte lets the api layer handle
  one event. 5 is exact for the shortest reply (6 bytes). With 4 the initialisation, which queues
  five calls at once, takes a reply for an unasked report and never ends; with 3, so does a single command
  behind calls that are made again. `hostile`, where commands need not end, has 2.
- `Calls` has one call for each command of the app layer in `reliable`; `hostile` has those that can
  end badly. In the Gateway runs there is one device, one attribute, and as many call identities as
  calls can be under way at a time. There and in `reliable` a call is made again, any number of
  times, when it is gone (`Reissue`).
- `MaxRequests = 2` lets a second request fall into any phase of the first (in `stuck`, where one is
  enough, 1). Requests are bounded by a counter; all else in the app layer is finite by itself.
- `loop`: three timers, so that one can be inserted between two and cancelled from the middle, three
  different deadlines, two descriptors. The clock stops at `MaxTime`, the last deadline a timer can be
  set to.

- `store`: two devices, one with the node id 200, where `char` is signed; hash functions that make all
  devices and most attributes of one collide, at the end of the table too; a flash file with one attribute; five
  messages of the bus (for another receiver, a list, a set, a get of an unknown attribute, a set of
  what can only be got) and one typed line, in any order with the reports, and one change that a device makes
  by itself. One typed line is enough to overlap with each message of the bus; a line of blanks is among them.
- `library`: two operations and deadlines up to 4; three items, four pushes; four keys in a table of four
  slots that grows to eight, two of them meeting at its last slot, so that chains wrap around; one
  subsystem, paths one and two deep; two paths and three files for the monitor, four watches; at most
  four bytes in up to three buffers of two, which is the least at which a trim takes the kept buffer and
  a part of the next.

`CHECK_DEADLOCK FALSE` is said where the system may stop: the Api and Gateway runs end when all
calls are used up and the module has nothing to send, `store` and `library` when the bounded inputs are.

## 6. Fairness

The main loop is the scheduler: it polls the descriptors and advances the timers for ever, so a byte
that is there is read and a timer that is due fires. That the loop does so is itself checked (`loop`:
`TimersFire`, `ReadyIsCalled`, from weak fairness of the steps of the loop and of the clock).

- `Session`: weak fairness of reading an answer, of the timer and of the module reading its side. None
  for `session_send`, and none about what the line loses.
- `Api`: weak fairness of the beat timer (and of the beat nested in an error transition) and of the
  bytes of a frame that has started; strong fairness of the module's acknowledgement and reply, since
  frames that come unasked go between: the module starts its answer in the end although it may send a
  report first again and again.
- `Gateway`: the same; also weak fairness of the 3 s timer of CmdZWaveSendData and of `app_run`'s
  timer, and strong fairness of `app_run` with an
  empty message queue: devices report less often than every 10 ms, the period of `app_run`. In
  `serve` devices keep reporting, and not every report is one the api layer keeps to itself: smAttr's wait ends with a report only (app.c:125, app.c:549), and
  without reports it does not end. That assumption is about the devices, not about the code.
- `store`: weak fairness of `uproto_run`, a timer that is set. `library`: of the two threads of the lock
  queue, waking and consuming; the other parts have safety properties only.
- The fairness of the `loop` run does not let timers that re-arm themselves starve the descriptors, as
  the clock of the model ends. In the program a handler that takes longer than the delay of a timer it
  sets would keep `timer_advance` from returning; no handler comes near that.

## 7. What is proved

All for every value of the constants, from the named assumptions in the modules.

**Session** (`SessionProofs`). `IInv` is `TypeOK`, the safety invariants of `queue` and one addition,
`QueuedIsFresh`: a queued frame that is not in flight has not been written. The addition is needed
because `TryBound` (writes = `trycnt` + 1) has to hold for the frame sent next, whose `trycnt` is
reset but whose writes are not; and `TypeOK` needs `TryBound`, since only it keeps `trycnt` at or
below the bound. The proof has one lemma per action, the two pops being the work: the frame at
the head, if in flight, is the one popped. From it follow `SessionTypes`, `QueueIsDrained`,
`FreedFramesAreGone`, `InFlightAtHead`, `TriesAreBounded` and the action property
`OnlyTheLineReports`. `TypeOK` and `TryBound` are not in the runs, being proved. Assumptions: `MaxTry` is positive, `NoFrame` is no frame.
`PromptLinkIsService`: where the module answers before the timer (`Prompt`), each step is a step of `SendService`
or leaves it alone. `OneOnTheLine` says why: both directions together hold one frame or answer at most, of the
frame in flight, and an ACK among them means that the module has that frame. This needs no bound on the
frames that wait, as the run of `ImplementsFairService` does, whose liveness fails with more than one.

**FrameReceive** (`FrameReceiveProofs`), for builds where `char` is signed and where it is not. `IInv` is
`TypeOK`, the invariants of `parse`, `MidFrameHasTimer` (the timer runs in the middle of a frame, but for
a length byte that has no buffer) and `CleanIsParsed`, which is what makes it inductive:
after each byte of a frame that came unharmed, in which state the parser is and how many bytes it has
stored, or, where `char` does not hold its length, that it is storing bytes beyond the end or has no
buffer. `StepKeepsParser` says what any byte does; `CleanByte` follows a clean frame from byte to
byte, one case per parser state. From it: `ParserHasTimer`, `BufferWhereNeeded`,
`CleanFramesArrive`, `PayloadIsNoAnswer` and the action property `BuffersAreHandedOver`, for every
set of lengths from 3 to 232 and of noise, and for every size of the frame's fields.

**App** (`GatewayProofs`). `IInv` is the conjunction of `TypeOK`, `WorkHasTimer`, `MachinesAgree` and
`ClassEventsHaveMachine`; it is inductive as it stands, over any api layer, any number of devices and
requests. `MachinesAgree` is what the others lean on: RunOver may go idle only with no event left,
which keeps class events with smClass, and a waiting submachine is the only state in which the timer
may be off with work left.

**Gateway** (`GatewayProofs`). `GatewayImplementsApp` shows `Spec => AppSpec`: a step of the
composition is a step `App` takes over any api layer or leaves it alone. The work is to show that what
the api layer tells in any step is one of the messages `App` allows; the tables of
`ApiMachines` are cited for that. The invariants of `App` then hold in the composition
(`GatewayTypes`, `GatewayWakesUp`, `GatewayMachinesAgree`, `GatewayClassEvents`), for
every number of devices, calls and bytes per frame.

**Api** (`ApiProofs`). `IInv` is `TypeOK` with `Machines` (which states the machine of which command
can be in), `ReceivedAtOnce`, `QueuedHasBeat`, and for each call of the app layer that it is in one of
the queues at most, and in none while it runs (`Once`). It is inductive over any link and module:
`ApiInvariant`, `ApiTypes`, `FramesAreTakenAtOnce`, `QueuesHaveBeat`, `AppCallsAreOnce`, and
`CallsAreOnce` where the api layer makes no call of its own. A handler moves a call from one queue to
the other or out of both, so the lemmas count places (`Tally`) through its appends and tails.
The rest needs a link and module that do not fail (`Reliable`: no frame refused or timed out, no
reply missing, no soft reset), which is what the run `reliable` has:
`WInv` adds that a call that was put back has one before it that restores it
(`WaitingCallsAreRestored`); `FInv`, under `NoStops` (each command that lets a second call through is called once,
since the app layer asks for no stop), that all that was handed to the session and not yet answered is the
frame smApi waits for (`FramesGoOneByOne`, `CallsAreOnceWhenReliable`, `ReportsAreOfCurrent`). In
`hostile` the last of these fails, as section 4 says, so no weaker hypothesis would do.

**Hash map** (`StoreProofs`), for any hash function and a table with at least twice as many slots as
there are keys (`Roomy`). The daemon's tables are: the map of the devices is made for 254 entries
(classcmd.c:252), which is 512 slots for 232 node ids; that of a device's attributes for 16
(classcmd.c:292), 32 slots for the 6 names of `classes`. `Good` says that each key is in one slot and
that no slot from its home to there is free. A put keeps it, since it takes the first free slot. For a
removal `LoopInv` describes the table with the hole in it: all can be found, but the entries of
the chain yet to be looked at. Here the bound matters: in a chain of at most half the table the bit
test of `HASHMAP_INDEX_LE` is the order of the slots from the chain's start on. From it: `MapIsDictionary`, a
refinement, and `WalksSeeAll`.

**Store, bus and console** (`ConsoleProofs`), each invariant of `store`, for any devices, hash functions, messages, lines and changes.
`StoreAgrees` rests on `SettleInv`: in `subcmdq` every set has a get of the same attribute behind it
(`ReadBack`), and each attribute of each device is asked for, or the last report under way has its value, or
what was told is its value. `ResultsAreOne` rests on what a handler pushes: one result or
none, the report right before it, and that nothing follows a message that ends the daemon (`FatalIsLast`). `StoreKeepsReports` and `ListIsWritten` take the two levels of hash map
as dictionaries by the lemmas of `StoreProofs`, so they assume that both tables have room
(`RoomForAll`, see above) for the devices under their ids and under those as a `char`. Nothing is assumed of
the sign of `char`; where it is signed, the daemon's 512 slots have that room for a network whose ids, those from
128 on counted twice, are 256 at most. `ListIsWritten` is about what a step pushes: `PushIsWritten` goes through the messages of
the bus and the typed lines, `Fills` says what listing may have loaded into the store before. What the list and the load of many attributes do is
defined by recursion over a sequence; `RunExists` (`SequenceFacts`) shows that such a function exists, and
`UpTo` what holds of it, by a least number at which it would not.

**Configuration store** (`LibraryProofs`), for any subsystems, parts, paths, values and number of conf_ops. `ConfInv`: the
tree, the files and the parts are JSON values, and what the change handler was told makes up the leaves of the tree;
then `TreeIsTold`. Each of `conf_remove_obj`, `conf_set_obj`, `conf_set_root_obj` and `conf_path_set` turns a tree
whose leaves were told into another one; for a new root this needs that a top-level part that is equal has no
leaf to tell, and one that is gone none left. `SavedIsRestored` adds `SaveInv`: once a save has run
`conf_update`, the tree has the part of each subsystem until the rename, the temporary file is the tree, and the startup file
has the parts of the last save. `conf_update` goes through `ops_list` by recursion, handled as in
`ListIsWritten`. Hypotheses: NULL is no JSON value (`~IsValue(NULL)`); for `SavedIsRestored` also that a file cut off is
no tree (`~IsTree(Object)`), which is how the parser finds it out, and that a full disk shows before the file is
closed (`~FlushFails`), without which it does not hold (section 9).

**Lists** (`LibraryProofs`). `QueueIsDeque`: `DequeInv` says that the links are those of a sequence of items, each
once, and the free items are the others; each push and pop is followed field by field. For timer.c
`TimersInv` says the same of a sequence that is in the order of the deadlines and has
the active timers; from it `TimerListIsSorted` and the action property
`HandlersRunInOrder`, for any handlers. The proofs of timer.c hold in both of its uses: `AsyncInv` adds what
a start, a finish and a timeout do to an operation, for `AsyncListIsSorted` and
`OperationsEndByTheirOwnTimeout`. `Walk` and `Node` go along the links by recursive functions; the least number at which
they and the sequence would differ does not exist.

**File monitor** (`LibraryProofs`). `WatchersFollowPaths`, for any paths, files and order of events. `MonitorInv`: the
watchers have watches of their own, and for each an event is waiting that will set it anew, or it is as
`WatcherIsAtPath` says. That no two watchers share a watch is what makes it inductive: handling the event
of one takes no event from another.

**Byte queue** (`LibraryProofs`). `CopiesAreDue`, for any chunks, sizes, limits and offsets. `BufferInv`: `len` is the
number of bytes in the buffers, which are those of the history until a trim has skewed them (section 9); a kept first
buffer is there. `BytesOf` joins the bytes of all buffers by a recursion of the community modules; `FlattenAppend` and
`FlattenJoin` (`SequenceFacts`) say what it is of a longer list, and from these it follows for each call what it
makes of the bytes (`PutIs`, `TrimIs`, `TrimHeadIs`, ...), whichever buffers they are in. An emptied kept buffer that is
refilled has the right bytes only when a buffer ends where the trim does; else their number is still right.

## 8. What is only model-checked, and what is not modelled

Every invariant and action property of the runs is proved. Only model-checked is all liveness
(`InFlightSettles`, `QueuedIsStarted`, `RunningEnds`, `CommandsEnd`, `MessagesGoOut`, `AllIsTaken`, `TimersFire`,
`ReadyIsCalled`), with the liveness in `ImplementsFairService`, whose safety is proved: liveness under fairness and
ENABLED are beyond the prover.

Not modelled, with the reasons:

- payloads: what a frame of a command contains and the decoding of replies into `env`. The values of
  attributes are model values, and the functions that format them either write a value or nothing;
- serial.c and transport.c: they keep nothing between calls, and what a short read or write loses is in
  the lines of `Session` and `FrameReceive`;
- of the store, the save to flash (`flash_save_attr` is never called); of conf_io.c the typed getters, which
  only read; of buffer.c the formatted and JSON puts, which are puts of what they format; of hashmap.c
  `hashmap_iter_set_data` and `hashmap_destroy`; `list_destroy`; failing allocations in the libraries;
- conf_rom.c, file_io.c and platform/conf.c: a table, and wrappers of file operations;
- `smInclude`, `smExclude` (nothing pushes E_INCLUDE or E_EXCLUDE), lines 17-1037 of api.c (disabled),
  the receive queue of session.c (never used), the functions that close a layer (never called while
  the daemon runs), `file_event_unreg` and `file_event_reg_pollf` (never called by it);
- of inotify: a file that is deleted is gone at once (IN_DELETE_SELF comes when the last link and the last open
  descriptor go); files move to paths that are not watched; no two watchers watch one file, for which
  inotify would give them one watch descriptor;
- lines of the console with 20 words or more, or longer than its buffer: `argv[20]` of `cmd_in` is given to
  `parse_argv` with its size in bytes (cmd.c:105-107); messages of the bus that lack a member that the code reads;
- logging, time formatting, JSON and the wrappers of libraries and of the operating system; the
  checksums, encodings and crypto, which are not linked into the daemon;
- `ref/` and `xaa`: an older implementation and a stray copy of app.c, not built.

External parts are modelled by how the code uses them: the serial line and the module (what may
be lost, which replies a command has), the devices (their reports come in good: rxStatus 0), the
clock, ubus, inotify and the disk.

## 9. Where the code departs from what it says

- `lost`: MODULES.md:5 and :170 promise a queue of frames and a callback at the end of each.
  `session_send_over_callback` pops the frame that is over and then pops the one it sends, so the
  frame it sends is not queued any more, and when that one is over, the pop for it takes another. With
  three frames handed in, one is never sent nor given back. The api layer hands in one at a time as a
  rule (`OneFrameAtATime`), which is why it goes unnoticed.
- `stuck`: cmd.c:35 promises `get` of a device's class. When the device does not answer, the api layer
  says E_ATTR_OVER (api.c:2399), which smCommand does not take (app.c:85): the app layer waits for
  ever, and so do all later commands.

Further limits of the code, met while modelling. The models have them, and the properties and constants
are chosen beside them where named:

- **signed `char`**: the length byte of a frame and the node id of a report go through a `char`
  (frame.c:267, frame.c:271, api.c:2551), which is signed in the build of the Makefile and in the runs; the proofs
  are about both. frame.h:64 allows lengths up to 232. A length byte of 128 to 202 makes the allocation
  fail, which leaves the parser in `FRS_TYPE` without buffer and timer, and the next byte is written through NULL
  (frame.c:282-288); from 203 on the buffer is shorter than its fields, the payload has no end and the frame is
  cut off by the timer. `FrameWhereNeeded` and `WholeFrameDelivered` say this, and that nothing else goes wrong.
  The reports of a node from 128 on are stored under a negative id, where no get or list finds them
  (`StoreIsLastReport`).
- **functions that are not there**: a get of an attribute that can only be set, and a set of one that can only
  be got, call the NULL in the table (uproto.c:288, uproto.c:296). A line of blanks typed at the console has
  no first word, and `cmd_search` compares NULL (cmd.c:105-116). Both end the daemon.
- **battery**: the list of devices has a level of the battery that nothing was written to when the
  attribute's text is no number, as before the first report of it (zwave.c:44-48).
- **calls that wait**: a call that was put back is restored behind newer ones (api.c:2214-2222) and starves while
  calls keep coming. A call put back when the 3 s timer or an error ends the command before it waits for the end of
  another command (`WaitingIsRestored` holds in `reliable` only).
- **dropped events** (cmd.c:36 promises `set`): an event is put into `subcmdq` at once while its
  command waits in `cmdq`; the submachine that runs meanwhile may drop it (app.c:251).
- **smallest length**: a length byte of 2 is accepted (frame.c:261), for which frame.h:6 leaves a payload
  of -1 bytes; the parser then stores bytes until none comes for 200 ms.
- **lasttime**: only a message that smAttr waits for refreshes it (app.c:202), so that a device that
  reports at other times goes offline.
- **byte queue**: `queue_buf_trim_head` refills an emptied kept buffer from the start of the next one
  (buffer.c:332), also when some of that one's bytes are to go. After such a trim the queue has the
  right length and the wrong bytes (`skewed`). A maximum of 0, which means none, empties the queue,
  and `queue_buf_put_head` does not look at the maximum.
- **configuration**: the result of `fclose` is not looked at (conf_io.c:217): on a full disk a file cut off
  replaces a good one. `FlushFails` is FALSE in the run and in the proof; with TRUE, `RestartRestores` fails.
- **hash map**: the bit test of `HASHMAP_INDEX_LE` orders slots only within half the table. With chains that
  are longer, a removal may leave an entry that is not found any more; the hash functions of the
  runs spread the keys. The theorems are about tables at most half full, which the daemon's are.
  hashmap.h says that entries may be removed during `hashmap_foreach`; the entry that a removal moves
  is only seen again when the entry removed is the one the function was given. When it
  removes another, an entry may be moved to a slot that the walk has passed.
- **file monitor**: a watch that was set anew has the caller's mask without `PATH_CHANGE_EVENTS`
  (filesystem_monitor.c:237), so that the file's next move goes unnoticed.
- **list**: `list_destroy` of a list that is not empty reads through NULL (list.c:156-180).
