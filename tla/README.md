# VideoCtrl: a verification project for the video desk firmware

This directory holds TLA+ models of the firmware in
`src/software/firmware/VideoCtrl/` (called FW below), TLC configurations that
check them on small instances, and TLAPS proofs of what matters most.  The
firmware runs a hardware desk (buttons with LEDs, faders, a joystick, a small
display) on a ChibiOS microcontroller and controls, over the network and a
serial line, an ATEM video mixer, an HDMI matrix, a scaler, a projector, two LG
monitors and PTZ cameras.

ChibiOS, lwIP and the display library are git submodules and not part of the
tree; they are modelled from the way FW uses them and marked external.

## 1. Inventory

### Threads and how they meet

| thread | code | priority | does |
|---|---|---|---|
| main | main.cpp:380-420 | NORMALPRIO | every 5 ms: `matrix.run`, `scalerAndSwitch.run`, `displays.run`, online message, menu; every 200th round `setFormatFromAtem` |
| time critical | main.cpp:94-110 | NORMALPRIO | every 1 ms: `Videoswitcher::run` (with `ATEM::runLoop`), `PtzCamera::run` |
| blinker | main.cpp:68-92 | NORMALPRIO | every 300 ms: `liveToggle`, `doBlink` of the modules |
| reader | app/ReaderThread | HIGHPRIO (ReaderThread.cpp:51) | polls button boards and display over I2C |
| lwIP | net/lwip_bindings, lwIP | below NORMALPRIO (`LOWPRIO + 1`) | runs the callbacks of `TcpSerialAdapter2` and `UdpClient` |
| web server | net/web | below NORMALPRIO (`LOWPRIO + 2`) | static page |

So the threads that use the network preempt the thread that runs its callbacks,
never the other way round, except where they sleep or wait.

There are no locks around the objects the threads share; they meet in plain
fields, in two ChibiOS mailboxes (`TcpSerialAdapter2::_send_queue`,
`UdpClient::_mbox`), in a mutex around the I2C bus, and through callbacks that
lwIP runs.

### Components, their state, operations and what makes them correct

| component | state | operations | correct when |
|---|---|---|---|
| `net/TcpSerialAdapter2` | connection block, three flags, keep-alive count, mailbox, ack slot, receive slot | `send`, the five lwIP callbacks | one request outstanding; each callback once, in order; an answer goes to its own request; nothing is lost silently; the connection comes back |
| `lib/MatrixSwitch`, `lib/HdmiSwitch`, `app/VideoMatrix` | selected inputs, LEDs | button press to `setInput`, answer to cached input | LEDs show the input the device last confirmed |
| `lib/ProjectorCtrl` | power, mute, error, status flags | polled status, `setPower`, `setVideoMute` | status is that of the device; polling never stops |
| `lib/LgTv`, `lib/SplitTvExecuter`, `app/OutputDisplays` | power/mute of two monitors, command in progress | follow one another, buttons and LEDs | both monitors end in the state the operator asked for |
| `lib/TvOneScaler`, `app/ScalerAndSwitchModule` | output resolution, source, buttons | requests and parsed answers | the scaler ends with the format of the mixer |
| `app/Memory`, `lib/hw/MCP24AA04`, `app/ButtonMapper` | EEPROM bytes | migration at start, mapping and address | a device that lost power in the middle still starts with valid data |
| `lib/Buttons`, `lib/SkaarhojBI8`, `lib/LedController`, `lib/hw/*`, `app/ReaderThread` | button words, LED cache | polling, edges, LED writes | every press is seen once and released once |
| `lib/ATEM`, `net/UdpClient`, `lib/Stream` | session, packet ids, cached switcher state | connect, acknowledge, parse, command | reconnects after loss; the cache is the switcher's state |
| `app/Videoswitcher` | bus mode, button colours | inputs to commands, LEDs | LEDs show program and preview; one command per press |
| `lib/ViscaController`, `app/PtzCamera` | packet queue, camera positions | serial protocol | packets are framed and answered |
| `lib/Encoder`, `lib/AdcChannel` | counter and last bits; a reading | table of the quadrature | no step of the knob is lost or counted twice |
| `main.cpp`, `lib/Display`, `lib/menu`, `app/menu` | objects and pointers set by `main()`; selected page, log, banks to write | start, blinking, messages, swap of the log | nothing is used before it is set up; a message is shown and the page comes back |

What is hard here: the adapter is used by two threads without a lock; every
answer comes as a callback long after its request; devices stop answering, close
the connection or come back; main and lwIP wait for each other through bounded
mailboxes; settings are written byte by byte to an EEPROM that may lose power.
`PROJECT.json` lists these hazards at their lines.

## 2. Plan

Most important first: everything the desk controls over TCP goes through one
adapter, so it comes first, alone and preempted; then the clients above it; then
the parts with persistence, with a protocol of their own, with threads that meet
in plain fields, and last the whole start of the desk.

| step | module | what it composes | checked by | proved |
|---|---|---|---|---|
| 1 | `RequestFifo` (abstract), `TcpSerialAdapter2` | the adapter with lwIP and a device; implements `RequestFifo` | `tcp_*` | `TcpSerialAdapter2_proofs` |
| 2 | `TcpAdapterPreemption` | the adapter at the grain of single accesses | `threads`, `preempt_double` | `TcpAdapterPreemption_proofs` |
| 3 | `SplitTv` | `LgTv` x 2 and `SplitTvExecuter` above the FIFO of step 1 | `splittv_converges`, `splittv_first` | `Clients_proofs` |
| 4 | `VideoMatrix`, `ScalerAndSwitch`, `Projector` | the other clients of the adapter with their keys and lamps | `panel`, `scaler` | `Panel_proofs` (matrix, projector), `Clients_proofs` (scaler) |
| 5 | `AtemSession` | `ATEM`, `UdpClient`, `Videoswitcher::run` | `atem_session` | `AtemSession_proofs` |
| 6 | `AtemPacket` | segments, layouts, commands | `boards` | `Boards_proofs` |
| 7 | `Videoswitcher` | bus modes, keys, edges of `Buttons`, reader thread | `threads` | `Videoswitcher_proofs` |
| 8 | `PictureInPicture`, `Fader` | what the keys do to the switcher; waiting loops; lamps and lock of the fader | `panel`, `pip_ends`, `boards` | `Panel_proofs` (keyers), `Boards_proofs` (fader) |
| 9 | `Memory` | `Memory`, `MCP24AA04`, `ButtonMapper` | `boards` | `Boards_proofs` |
| 10 | `BoardLamps`, `InputReader`, `PtzCamera` | lamps over I2C, reader thread with encoder and keys, camera | `boards` | `Boards_proofs` |
| 11 | `StartUp` | main, blinker and the frame they share | `panel` | `Panel_proofs` |

`MCBoards`, `MCPanel`, `MCThreads`, `MCScaler` and `MCTcpSerialAdapter2` are the modules
TLC runs where it is not the module itself.  `MCBoards`, `MCPanel` and `MCThreads` put
parts together that share no state: the initial state chooses a part, its steps are the
steps of that module, and the others rest in one fixed initial state.  The behaviours of
each part are exactly those of its own module, and its fairness is that of the module (the
part never changes, so a fairness condition on "action A in part one, or action B in part
two" is one on A and one on B).

## 3. The modules

### TcpSerialAdapter2 (net/TcpSerialAdapter2.cpp)

`adapter` is a record with the fields of the object (`pcb`, `connected`,
`connecting`, `timed_out`, `timeout_count`, `send_queue`, `ack_slot`,
`recv_slot`); `ptr`, `acked`, `recv_buf` and `late` belong to the message in the
slot (`ptr`, `ack_ptr`, `recv_buf`, and whether 500 ms passed since
`recv_time`).  Messages are the numbers 1..N in the order of the calls of
`send`; bytes are counted, and each answer byte carries the number of the request
it answers.

| action | code |
|---|---|
| `Send`, `SendNoMem`, `SendResume` | `send`; with a full mailbox `post` waits, and the rest is `SendResume` |
| `TcpConnected`, `TcpSent`, `TcpRecv`, `TcpRecvClosed`, `TcpPoll`, `TcpErr` | the static callbacks, whole |
| `Elapse` | 500 ms pass for the outstanding request |
| `TcpGone` | lwIP forgets a closed block (external) |

`_reset`, `_processRecvQueue`, `_processSendQueue` are functions from object to
object, as every handler calls them.  `Faults` says what the layers below may do:
no connection block, failing `tcp_connect`, `tcp_write`, `tcp_close`, a remote
close, an abort, silence.  `RequestFifo` is what a client relies on: requests are
taken in order, finished in order, each at most once.

### TcpAdapterPreemption (the same code, finer)

`send` runs on the main thread, which preempts the lwIP thread.  Each handler is
a chain of steps that read or write one shared field (`handler.at` is the program
counter, `handler.m` the local `packet`); `Send` is one step and may come
between any two.  `_reset` has no local for a slot: it reads `_recv_slot` and `_ack_slot`
again for the test, for the callback, for each `delete` (lines 75-81 and 86-93), and so do
`TakeOut` and `FollowSlot`.  Where the compiler may keep the value it has read, both
outcomes are there.  A handler that goes through a slot that is NULL by now is `lost`, and
the model stops there, as the rest is undefined.  Messages fit every buffer here.

### SplitTv (lib/LgTv.cpp, lib/SplitTvExecuter.cpp)

Two monitors behind the FIFO of the adapter.  `Run` is
`SplitTvExecuter::run` (first decision, then following), `Read` the polling of
`OutputDisplays::run`, `Press` a button, `Reply`/`Answer`/`Fail`/`Finish` the
assignments of `LgTv::_recv_cb`, between which the main thread may run.  Power
and video mute are treated alike in the code and are an index here.  The polls come by the
clock, whatever waits, and any answer frees the next one; so a call may find the mailbox
full.  It then waits in `send()`: `main` is the call with what it still owes, `Resume` its
continuation, and only the lwIP thread runs in the meantime (`LwipRuns`).

### Memory (app/Memory.cpp, lib/hw/MCP24AA04.cpp, app/ButtonMapper.cpp)

Start of the desk: read the version, migrate step by step, write the cells, read
address and mapping.  Power may fail between any two accesses and in the middle
of a write; an access may fail on the bus, which no caller notices.  Three history
variables say what may be wrong for that: `lost` are the cells whose own last write failed,
was cut off or was never made, `stale` the cells whose last access since the power came
failed, `misread` whether a read of the version did.

### AtemSession (lib/ATEM.cpp, net/UdpClient.cpp, app/Videoswitcher.cpp)

`Wake` ... `Operate` are the rounds of the time critical thread: `Shake` is
`runLoop` while connecting, `Handle` one packet of its loop, `HandledAll` its
end, `Reconnect`, `Wait` and `Operate` the three branches of
`Videoswitcher::run`.  `silent` is `isConnectionTimedOut()`, `connecting` is
`isConnecting()`, `expired` the limit of 20 s.  The switcher's state is one
growing number, of which `cache` is the copy.  The switcher, the network and time
are external.  Packets of any kind may be lost, those that carry state too.  The code
acknowledges what arrives and never compares packet numbers (ATEM.cpp:153, 191), so a state
that was lost while a later one was acknowledged is not sent again and nothing repairs the
copy.  `missed` are the states lost since the dump and not sent again.  The switcher is
assumed to repeat everything unacknowledged in order.  UDP ports are assumed to be reused, so
packets of an old session still arrive; they may also be lost.  The switcher sends
only what the bounded network has room for (`Room`).

### Videoswitcher (app/Videoswitcher.cpp, lib/Buttons.cpp)

One round of `Videoswitcher::run` as a chain of looks at single keys (`at` is the
place in it), with `ReadButtonStatus` of the reader thread between any two.
`AuxPressed`, `SetBusMode`, `Input...`, `InputToAux`, `ProcessSpecials` and
`ProcessOps` are the stages in the order of the code, with the looks its
conditions skip.  `lastUp` and `lastDown` are the words of `Buttons`; `sent` is the
command a step gives.  A call of `Buttons` is one step because the build (`-O2` in
the Makefile) reads the unprotected word once in a call.  `armed` is a history
variable: keys held since a press that gave no command yet.  The reader may show
any set of keys next, so the boards being read one after another is included.

### VideoMatrix (app/VideoMatrix.cpp, lib/MatrixSwitch.cpp)

`Press` is the reader thread, `Choose(o)` the look of `run()` at one output with
`SetInput` (`setInput`), `Show` its lamps.  A request owns an object, freed by its
callback (`RecvCb`) or by the caller when `send()` refuses (`Refused`, and
`RefusedByReset` for a refusal after the callback ran, which the adapter really
does, see `TcpAdapterPreemption`).  The commands on their way (`toMatrix`), the
connections (`matrix`) and the answers on their way (`answers`) are apart: `Transmit` writes
the oldest request, `Execute` and `Fail` are the matrix, and `Answer` hands the next answer
to whatever request waits.  So an answer that is late (`TooLate` gave its request up) makes
the desk believe the next request before the matrix has carried it out, or although it
never will.

### ScalerAndSwitch (app/ScalerAndSwitchModule.cpp, lib/TvOneScaler.cpp, lib/HdmiSwitch.cpp)

`Switch`, `PowerKey`, `SourceKeys`, `Update`, `UpdateOnline` and `Adjust` are the
stages of `run()` and of `setFormatFromAtem`, in their order; `send` waits while the
adapter holds `ScQueueSize` requests (`Send`, `SendAnyway`).  Tables of names are
taken over as they are, since what is read depends on which name is a prefix of
which: `ParseOutput` goes through the table as `_parseOutput` does, backwards.
`Adjust` is taken with the switcher online (the condition of main.cpp:411).

### Projector (lib/ProjectorCtrl.cpp, app/OutputDisplays.cpp)

`ReadStatus` and `Keys` are what `run()` does on the main thread, `PowerLed` and
`MuteLed` its lamps, `doBlink` the blinker's.  A press is seen at the next look
unless the switch disables the key.  Phases of the device move on as `Commanded`,
`Warm` and `Break`.

### AtemPacket (lib/ATEM.cpp, lib/Stream.cpp)

`Packets` is a packet that comes, `ParseSegment` one turn of the loop in
`_parsePacket`, `Taken` and `Payload` the layout of each command and field, which
depends on the version.  Streams are counted in words of 8 bytes.  What the
desk sends and how it is acknowledged is in `AtemSession`.

### PictureInPicture (app/Videoswitcher.cpp with lib/ATEM.cpp)

Keyers, downstream keyers, the automatic transition, and the five waiting loops
of `_tooglePictureInPicture` (`LeaveLoop`, `GoRound`), which never sleep.  `Deliver`,
the lwIP thread below, needs `Asleep`.

### Fader (app/Videoswitcher.cpp)

`ProcessFader` is the time critical thread; `BlinkBegins` and four `WriteLed`
one call of `doBlink()`, between whose writes the other thread runs.

### BoardLamps (lib/SkaarhojBI8, lib/I2cBus, lib/hw/PCA9685)

Two threads write two-coloured lamps: `SetButtonColor` updates the cache,
`FirstHalf` and `SecondHalf` are the transfers, which may fail.

### InputReader (app/ReaderThread, lib/Display, lib/Encoder)

`Add` and `SetScheduler` build the table of items, `Tick` is one turn of the
thread with `ReadButtonStatus` of what is due; `ForwardKeys` and `RotaryChange` are
the main loop's.  `Table` is the quadrature table of `Encoder::updateValue`, a
position may be skipped and a read may fail.

### PtzCamera (app/PtzCamera.cpp, lib/ViscaController.cpp)

One round of `run()` as a chain (`ProcessPackets`, `StoreKey`, `MemKey`, `Drive`,
`FocusKey`, `Lens`), with stick, keys, switch and packets moving in between.
`GetPacket` and `ParsePacket` work on bytes, since the faults are in lengths and
nibbles; the answer to the new address is read and not recognized, as in the code
(section 6).

### StartUp (main.cpp, lib/menu, app/menu)

`Begin`, `Publish`, `LogStart`, `DrawMenu` and `Round` are the steps of `main()` in
the order of `StartBoards` and `StartDevices`; `LiveToggle` and `WriteBank` the write
of the display by the blinker, which sleeps between banks; `DoBlink` its calls
into what is published.

## 4. The runs

| run | shows | bounds and why they are enough |
|---|---|---|
| `tcp_faults` | with every fault: types, one request outstanding, no callback twice, nothing called back while held; the adapter implements `RequestFifo` (taken and finished in order) | 4 requests of 1, 2, 1 and 0 bytes (one in each slot, one in the mailbox, one waiting in `send`), 2 blocks, mailbox of 1, send buffer of 2, limit of 2 polls: a full mailbox, a lost and a new connection, an empty request and expiry all occur; each request fits the send buffer, as the few bytes of the devices' commands do |
| `tcp_keepalive` | while no connection block is astray (section 5): no request is lost, `_connected` speaks of the block in `_pcb`, each request is finished in the end | devices that fall silent or close; 4 requests, 3 blocks, a mailbox of 2 and a limit of 2 polls: one request in the ack slot, two in the mailbox and one that waits in `post`, a second connection while the first is closed and one more; fewer of them hide what section 5 tells |
| `tcp_reply_mixup` (violation) | a late answer is taken for the answer of the next request | no faults |
| `preempt_double` (violation) | a message is called back and deleted by both threads | 2 requests |
| `threads`, part adapter | preempted handlers keep order, slots and connections, and until the device closes a connection `_reset` goes through no slot that became NULL; each request is finished | 4 requests, keep-alive and remote close |
| `threads`, part keys | a press gives one command and none once released; held keys are acted on; released bus keys select their bus | 2 presses, 2 aux busses, 1 input, 1 keyer, 2 keys of the last chain, 1 lost connection: two keys down in any order, or one pressed again |
| `splittv_converges` | a flag of `LgTv` is only set while the request that clears it is under way (`LinesSound`); both monitors end as last asked | 1 press, 1 failed request or change by hand, and a mailbox of 1 where the code has 8, so that `run()`, the polls and the button wait in `send()` on every path; a larger mailbox only makes them wait later |
| `splittv_first` (violation) | `run()` takes its first decision between two assignments of the callback: both monitors are switched off although one answered that it is on | no press, no fault |
| `atem_session` | an initialized desk with nothing on its way and no state `missed` shows the switcher's state; answers carry a session no older than the last handshake; after the faults the desk is connected, and up to date unless a state stays missed | 2 faults (any packet lost or late, a session dropped), 2 changes, 1 press, mailbox of 2 (16 in the code; a full mailbox only delays) |
| `boards` | six parts, below | see the parts |
| `panel` | four parts, below; no part can stop | see the parts |
| `scaler` | the scaler ends in an output that reads as the wanted one and the desk stops changing it; the lamps show both devices; an answer, whole or cut, is read as the last output whose name it can be | outputs 5 and 6, of which one reads as the other's name, a queue of 2 requests, 1 press of the power key, of a source key or of a key of the HDMI switch, 1 change by hand, 1 bad or missing answer |
| `pip_ends` (violation) | the picture-in-picture sequence never leaves its second loop | 2 inputs, 2 keyers |

The parts of `boards` and `panel` (one behaviour runs one part, see section 2):

| part | properties | bounds and why they are enough |
|---|---|---|
| settings | `SettingsSound`: a chip that says the newest version has settings of that version in every cell but those whose own write failed, in every state of every start; each cached field is what the chip has unless its own last access failed; `UserDataKept` | 3 power failures, 2 failed accesses, 2 changes: a failure in each of two starts and one after, and a migration with a failed read and a failed write |
| reader | `InputsSound`: boards and display are read as often and as evenly as their exponents say, the menu gets every step of the knob, a key acts once | 1 board and the display with different periods, a counter of 2 bits (8 in the code) so that it wraps, 4 positions of the knob (a whole cycle of the quadrature), 1 press, 1 failed read |
| lamps | `LampsSound`: a lamp at rest has the colour the cache says, and other lamps are untouched | 2 threads, two lamps of an old board (4 and 5 share a chip register), 3 colours, 1 failed transfer |
| camera | `CameraSound`: the camera drives as the stick says, so does the lens; `StoredOnlyWhenArmed`: no preset is overwritten without "store" | positions up to 3 on two axes (a neighbour, a jump and the centre), 1 memory, 3 events: moves, keys, turns of the switch, or packets (a network change and an acknowledgement) |
| fader | `FaderSound`: one lamp lights between two calls of `doBlink()`, green tells of a lock that exists | readings at the two ends, in the slack, in the middle; 4 moves or packets |
| packets | `PacketsSound`: the fields of a packet are stored as the switcher means them; `EchoAgrees`: a command does to the switcher what the desk asked, for inputs and for keyers 1 to 4 | buffer of 2 words where the code has 12, segments of 0 to 4 words: empty, fitting and too long; 2 segments, both layouts, 3 events |
| matrix | `MatrixSound`: each request's object is freed once, or twice if a reset called it back and `send()` refused it too; what is believed of an output is what was asked for last once no request for it is open, and is connected once no command for it is under way, whatever late answers were taken for whatever requests; `LampsAgree`: the choices are carried out and shown | 2 outputs, 2 inputs, 3 presses (one output twice and another), 1 fault |
| projector | `OneStatusRequest`, `NoDelayedPress`, `StatusFollowed`, `LampsAgree` | 1 press, 1 turn of the switch, 1 fault, one waiting request |
| keyers | `OnlyItsKeyer`, `ProgramKept`, `LampsAgree` | 2 inputs, 2 upstream keyers and 1 downstream, 2 presses or changes elsewhere: two keys at once, a press in the middle of the sequence |
| menu | `UsedWhenReady`: no thread uses what `main()` has not set up; `OpenerSeen`, `PageReturns` | 3 banks, 2 lines, 2 messages: the second comes while the first is shown or written |

The parts differ in the properties they can break: a conjunct of another part holds of
its resting state, so each invariant is what its own module says in that part.

Some properties hold only up to a condition that is part of the code's contract
or of a known weakness; the condition is written in the property and its comment:

* `NoSilentLoss`, `FlagsTrue` and `AllAnswered` except what a block does that `_reset`
  forgot (`Astray`); `NoSilentLoss` lets a request that `send` refused be called back only
  if the connection was reset while `post` waited.  `tcp_connect` or `tcp_write` failing on a
  good block, which loses a request too, is left out of `tcp_keepalive`; aborts and failing
  closes are left out of the run for its size and covered by the proof.
* `CallsSound` (`RefusedNotCalled`, `FirstCallsInOrder`) and `LiveNotReset` of
  `TcpAdapterPreemption` hold until the device closes a connection for the
  first time; after that the races with `_reset` show, and `NeverFollowsNull` fails.
  `FreedOnce` of `VideoMatrix` says that the objects of requests that a reset called back and
  `send()` refused (`refused`) are freed twice, and all others once.
* `NewestIsComplete` excepts the cells in `lost` (the version is written before the data, and
  a cell that was not written then never is) and a version that was itself not written
  whole; `CachesAreStored` excepts the fields in `stale`; `UserDataKept` excepts a misread
  version.
* `Synced` and `Converges` of `AtemSession` speak of the copy while no state is `missed`.
* `LampTruth` of `VideoMatrix` speaks of outputs whose last request met no fault itself.
* `FlagsBacked` and `Converges` of `SplitTv` and `StatusFollowed` of `Projector` except a
  device whose callback the adapter lost: the polling waits for it for ever.
* `PressActs` excepts keys let go and lost connections, and keyers on an aux bus;
  `ReleaseSelects` of Program and Preview needs the aux keys up for good.
* `AnswersInSession` excepts the number of the greeting, which a repeated hello
  puts back into `_sessionID`.
* `DriveFollows` excepts an axis that jumped past its neighbour between two looks,
  `LensFollows` a pin turned while the lens moves.
* `LampShown` excepts a lamp a transfer to which failed, or which both threads changed at
  the same time.
* `OpenerSeen` excepts a message that opens the log while the blinker writes the display.
* `ProgramKept` speaks of a switcher that was not changed since the desk saw the program
  on the preview bus (section 5).
* `LampsAgree` of the keyers excepts a sequence that never ends (finding `pip_ends`).
* `FormatFollowed` speaks of outputs whose name the desk can read back; formats 5
  and 7 cannot be and are sent again for ever.
* `PacketRead` speaks of what comes before the first empty or oversize segment, and of
  inputs once the version is known; `EchoAgrees` and `OnlyItsKeyer` of commands given
  when the desk knows the version and the state.

The violation runs are findings: `PROJECT.json` quotes the line of the
repository that says otherwise.

Deadlock is not checked where the number of requests, presses or failures is
bounded and the system comes to rest (`tcp_*`, `threads`, `preempt_double`, `splittv_*`,
`boards`); it is checked in `atem_session`, `panel` and `scaler`, whose main loops must go on
for ever.

### Fairness

* Adapter: lwIP polls an active block twice a second and retransmits until data is
  acknowledged or the block gone; the clock runs; a waiting `post` continues when
  there is room.  Nothing is assumed of the device: it need not answer.
* Preemption: the main loop sleeps every round, so the lwIP thread runs; the
  main loop polls its devices for ever (up to N requests).
* SplitTv: the main loop makes each of its calls again and again and a call that waits in
  `send()` ends (strong fairness, as a flag in progress or another call holds it up now and
  then); the adapter calls back each request, which `AllAnswered` shows of it, except for a
  callback lost to a block astray.
* AtemSession: the control thread runs each millisecond; the lwIP thread runs
  while it sleeps (strong fairness, as it is interrupted again and again); the
  switcher answers, repeats and pings.  Lost or late packets are bounded by
  MaxFault.
* Videoswitcher: the time critical thread runs `run` for ever and a lost connection
  comes back; nothing is assumed of the keys.
* VideoMatrix: `run()` looks at every output again and again and shows its lamps; the
  adapter transmits, gives up what is not answered, and the matrix executes (weak fairness
  of `Network`). Failing and late answers and lost connections are counted faults.
* Projector: `run()` on the main thread, `doBlink` on the blinker; the device
  answers what reached it and its lamp warms up or cools down in the end.
* PictureInPicture: the time critical thread, the blinker and the mixer go on; the
  lwIP thread delivers if the time critical thread sleeps again and again (strong
  fairness of `Deliver`, which needs `Asleep`): in a waiting loop it never sleeps.
* StartUp: the main thread and the blinker go on; the main loop, of the same priority as
  the blinker, gets its turn between two of the blinker's sleeps (`Round` with the
  blinker at "second", strongly fair since the blinker is there in every round).  The threads
  also change where one used up its quantum of 20 ms (chconf.h, `CH_TIME_QUANTUM`): between
  any two steps of the start, not within one.
* ScalerAndSwitch: the stages of `run()` go on, those that wait for their time or a free
  place in the queue strongly fair; the adapter calls back every request.

## 5. What is proved

Eight modules hold theorems.  All assume only the named assumptions of the modules
they extend about their constants.

### The adapter: safety (TcpSerialAdapter2_proofs)

For any number of requests, mailbox size, pool of blocks, buffer sizes and any set
of faults:

| theorem | property |
|---|---|
| `TypeCorrect` | `TypeOK` |
| `OneOutstandingHolds` | `OneOutstanding` |
| `CalledOnce` | `CalledAtMostOnce` |
| `HeldNotCalledHolds` | `HeldNotCalled` |
| `FlagsHold` | `FlagsTrue` |
| `NothingIsLost` | `NoSilentLoss` |

None of the first four is inductive.  That a request is called back at most
once follows only if whatever the object holds was not called back before; that
survives a fetch only if the mailbox and the slots share no request, which is a
consequence of their order; and a blocked `send` must hold a request that is
nowhere else and is newer than all.  So the invariant `Inv` joins
`ObjectInv` (types, size, at most one slot taken, slots before mailbox, mailbox
ascending, nothing held was called back or is newer than the newest),
`CountInv` (counts 0 or 1, 0 for requests to come), `ClientInv` (the blocked
request is the newest and loose) and `NetworkInv` (types of the lwIP side).
Handlers are built from functions from object to object, so the proof has one
lemma for each function (`ResetKeepsInv` and so on), stated on an object and the
counts, and the step lemmas of the actions combine them.

The last two relate the object to lwIP's blocks.  The invariant is `Linked`: a latched
time-out means not connected, connected means that some block is open, and the block in
`_pcb` is new, on its way or open, with the flags to match.  `Careful` says of each
step which requests it may lose.  `NothingIsLost` assumes `Reliable` (no failing
`tcp_connect` or `tcp_write` on a good block) and `[]Room` (the send buffer has room for
each request that waits); closes, aborts, silence, failing closes and missing blocks or
memory may happen at any time.

Both properties were stated without an exception first, and held in a run with 3
requests and 2 blocks.  The proof attempt failed for a reason, and with 4 requests and 3
blocks TLC finds it.  `_tcp_poll` closes the block it was *called for*, while `_reset`
forgets the one in `_pcb`.  If these differ, the forgotten block stays behind and its
handlers still point at the adapter (a block "astray").  When it connects, it sets
`_connected` of an adapter whose `_pcb` is NULL; the next `send` makes a block of its own
but does not connect it, as `_connected` is set, and the request is fetched for a block that
cannot write and is lost: its callback never runs.  In the same way a `send` that
waits in `post` while the device closes the connection goes on with `_pcb` NULL,
resets, calls its own request back and then refuses it.  The properties now name
these two cases, and the hazards at TcpSerialAdapter2.cpp:153, 223 and 292 list them.

### The adapter: refinement (TcpSerialAdapter2_refinement)

`Refinement` states `Spec /\ []WrittenWhole => ImplementsFifo`: under any faults the
adapter is a FIFO, each of its steps a step of `RequestFifo` or a stutter.  The
queue of the FIFO is what the object holds, receive slot before ack slot before
mailbox (`Line`), and the request that waits in `send`.  For each function from object
to object a lemma says that what it leaves is the rest of this line, and that what it
called back was in front of the rest (`Gone`, which composes); `GoneIsFinish` turns that
into the form of `RequestFifo`, and the step lemmas into `Serve`, `Take` or `TurnAway`.

The condition is needed because the code does not keep it by itself: a request that
does not fit the send buffer is written in part and nothing writes the rest;
`_reset` then keeps that request in its slot and drops those behind it, so that they are
finished before it.  `WrittenWhole` says that this does not occur.  It depends on
what is free in the send buffer when a request is fetched, which the commands of the
desk's devices (a few bytes, one outstanding at a time) do not exhaust.  TLC checks
`WrittenWhole` as a part of `NoSilentLoss` in `tcp_keepalive`, and `ImplementsFifo`
without the condition in `tcp_faults`.

### The preempted adapter (TcpAdapterPreemption_proofs)

For any number of requests, with and without faults:

| theorem | property |
|---|---|
| `CallsAreSound` | `CallsSound` (types, order of the callbacks, nothing refused is called, no NULL followed) |
| `LiveIsKept` | `LiveNotReset` |
| `SlotIsKept` | `SlotKeptUntilCalled` |

The properties hold because of what is true at each step of a handler however often
`send` ran since the step before, so the invariant is indexed by the step.  `SlotInv`:
both slots are taken only in the middle of the move from one to the other, a
fetched request finds them empty, and what a handler is about to remove is still
there or gone.  `ResetInv`: the slots `_reset` has gone past are empty, and `send` never
fills one.  `FlagInv`: there is always a flag set while a connection exists, also
between the two writes of `_tcp_connected`, unless the device closed one; this is
what keeps `send` from resetting.  `LimitInv`: until then `_reset` runs after the last poll
only, with nothing in the receive slot for `send` to take away, so what it reads again is
what it has tested.  `OrderInv`: the mailbox is a run of consecutive
requests, and of those before it all but the last one are called back.

What is not proved is `CalledAtMostOnce`, and cannot be: the run `preempt_double`
violates it.  Nor can `NeverFollowsNull` be without its condition: the device closes the
connection, `_tcp_recv` clears `_connected` and starts `_reset`, `send` preempts it after the
test of a slot, finds no flag set and a block that is not closed, and resets everything
itself; the first `_reset` then deletes through NULL.

### The settings (Boards_proofs)

For any number of power failures, failed accesses and changes:

| theorem | property |
|---|---|
| `SettingsHold` | `SettingsSound` (types, `NewestIsComplete`, `CachesAreStored`) |
| `UserDataIsKept` | `UserDataKept` |

`NewestIsComplete` is a promise about every moment, also the middle of a start, but the new
version is written before the data.  The invariant therefore says what the writes still to
be made will do: behind a write of the newest version every cell is still to be written
(`TodoInv`), a cell that is not of the newest version is still to be or is `lost`
(`CompleteInv`), each cached field is the stored one from the access on that filled it
(`CacheInv`), and as long as the user's data are kept there is nothing to migrate
(`KeptInv`).  `MigrationInv` and `DataWritesReach` show this of the list of writes that
`migrate()` makes for each version.

### The fader (Boards_proofs)

For any set of readings and positions and any number of events:

| theorem | property |
|---|---|
| `FaderHolds` | `FaderSound` (types, one lamp, green means locked) |
| `LockStays` | `LockedForGood`: once the fader counts as locked it does so for good |

`OneLamp` is not inductive: between the four writes of `doBlink()` the lamps are half
written, and the other thread may change what they are written from.  `Written` says
which of the lamps a call has already written can be lit.  `LockedForGood` is a weakness
of the code rather than a promise: the lamp stays green when the fader was moved away, the
transition went on without it or the connection was lost.  No run checks it.

### The session of the switcher (AtemSession_proofs)

For any size of the mailbox and the network and any number of presses, changes and
faults:

| theorem | property |
|---|---|
| `SessionHolds` | `SessionSound` (types and limits, `AnswersInSession`) |
| `SyncedHolds` | `Synced` |

What is on its way to the desk, the mailbox and then the network, is one line (`Fifo`).
`OrderInv` is its order: the numbers of sessions never fall, a hello stands before all
other packets of the session it offers, and the states of one session never fall
(`InTime`), so that a state still on the line repairs what was missed before it.
`runLoop` throws away whatever comes before the hello; by the order none of it is of the
session the desk joins.  `SyncInv` says where the last state of an open session is, if it
is not `missed`: on the line, or already shown with only pings behind it.  For a desk that
waits for a hello, or is about to connect anew, this holds only while a hello is on the
line; without one it joins no session at all.  A connect given up after 20 s is followed
by another at once (`DeskInv`), so such a desk does not go back to reading in between.

### The monitors (Clients_proofs)

For any monitors and aspects and any number of presses, changes by hand and faults:

| theorem | property |
|---|---|
| `LinesHold` | `LinesSound` (types, `FlagsBacked`) |

A flag of `LgTv` is set after `send()` returned, with the request in the mailbox, and
cleared by the callback; between the two there is any number of other requests, and while a
call waits for room in one monitor's mailbox the other monitor's callbacks run.  `Backed`
shows that a line that grew backs what it backed, `PostStep` that a call that stops half way
leaves the monitors it did not reach as they were.  `Reply` takes a request from the line
only as its callback begins, which clears the flag of the query whatever it answers; so a
query is backed by any query in the line.  `LinesSound` is inductive, as it includes the
types of the call that waits.

That `send()` never waits is no property of this code.  Any answer frees the next poll, and
`OutputDisplays` polls by the clock without a look at the mailbox, so with a monitor that
takes long the main loop does come to wait in `send()`; `splittv_converges` runs with
a mailbox of one slot to have it wait.

### The scaler (Clients_proofs)

For any keys, formats of the switcher, sizes of the mailbox and numbers of presses, changes
and faults, and any trailers that are clean:

| theorem | property |
|---|---|
| `ScalerHolds` (assumes `CleanTrailers`) | `ScSound` (types and room in the mailbox, `ReadsLast`) |

`_parseOutput()` takes the last name that matches, and a name matches when it is the
beginning of the answer or the answer its beginning (`MatchesIs`, for any two texts).  That
this finds the last output whose name the answer can be is a matter of the order of the
table: of two names the longer one stands behind (`LongerLater`), so whatever matches
besides is shorter and stands before (`ReadsPart`, `ReadsWhole`).  `CleanTrailers` says
that what follows a name in the buffer does not begin with `50` or `+`, which would make it
the name of another output; the run's empty trailer is clean.  `ScInv` adds the types of
the requests under way to those of the objects.

### The keys of the switcher (Videoswitcher_proofs)

For any numbers of keys, presses and lost connections:

| theorem | property |
|---|---|
| `DeskTypes` | `VsTypeOK` |
| `PressesCountOnce` | `OncePerPress` |

`armed` are the keys with a press that gave no command yet and was not let go.  `ArmedInv`
relates it to what `Buttons` keeps: a key that is down and that `run()` has not seen down
is armed, although the reader thread may have replaced the word between any two looks;
and the key of Program or Preview that `run()` looks at a second time on an aux bus was
seen down and is armed still.  That presses can be counted rests on `KeysFinite`.

### The parts of `panel` (Panel_proofs)

For any numbers of outputs, inputs, keyers, lines, banks, messages, presses and faults:

| theorem | property |
|---|---|
| `MatrixIsSound` | `MatrixSound` |
| `PanelIsSound` | `PanelSound` (projector, keyers, start) |
| `KeysActAsSaid` | `KeysAct` (`NoDelayedPress`, `OnlyItsKeyer`, `ProgramKept`) |

The invariant `PanelInv` joins one for each part.  `MatrixInv`: each request owns an
object that no reset freed twice (`OwnObject`); requests wait, are written and are carried
out in the order they were made (`InOrder`); and the last request for an output, unless it met a
fault, asks for what was wanted (`LastIsWanted`), is open or believed with no other for the
output open (`LastIsShown`), and is under way or connected with no other for the output
under way (`LastIsMade`).  The last two are independent of each other, as answers are taken
for other requests than those they belong to.  `ProjInv`: the
requests in the line and the presses not yet looked at are paid for by presses, but one
of them for the status, and a key that would send something was pressed since the last
look.  `KeyerInv`: what the desk knows, and what is on its way in either direction, is a
state the switcher was in, told apart by its count of changes, so that a command built
from the latest state does what its key says.  `MenuInv`: what is set up follows the order
of `main()`, and while a message that opened the log is not drawn, each bank already
written shows the log.

`ProgramKept` was stated of every transition of the picture in picture whose command the
switcher takes unchanged since it was given.  That is false: the desk waits in its second
loop for the keyer to be tied and does not look at the buses again, so a change of the
program input in that time goes through the transition.  TLC needs 5 presses or
changes for it, more than `panel` has; the proof attempt showed it.  The property now
speaks of a switcher not changed since the desk saw the program on the preview bus.

### The parts of `boards` (Boards_proofs)

For any numbers of lamps, threads, boards, keys, positions and packets:

| theorem | property |
|---|---|
| `LampsHold` | `LampsSound` |
| `CameraHolds` | `CameraSound` |
| `StoresOnlyWhenArmed` | `StoredOnlyWhenArmed` |
| `InputsHold` | `InputsSound` |

`LampInv`: a lamp that no failed transfer and no second thread damaged has at most one
writer, which writes the colour of the cache, and what it wrote so far shows.  The two
lamps that share a register pair (4 and 5) need their outputs told apart.  `CameraInv`:
each preset stored, the armed flag and a press not yet seen are each paid for by a press
of "store" (`StoreInv`), and the speeds are those of the last look or of a neighbour's
(`DriveInv`, `LensInv`).  `InputInv`: an item's reads times
its interval keep up with the ticks (`ReadInv`, whatever the order in which the items were
added and the table was rescaled, `ListInv`); the counted steps differ from the
position by no more than was missed, modulo the width of the counter (`CountInv`); and
a press still to be shown is one the menu did not get (`KeysInv`).  The encoder has any
width from 2 to 8 bits, the exponents of the intervals go up to 7, as in the code.

### The packets of the switcher (Boards_proofs)

For any fields and versions that occur, any sizes of the buffer, of packets and of
segments the desk does not know, whatever their payload looks like as a head, and any
number of packets, commands and changes:

| theorem | property |
|---|---|
| `PacketsHold` | `PacketsSound` (types and widths, `PacketRead`) |
| `EchoHolds` | `EchoAgrees` |

A packet may be walked while the switcher changes or starts anew, so `PacketInv` remembers
the state and the version it had when it sent (`Walks`).  A walk is on the path of
the segments that fit the buffer (`OnPath`: what is expected was read or is ahead), or it
has left it and everything expected was read before (`Settled`): what it meets then,
aligned or not, is either no name the desk knows or a head with its own payload, which
repeats what the desk has.  That the packet, one sequence made of its segments, has
such a path is an induction over the segments; the library's induction theorems cannot be
used here, so `NoLeast` does it: of the segments for which it would fail there is no first
one (`SmallestExists`, from the well-foundedness of the numbers).  `PayloadRead`,
`InputTaken`, `KeyerTaken` and `MaskTurned` are the layouts in both directions: what the
desk reads of a payload, and what the switcher takes a command for, is the value meant
whenever both have the same layout, and a value of the field's width when they have not.
`PacketAssumption` lists what the fields, inputs and versions may be.

### Only model-checked

All liveness (out of reach of the prover, as is `ENABLED`), and which runs reach what: the
runs that expect a violation, and that each property can be violated by a changed
model.  Every safety property of a passing run is stated by a theorem.

## 6. What is not modelled, and what was seen on the way

Not modelled:

* Bytes of the devices' text protocols, where the answer's class is all the code tells
  apart, and the wrap-around of packet counters.
* Memory: allocation failure other than in `send`, the double free in
  `ATEM::runLoop` (ATEM.cpp:196) for a packet of the wrong size, leaks of `UdpClient::stop`.
* A request longer than the free send buffer: `SendQueue` models the partial
  write, which is never continued since nothing sets `_sending_slot`; it would wait
  for ever.  No request of the desk is that long, so no run shows it.
* A `tcp_connect` that fails at once leaves `_connecting` set and the adapter
  waiting for a handler that never comes; "connect" in `Faults` models it, and the
  runs that ask for progress leave it out.
* Whole-word looks (`buttonDownAll`): they keep the word and return it in separate
  statements, safe only because -O2 reads it once.
* Fields of the switcher's state that the desk stores and never uses, with the
  commands for them; cut, fade to black and the DVE settings, which are sent as
  they are.
* Drawing, the setting up of the I2C chips, the web server, third-party code, unused
  classes (`net/TcpSerialAdapter`, `app/MessageWriter`), PC tools, hardware.

Lines of the code that do not do what a comment beside them says, besides the violation
runs.  The models contain what the code does; there is no run for each, since they show
in every behaviour that gets there:

* TcpSerialAdapter2.cpp:80: "clear queue waiting for responses", behind a test for NULL, goes
  through NULL when `send` resets in between after a remote close (section 5;
  `NeverFollowsNull`).
* ViscaController.cpp:56 and 223: the "AddressSet response" is compared with a length of 4, the
  terminator counted, and `getPacket` hands over 3, without it; so the answer to a new
  address is never recognized and the controller never becomes active, which
  PtzCamera.cpp:69 waits for.
* Videoswitcher.cpp:404-411: readings of the fader are multiplied by 2.25 where the comments
  say 2.5 and 10000 = 4096 x 2.5, so the end of the fader is 9108, and a fader at its end does
  not meet a transition at 10000, which line 424 takes for done.
* Buttons.cpp:44: `handleUp` "clears buttonUp buttonDown state before it is actually read"
  (Buttons.h:27), for "don't handle release of this aux button" (Videoswitcher.cpp:294), but
  only sets the bit of the last look, which is set already while the key is down.  The
  release is still reported, and selects the aux bus again if another bus was chosen in the
  meantime.
* ATEM.cpp:892: `changeUpstreamKeyNextTransition` is "supporting Background by 0" (line 888),
  which shifts by minus one; the desk asks for keyers 1 to 4 only, and `EchoAgrees` speaks of
  these.

Other weaknesses the models contain (a property is stated around each, or its hazard
has a note); no line of the repository says otherwise:

* Memory.cpp:39: a blank device needs two starts until all its cells are written.
* SplitTvExecuter.cpp:50: the first decision may be taken when only one monitor was read.
* OutputDisplays.cpp:66-86: the polls fill the mailbox of a slow monitor, and the main
  loop waits in `send()`.
* Videoswitcher.cpp:256: the key of the other bus is also taken as an input.
* Videoswitcher.cpp:243: Aux2 lights the lamp of Aux3 and the reverse.
* Videoswitcher (fader): once it met the transition, the fader counts as locked for ever.
* Videoswitcher.h: `tempPreviewInput` is a `uint8_t`, input 1000 (bars) is restored as 232.
* ScalerAndSwitchModule.cpp: formats 5 and 7 cannot be read back and are sent again for ever.
* main.cpp:398: key 4 of the display is never asked for.
* ATEM.cpp:236, 494: a segment of more than 104 bytes, or one without payload, loses
  the rest of a packet that was acknowledged.
* ATEM.cpp:127, 153: a press before session and version are known goes out in the wrong
  form; a lost state packet followed by one that is acknowledged is never repeated.
* MatrixSwitch.cpp:65-80: a late answer makes the desk believe the next command; if that
  one then fails, the lamp is wrong until the next press.
