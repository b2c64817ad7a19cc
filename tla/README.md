# Verification of the TBOX and its vehicle HAL

The repository is an Android automotive workspace. Its own program logic is the
vehicle HAL under `src/hardware/interface/automotive/vehicle/2.0` and, inside it, the
TBOX process that reports the vehicle to a telematics platform (GB/T 32960). This
directory holds TLA+ models of that logic, the TLC runs that check them, and proofs
that the TLA+ proof system checks. Paths below are relative to
`src/hardware/interface/automotive/vehicle/2.0/`; `tbox` stands for
`default/impl/vhal_v2_0/tbox` and `vhal` for `default/impl/vhal_v2_0`.

## Inventory

| part | state it keeps | operations | talks to |
|---|---|---|---|
| Platform link (`tbox/src/networkcomm.cpp`, `main.cpp` WatchTask, RecvTask, HeartTask, SendTask, WatchSOCPowerStateTask; `Tbox.cpp` HandleMessage) | `mState`, `mNetState`, `running`, the retry counter, the socket, two message queues, the address in memory, on disk and to go back to | connect, tear down, read, write, handle a message, heartbeat, time request, power event | the platform over one TCP connection; the pipeline and the remote commands through the queues |
| Report pipeline (`main.cpp` MessageCreateTask ... SendTask, `BinaryMessage.cpp`) | live queue, save queue, message file, cache, send queue | create, save, append to the file, read and remove the file, send | the link's send queue |
| Remote commands and air conditioning (`Tbox.cpp` HandleMessage, `RemoteHavcCtl.cpp`) | the keep-awake count and request, the wish and refresh flags, the worker thread | a command, start, refresh and stop of the worker | RecvTask calls it; worker and RecvTask share flags and a condition variable |
| Seat and steering-wheel heating (`RemoteSeatHeatCtl.cpp`, `RemoteSteerWheelHeatCtl.cpp`) | wish flags, a worker each | start, stop | share the high voltage with the air conditioning |
| Alarm window (`main.cpp` MessageCreateTask) | cycle counters, alarm mode, thirty seconds of history | a tick, an alarm | fills the live queue |
| Configuration file (`xml_config.cpp`) | the file and its copy in memory | load, save a key | link, commands |
| MCU link (`vhal/CommConn.cpp`, `SPICommunication.cpp`, `SendQueue*.cpp`) | frames to send, counters, acknowledgements | send, resend, acknowledge, parse | MCU over SPI or serial |
| MCU firmware update (`CommConn.cpp`) | position in the image, retries | request, transfer, check | MCU link |
| Ethernet link (`vhal/EthernetCommunication.cpp`) | connection flag, socket, read and packet buffer, write queue, three threads | connect, check, read, write, ask for a packet | the server at `mIPServer`; `transferThread_V1_2` of CommConn calls it |
| Batching consumer, recurrent timer (`default/common/include/vhal_v2_0`) | a queue or a table of events, a stop flag | push, batch; register, fire, stop | HAL manager |
| Subscription manager (`default/common/src/SubscriptionManager.cpp`) | clients, properties, rates | subscribe, unsubscribe, death of a client | HAL manager |
| HAL server, property store, emulation, gRPC, garage mode, diagnostics | tables and maps under one lock | get, set, forward | Android framework |
| Applications, vendored libraries | | | |

`PROJECT.json` lists every part with its sources and says which are modelled.

### What is hard here

- The TBOX is about twenty threads that share plain fields. Most conditions are waited
  for **without a predicate**: a notification before the wait is lost.
- `running`, `mState`, `ChangeNetParm` and the retry counter are each written by two or
  three threads, and a message of an old connection may be handled in a new one.
- Configuration changes have to be undone when the new platform does not answer.
- The keep-awake count is a counter under a mutex with a property that is written
  outside of it.
- Reports go through four queues and a file that no lock covers, and a restart may come
  at any point.
- The HAL's threads have wake-ups that can be lost and joins that can wait for ever.

What should be true of each part: *link* - one user pair per socket, reports only
after a login, a way back to an address that works, a noticed loss is torn down, a
vehicle awake goes on connecting; *pipeline* - no report doubled, overtaken or lost
without a reason, a backlog drains; *commands* - no reference taken from somebody who
still works, no vehicle kept awake by nobody, a worker told to stop ends, a command is
answered; *heaters* - the high voltage is up while one works; *alarm window* - thirty
seconds before and after each alarm are reported, without a gap; *old reports* - none of the last
week is thrown away; *MCU link* - no frame is sent twice
as new, counters match the queue; *update* - the image arrives whole or the update
fails; *Ethernet* - a packet is never made of two, a lost connection is opened again; *timer and
consumer* - stop returns, an event is not forgotten; *subscriptions* - the rate is the
highest one asked for, nothing is left of a dead client.

## Plan

Order, by how much of the vehicle depends on it. Done:

1. `TboxLink` (with `SocketUse` and `MCTboxBackoff`): the link to the platform. Proofs:
   types, socket ownership, threads, refinement of `SocketUse`, reports only after a login,
   the good address kept over commands, reverts and restarts, the long wait after three
   failures.
2. `RemoteHavc`: keep-awake count and air conditioning. Proofs: types, count, rest.
3. `ReportPipeline`: reports from creation to the socket. Proofs: types, order, accounting,
   refinement of `StoreAndForward`.
4. `SubscriptionManager`: subscriptions of the HAL. Proofs: types, maps, rates, polling.
5. `HeatControl`: seat, steering wheel and air conditioning over one high voltage. Proofs:
   types, the voltage is not left up, no steady heater is cut off.
6. `McuLink`, `McuUpdate` and their composition `McuTransfer`. Proofs: the composition
   implements both, and the safety properties of both hold of it.
7. `EthernetLink`: monitor, reader, writer, caller; refinement of `SocketUse`, like the
   TBOX. Proofs: types, refinement, whole packets, no old request.
8. `AlarmWindow`: the timing of the reports; `SevenDays`: the rule for old reports. Proofs:
   types, no gap, the reach of the window, the time of alarm mode; the rule is right to
   within a day.

Left, where they can join an existing run:

9. `RecurrentTimer` and the batching consumer: stop returns, no registration is missed.
   What a later model has to face: `stop` may notify while the loop runs its actions; the
   heartbeat the loop registers for itself is what wakes it then.
10. `ConfigFile`: the file rewritten key by key, with a restart or a revert between two keys;
    composed with `TboxLink`, where one write of the file is one step.
11. The working time of the air conditioning and the login serial number against reference
    definitions; the archive of seven days.
12. An abstract specification of the keep-awake count (a set of holders) that `RemoteHavc`
    implements, and one of the rates a client is promised for `SubscriptionManager`.

## Modules

| module | models |
|---|---|
| `TboxLink` | The watch thread (`WatchTask`, `NetworkComm::Start`/`stop`), reader (`recvFunc`), writer (`sendFunc`), `RecvTask` with the messages that move the session or the configuration, `HeartTask`, `SendTask` before real time, `WatchSOCPowerStateTask`; the parameter command, the resets and the reverts step by step over file, memory, flag and the address kept aside; the revert of the sample link (`WatchTaskSample`); a restart of the process; and an unreliable platform. |
| `SocketUse` | What `NetworkComm` and `EthernetCommunication` promise of their socket: opened when nobody uses it, one visit of each user, closed after the last has left. |
| `MCTboxBackoff` | `TboxLink` with a history of failed attempts. |
| `TboxLinkProofs` | Theorems about `TboxLink` and `MCTboxBackoff`. |
| `RemoteHavc` | `vehicleKeepAwake` step by step, commands by how they give their reference back, `RemoteHavcOpen`/`Close`, `HavcThread`. |
| `RemoteHavcProofs` | Theorems about `RemoteHavc`. |
| `ReportPipeline` | `MessageCreateTask` (that a report appears), `MessageconsumerTask`, `MessageSaveTask`, `SendTask` in real time with `readMessages`, the writer, a restart. |
| `StoreAndForward` | What the report pipeline promises: reports are live, stored or on their way to the socket, and go first in, first out. |
| `PipelineProofs` | Theorems about `ReportPipeline`. |
| `AlarmWindow` | `MessageCreateTask` second by second: what is sent, what is kept for an alarm, alarm mode; parameters loaded anew while it sleeps. |
| `SevenDays` | `sumDays` and `checkMsgDateOutof7Days` against a calendar in which a saved date grows old. |
| `MCReports` | `ReportPipeline`, `AlarmWindow` and `SevenDays` in one run. They share no state, so a behaviour is one of one of them. |
| `TimingProofs` | Theorems about `AlarmWindow` and `SevenDays`. |
| `HeatControl` | `startRemoteSeatHeatCtlCMD` and its like for the wheel, their threads, the part of `HavcThread` that deals with the high voltage, the wait of RecvTask. |
| `HeatProofs` | Theorems about `HeatControl`. |
| `McuLink` | `pb_add_raw_vary_data`, `getQueueVaryMsg`, `parseMsg` and the counters of the two SPI buffers. |
| `McuUpdate` | The update in `transferThread_V1_2`: start, size of the file, pieces, repetition, end, with `parseOtaMsg`, a boot loader and restarts. |
| `McuTransfer` | The transfer thread: each of its steps is a step of one of the two joined to what it does to the other's state. |
| `McuProofs` | Theorems about the three. |
| `SubscriptionManager` | `subscribe`, `unsubscribe`, death of a client, the timer entries of `EmulatedVehicleHal`. |
| `SubscriptionProofs` | Theorems about `SubscriptionManager`. |
| `EthernetLink` | `connectionMonitorThreadFunc`, `readThreadFunc`, `writeThreadFunc`, `transferData_V1_2` with `SendMessage` and `receiveData`, a server that closes and a network that resets. |
| `EthernetProofs` | Theorems about `EthernetLink`. |

Variables carry the names of the fields they model; a variable `pc...` is the place of a
thread in its loop. An action is named after the function or the branch it models, and
`PROJECT.json` maps it to its lines. A definition that begins with the comment
"mutant:" is a wrong version of the one after it, kept to show that a property notices.

How steps are cut: code between two points where another thread can interfere and see a difference
is one step. In `TboxLink` one turn of a loop is one step, but `setNetLose` and the assignment
`running = false` after it are two, as are the look at a message and its handling. The commands
0x81 and 0x82 and the reverts share the configuration without a lock and are cut at each access:
0x81 (`HandleParm`) writes the file, reads it back and clears `ChangeNetParm`, compares and sets
it, saves the address to go back to, answers, and reads the file into memory; a revert tests the
flag, writes the file, reads it into memory and clears the flag; a reset empties the file and then
copies the vendor's, or fails to. A 0x81 that names no address writes the one it has read before:
it is covered by the command that names that address. A read or write of the whole file is one
step, and so is the revert after a rejected login: RecvTask does it and so can be within no
command, and a revert of another thread beside it writes the same address. In `RemoteHavc` the
reads of the count before and after the locked update, the update and the write of the property
are all separate. In `ReportPipeline` taking a report out of a queue and putting it into the next
are two steps, and so are reading the file and removing it. In `SubscriptionManager` what is under
the lock is one step, and each call to the HAL after it another. In `EthernetLink` a stretch under
one mutex is one step; the test of `mConnectionActive` in `SendMessage` and the push under the
lock are two, as are the reader's push and its notification, the joins of the two threads, the
close and the clearing of each buffer.

In `HeatControl` each read of a heater's
state and each request is a step of its own. In `McuUpdate` an iteration of the thread is
two steps, what it prepares and the transfer; a restart may come between them. In
`AlarmWindow` so is a second: the choice of the cycle before the sleep, and the rest.

Data is abstract: a message is its kind, an address a model value, a report its number in the
order of creation, time a choice between an event and the end of a wait. The bytes of the Ethernet
link are pieces - a head, a body or noise - and carry, for the properties only, whether they came
over the connection that is open; a read returns any number of whole pieces, so a packet is cut
between head and body and not inside them, and noise never holds a marker.

## Runs

| run | question | bounds and why they are enough |
|---|---|---|
| `link_service` | Who owns the socket, do both threads live while `running`, are reports sent only after a login, does a way back to an address that works remain over a command, is `SocketUse` implemented? | Two addresses, of which one accepts logins: a good one and a bad one. The vendor's file names the bad one, so that a reset changes the address; `ChangeNetParm` starts with either value. One missed read or failed write ends a connection: the counters only delay that. Two answers in flight, so that one message can hold two frames, and one message in the queue of RecvTask beside the one it handles, so that two can be left from the last connection. One command, of any kind: every step of it against every step of a revert and a restart; a second change is a lapse of the property, and the theorem is for any number of commands. Service mode; `link_live` and `link_power` have the test mode. The SOC stays awake here; `link_power` has it sleep. The sample link is off, for the size of the run (2.3 million states without it). |
| `link_live` | Is a noticed loss torn down, and does test mode wait long after three failures? | As above in both modes, with one answer in flight and no commands, so that liveness can be checked; the history of failures saturates at the limit of three. |
| `link_power` | Does a vehicle that stays out of STR mode go on trying? | No platform accepts a login: the harder case, for the attempts never end. The SOC changes at any time, the sample link is on, `ChangeNetParm` starts with either value and the process may restart. Both modes. |
| `link_broken` | Does a broken connection always get torn down? No: see below. | Smallest instance with the race. |
| `havc_service` | Does the count cover its holders, does rest mean no request, does a stopped worker end? | Three references: the worker's, a refresh's and a command's at once. `Prompt` FALSE: any delay of RecvTask. |
| `havc_answer` | Is a waiting command answered? No. | Two references, `Prompt` TRUE: it happens without unusual delays. |
| `pipeline_service` | Are saved reports in order, is each accounted for, is `StoreAndForward` implemented, does a backlog drain? | Four reports and a limit of one: the live queue is saved while one report is in hand, one in the file and one being appended. One restart, at any step. |
| (same run) | Does what is sent or kept leave a gap, does the window reach back far enough, does alarm mode last as long as it should? | The real window of thirty seconds with the cycles of the factory (10 and 1), with 30 and 10, and with an alarm cycle (7) that is longer than the normal one (5) and does not divide thirty. One change of parameters. Ages and counters are cut off beyond twice the window: larger ones are all alike. |
| (same run) | Is a report of the last week kept, and an older one dropped? | All dates of a year before a leap year and of the leap year, with up to forty days passed or put back. |
| `heat_service` | Is the high voltage left up, is a steady heater cut off, is a command answered? | All three heaters, commands without a limit. `VehiclePrompt` TRUE: a heater's feedback follows its request within the second the threads sleep; otherwise a thread may read an old state and the voltage stays up. `SteadyKept` does not need it. |
| `mcu_service` | Are acknowledgements about the right packet, does the image go out in step, do updates end, does the ring drain? | A ring of one message: the code only tells a full ring from one with room. An image of two pieces and its size: a first, a middle and a last packet. Damaged packets, lost and late answers, failed transfers, requests for updates and restarts without a limit. |
| `subs_service` | Do the maps agree, is what is wanted covered and polled, is a dead client forgotten? | Two clients that may both die, a continuous readable property and a write-only one, two rates, two calls at a time. |
| `ethernet_service` | Are packets whole and from one connection, is a packet that is there returned, are requests taken and old ones not sent, is `SocketUse` implemented? | Four pieces between server and caller: two whole packets, or the rest of one, noise and the next. One request in the queue beside the one being sent. Connections come and go without a limit; the packet numbers 0 and 1 alternate. |
| `ethernet_lost` | Does the monitor reconnect at once after a loss? No. | Two pieces; the race needs none. |

The type invariants of `TboxLink`, `SubscriptionManager`, `EthernetLink`, `ReportPipeline`,
`AlarmWindow` and `SevenDays` are proved (`TypeCorrect` and `WindowTypes` of their proof
modules), and no run repeats them.

Every run checks deadlock. A line "(same run)" is a part of the run above it that
shares no state with the other parts.

### What the failing runs show

- `link_broken`: `setNetLose` notifies a condition variable that `getUpdateNetState` waits on
  without a predicate. A reader or writer that gives up between the start of the threads
  and the wait ends both threads, and the watch thread waits for ever.
- `havc_answer`: between the last notification of `HavcThread` and the removal of the
  thread from the list, a second or more, a command sees the thread, waits for it and is
  not answered; RecvTask then handles no message any more.
- `ethernet_lost`: a lost connection makes the monitor clear `mConnectionActive` and join the
  threads. A writer that is waiting for a request at that moment is not notified, and
  `SendMessage` queues nothing any more: the join never returns.

### What was seen and has no property

The way back to an address that works is lost in the following events, which
`KnownGoodReachable` names as lapses (`Lapse`):

- a second 0x81 comes before the first change was tried: `ChangeNetParmSave` is overwritten
  (`Tbox.cpp:336`);
- 0x81 begins while a revert is under way, which may clear the flag of the new change;
- a revert begins between the write of the file (`Tbox.cpp:294`) and the saving of the old address
  (336-341), or with nothing saved (`ChangeNetParm` is uninitialised at boot): it writes an empty or
  an older address. `vehicleConfigInit` assigns what it reads of the file without a test
  for null, so an empty address may end the process as well; the model goes on and never connects;
- START_SAMPLING writes back the file it has read before a revert wrote it (`Tbox.cpp:1003`);
- a factory reset cannot open the vendor's file: the emptied file stays (`Tbox.cpp:1043`), nothing
  can be written into it, and the next boot removes it and copies the file of the site;
- a reset brings an address that never accepted a login;
- the process restarts between a change and its first login: `ChangeNetParmSave` is kept in memory
  only, and the new address is in the file.

A lapse ends with the next accepted login, if file and memory agree on an address that accepted
one and no revert is under way, or with a restart onto such an address; from then on the property
holds again.

A logout is not sent by a vehicle that falls asleep before its accepted login was handled; in service
the retry counter is reset before every attempt; a command that fails its validation keeps
its reference; a report appended between the reading and the removal of the file is lost
(`unread`, which `AllAccounted` allows); of two calls of `subscribe` the one with the lower
rate may reach the timer last; the reader of the Ethernet link may end while the connection
still counts as active, and a caller of `receiveData` then waits without an end. `PROJECT.json`
lists most of them under "hazards" with their lines. Smaller ones of the same kind: `isConnectionAlive`
passes a connection the server has closed until the reset arrives; `closeDevice` clears the flag
that the monitor tests before it joins its threads; an SOC event is noticed only by a watch task
that is waiting.

Of the MCU's update: `parseOtaMsg` returns 0 for every well-formed message that is not about
the update (`CommConn.cpp:5360`, against the comment at 5295), so an MCU that stays in its
application keeps the update going for ever; a failed transfer (5845) starts an iteration that
composes the next piece, so the one before is skipped in spite of the copy kept at 5490 and
5574; `reboot()` (5380) is empty; the word "2" is written for success and failure alike; the
image is closed twice when a transfer fails at its end; an answer to the last message of an
update is counted for the packet in the other buffer. `pb_get` reads length and number of
a slot without the mutex under which `pb_add_raw_vary_data` writes them one after the other
(4229). An empty message from the MCU clears the resend counter, whatever it says of the last
packet.

Of the reports: an alarm cycle above thirty makes the size of the window 0
(`main.cpp:605`), and the loop that makes room (649) then waits for ever on a queue that only
its own task fills: no report is created any more. A cycle of 0, or a `localStorageCycle`
below 1000, divides by zero. If the alarm cycle becomes shorter late in alarm mode, the counter
passes the number it is compared with (661) and alarm mode goes on until another alarm has
ended. With the alarm cycle of the factory (1) a report that was sent is in the window as well and
is sent again when an alarm begins. At the turn of the year the seven-day rule counts one day
too many (a report of the seventh day is dropped, one of any other time of the year is not),
and over the end of February of a leap year one too few.

## Fairness

Weak fairness of each thread of the process: they are ordinary threads of an ordinary scheduler
and every wait of theirs ends by a time limit or by the step of another. Nothing is assumed of the
platform, the network, the SOC or the clients, and spurious wake-ups are not forced.
`WatchTaskSample` is not fair: nothing waits for it. `RecvPrompt` and `Prompt` name one timing
assumption each: a message that has arrived is handled within the second before the next attempt,
and RecvTask reaches its wait within a sleep of the worker. Of `link_service` and of the proofs
only `KnownGoodReachable` needs the first; no proof needs the second. In `SubscriptionManager` the
death of a client is reported and the work of `onCallbackDead` goes on. In `EthernetLink` the
monitor, the reader, the writer and the caller are fair, each as one thread; the server and the
network are not. In `McuTransfer` the transfer thread is fair: it never waits. `UpdateEnds` and
`RingDrains` ask in addition that transfers stop failing and, for an update, that the MCU speaks
of nothing else. In `HeatControl` the three threads and RecvTask are fair, and so are the
vehicle's heaters and high voltage, which follow a request some time. `AlarmWindow` and
`SevenDays` have no liveness property and assume no fairness.

## Proofs

All theorems are of the form `Spec => []P`, or a refinement, for every value of the
constants that satisfies the module's assumptions, by an inductive invariant `IInv`.

- `TboxLinkProofs`. `IInv` is the type invariant, `ThreadsInv` (which threads exist at each
  place of the watch thread) and `CountInv` (the counters of reads and writes below their
  limits while the loops run). `SocketOwned` alone is not inductive: that nobody is left
  after `Join` follows from what `Stop` found. The steps are split into those that leave the
  connection alone (`StepKinds`) and those that do not. `SocketRefinement` maps each step to
  a step of `SocketUse` or a stutter; a restart is its
  `Exit`, which only a process that begins anew can take (`SpecWithExit`). `ReportsAfterLogin` has its own invariant,
  `LoginInv`: before the first accepted login no time request is queued and no answer to
  one is on its way. It assumes that the uninitialised `mState` does not happen to be a
  state that reports.
- `KnownGoodKept` of the same module: outside the lapses an address that accepted a login is in
  the file, or is the one a revert goes back to, or is in memory while 0x81 is about to save it;
  for any number of commands, any vendor's file, either boot value of `ChangeNetParm`,
  failing resets, restarts, and with or without the sample link. `GoodInv` is `MessageInv` and,
  outside the lapses, `AddressInv`. `MessageInv` follows the messages of a connection from the wire
  over the queue into the hand of RecvTask: nothing comes before an accepted login, so that it is
  handled before a command that changes the address (`OrderInv`), and a login still to be sent is
  the first message of its connection (`PendingInv`). `AddressInv` is the property with what
  makes it inductive: when nothing is under way, memory and file agree (`MemoryInv`); within 0x81 the old
  address is in memory and the new one in the file (`ChangeInv`); the address kept aside accepted a
  login, and no revert is under way within a change (`RevertInv`); the platform is asked at
  the address in the file, or a revert has written a better one meanwhile, and an accepted login on
  its way is about the address in the file (`PlatformInv`). The one assumption is `RecvPrompt`, and
  it is needed: with a RecvTask slower than the second between attempts an old answer is handled in the
  next connection and clears the flag of a change that was never tried.
- `WaitsAfterFailures`: in test mode the retry counter of the code is never behind the
  failures that the history of `MCTboxBackoff` counts, and before an attempt without a login is
  torn down, its failure is counted already (`CountedInv`); that step depends on `state`, which
  must still say then that the platform was reached.
- `RemoteHavcProofs`. `IInv` adds to `HeldWhileWorking` where each thread can be inside
  `vehicleKeepAwake` and that a count of zero with a request means that a call is under way
  that will withdraw it.
- `SubscriptionProofs`. `IInv` adds that a request stands for a listed client (so that the
  HAL's entry survives) and `PolledInv`, which speaks of the HAL's entries: unsubscribing
  the last client clears the entry and the timer in one step under the lock, so an entry
  without a timer always belongs to a call that has not ended.

- `EthernetProofs`. `IInv` ties the place of the monitor to the flag, the socket and the threads
  (`ThreadsInv`); `QueueInv` says that what a late `SendMessage` queues between two
  connections is marked, so that nothing else is old when the next one opens; `EndsInv` that
  the buffers are empty by then; and `StreamInv` that what lies between the server and the
  caller - packet buffer, read buffer and wire in this order - is a stream in which every
  head that is not last has its body. `PacketsWhole` needs the whole stream: a packet is
  taken from the front of it, and the lemmas on sequences say that its end, its beginning,
  a new piece and the move of a piece from the wire to the buffer keep it in order.

- `PipelineProofs`. `TypeInv` is the type invariant and that a task at `save` or `send` has a
  report in its hand. `OrderInv` adds that the seven stations of the backlog, put after one
  another, ascend and hold only reports that were created (`InLine`), and that between
  the reading of the file and its removal what was read ascends and is in the file
  (`Reading`): a report moves from the head of one station to the end of the one before it,
  which leaves the line as it is, or it leaves the line. `AccountInv` says of the eight
  places a report can be in that no report is in two of them or twice in one, and none of
  those that are gone is in any. The module begins with the lemmas on ordered and separate
  sequences that these moves need. `StoreRefinement` maps the live queue to `live`, the other
  six stations to `stored`, and what is in the send queue or in the hand that will put it
  there to `sending`; `OneSending` says that this is one report at most. A step from one station of the
  store to another is a stutter (`MovesInside`), and `Ordered` makes what enters or leaves it
  the first (`MovesIn`, `FirstOfStore`). A restart is what needs both invariants: what
  memory held is just what is neither in the file nor gone.
- `TimingProofs`, about `AlarmWindow`: `WindowInv` is inductive. `SpacedInv` says that each report
  of the window is one alarm cycle older than the next, at least; so a window
  that is full reaches back as far as it has places (`EvictedOld`). `GapInv` bounds `sinceKept` by
  the remainder of the cycle counter, and `ModeInv` makes the counter of alarm mode the time since
  the alarm began. The cycle is a variable, and a remainder by a variable is beyond the provers:
  `Division` and `NextRemainder` state the few facts about it that are used, proved
  from what the quotient is. What the properties say after the parameters
  changed (nothing, `changed`) is not in the invariant either.
- `TimingProofs`, about `SevenDays`. The days are numbered as a calendar numbers them (`DayNo`); `NextDay` and
  `DayBefore` say that a day more or less is a number more or less, so that `age` is the
  difference of the numbers (`AgeInv`). `SameYear` bounds the error of the rule within a
  year by one day, in one direction only for a date that is not in the future; `OtherYear`
  says that the turn of the year counts one day more and that all other dates of
  different years are more than six days apart.
- `HeatProofs`. `IInv` adds who has a thread (`ThreadInv`), that while the voltage was
  asked up and no heater is asked for some thread will still see all of them off
  (`CloserInv`, the reason why the last one to read takes it down), and that of the heaters that
  worked all along a thread has seen those it has read (`SteadyInv`).
- `McuProofs`. `LinkInv` says that the answer "right" about a buffer means that the MCU has
  its packet, and bounds how often a packet was overtaken by the attempts that are left.
  `UpdateInv` is `LastInv` (the packet kept for repetition is the last one made), `AckInv`
  (an answer under way is about a packet that was made and is stored) and `PhaseInv` (the next
  one is made when all are confirmed). `Composition` shows that each step of
  `McuTransfer` is a step of `LinkSpec` or leaves its state alone, and the same for
  `UpdateSpec`; so the invariants, proved of the two alone, hold of the thread.

  `TransferTypes` and `PacketsOvertaken` are the types and the bound on overtaking for the composition.

`BackoffInv`, `WindowInv` and the refinement of `StoreAndForward` were checked with TLC on the
constants of the runs before they were proved; `GoodInv` on those of `link_service` with the sample
link on, the history of `MCTboxBackoff` and one answer in flight (15.9 million states, which is too many
for a run kept here).

Every invariant of a passing run, and every refinement, is a theorem. Only model-checked is
liveness, which the prover cannot do: `TeardownCompletes`, `AwakeReconnects`, `CloseEndsWorker`,
`BacklogDrains`, `DeadForgotten`, `CommandAnswered`, `UpdateEnds`, `RingDrains`, `PacketReturned` and
`RequestsWritten`. The theorems about the dates are for the years 2001 to 2098, in which every
fourth year is a leap year.

## Not modelled

Most lines of this repository are not logic of its own: generated CAN tables
(`me11_cmx_baccanfd_ots_car_v02.*`, `*_can_ccm_4_0.h`), garage-mode switch statements over them,
generated HAL types, protocol buffers, prebuilt headers, applications and vendored
libraries. They hold no protocol between threads, and no model is made of them.

Of the program itself: byte layouts, the message texts, the archive of seven days (the
counter that fills it, its task and its files), the vehicle's sampled values; the sample link,
which repeats the platform link with fewer messages, except that its failed connect reverts the
platform's address, and the sample queues; `closeDevice` of
the Ethernet link, which only destructors call. Of the MCU link the protocol versions
1.0 and 1.1, the serial port, the reassembly of UDS frames, and what the messages say: the ring
keeps how many messages wait, and which slot holds which is left to the code's indices. The parts
listed in the plan that are not written yet.

Assumed of the environment: file writes of the update succeed; a failed SPI transfer
exchanges nothing, and in normal operation is repeated; an update is asked for when none is
running; its number of pieces fits in the 16 bits of `otaIndex`; the parameters of the
reports are in the range `WindowAssumption` names. The clearing of a queue without its
lock and torn reads of plain fields are taken as single steps, and so are a write of the whole
configuration file, though the code writes it once per key, and in `sendFunc` of the report pipeline
the dequeue of a message with its write. `Pack` of `McuLink` always takes a message of a ring that has
one: a message longer than a packet would stay in it for ever (`CommConn.cpp:3842`), and that no caller
makes one is assumed; `sendOtaData` keeps to 250 bytes.
`PolledWhileWanted` says that a property is polled and nothing of its rate.
