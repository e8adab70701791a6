# A verification of psip_switch

psip_switch is a software Ethernet switch with two ports: a Qt application that
captures frames on two network interfaces with libtins, learns where stations
are, sends frames on, counts protocols and offers a small REST interface. This
directory holds TLA+ modules of its core logic, TLC configurations that check
them on small instances, and proofs, checked by TLAPS, that the main safety
properties hold for every instance.

`PROJECT.json` is the machine-readable side of this file: components, runs,
mutants, the lines of code each definition stands for, findings, hazards and
theorems.

## The system

| component | state | operations |
|---|---|---|
| `MainWindow` (GUI thread) | what the window shows, `threadTimer_m`, the timers that purge | the slots of the buttons, menus and timers; `refreshUi` |
| `InfoTable` (GUI thread) | whether the MAC timeout can be edited | `refreshUi`, apply timeout, clear |
| `NetworkSwitch` (called by the GUI thread) | the storage, its mutex, two network handles, the REST handle | `startNetwork`, `stopNetwork`, `startRest`, `stopRest`, `state`, `interfaces`, purges, clears, timeouts |
| `NetworkThreadHandle` (one per interface, with a thread each) | its `std::thread`, its interface | `start`, `signalStop`, join in the destructor; the sniffer callback with `send`, `broadcast`, `updateMac` and the statistics |
| `RestThreadHandle` (one thread, and the web server's own) | its `std::thread`, its port, the process-wide `li::quit_signal_catched` | `start`, `signalStop`, join in the destructor; the routes |
| `SharedStorage` | MAC table, sent packets, statistics, sessions, device info, control flags of the threads | `reset`; otherwise plain data under one mutex |
| `StatisticsModel`, `MacModel`, `SessionsModel` (GUI thread) | none but which interface to show | list rows of a table |

Everything the threads share is in `SharedStorage`, and every access takes
`storageMutex_m`, through `lock_guard` in `NetworkSwitch` or through
`SharedStorageHandle::guard()`. The GUI thread never tells a thread anything but
through the flags in it, and a thread never calls the GUI: the window polls
`NetworkSwitch::state()` with a timer. A handle's destructor joins its thread.

What makes it hard:

- **Questions asked twice.** `state()` locks, answers and unlocks. `refreshUi`
  and the button slots ask it once per branch of an else-if chain, `startRest`
  acts on an answer after a join that may take long. The other threads run in
  between.
- **Flags instead of threads.** Whether a thread is alive is derived from
  `running` and `finished`, in entries that `operator[]` creates when they are
  missing. An entry without a thread would mean "Stopping" for ever.
- **A process-wide quit flag**, cleared by the start of a server, set by the
  stop of one.
- **Stopping needs a packet.** A sniffer looks at its `running` flag only in
  its callback.
- **The switch hears itself.** What it sends on one interface is captured there.
  A frame is known as the switch's own only by its bytes being in `sentPackets`,
  which is purged by time, cleared by a restart, and shared by both directions.
- **Time.** MAC entries, sent frames and sessions expire, but are used until a
  GUI timer purges them; the timeout of new MAC entries can be changed to any
  number through REST.
- **A map key that is not one.** The statistics are ordered by
  `interface id + protocol`.
- **Waiting with the mutex held.** The two PUT routes read the request's body
  inside the critical section. The window joins threads that need the mutex.
- **Fibers that share threads.** Lithium runs each handler as a fiber on one of its
  worker threads. `guard()` locks a `std::mutex`, which stops the whole thread and every
  other fiber on it.
- **Tables seen through a keyhole.** The Qt models take the mutex once for the
  number of rows and once for every cell.
- **An index into a list that a timer replaces.** A start goes by the combo boxes'
  indices in the interfaces polled last. It replaces two handles and two table models one
  by one, in two functions of which one may return early or throw.
- **Time in three units.** A timeout is asked for in seconds, kept in
  milliseconds and compared in nanoseconds, all in 64 bits.

## Modules

| module | what it is |
|---|---|
| `SwitchControl` | abstract: the four phases of `NetworkSwitch::SwitchState` and the five ways between them |
| `SnifferLife` | abstract: how sniffers are launched, end and are cleared away. `SwitchLifecycle` implements it, `Forwarding` is written on it |
| `Authorisation` | abstract: a token is opened once, serves, becomes overdue, is closed for ever |
| `SwitchLifecycle` | the GUI thread, the two network threads, the REST thread: starting, stopping, joining, showing. Implements `SwitchControl` and `SnifferLife` |
| `Forwarding` | the sniffer callbacks, the MAC table, the sent packets, time, purges, REST and GUI edits, restarts |
| `Statistics` | the counters, their keys, clearing, and the rows shown |
| `RestApi` | login, logout, the authorised routes, sessions and their expiry, the edits. Implements `Authorisation` |
| `Timeouts` | the arithmetic of the timeouts, with its units, roundings and overflows |
| `TableView` | the three Qt models, read cell by cell while the storage changes |
| `StorageLock` | the mutex, the joins, the bodies of requests and the web server's worker threads: who waits for whom |
| `InterfaceChoice` | the polled list of interfaces, the combo boxes and the start that goes by them |
| `Tables` | the operators on the storage's tables that the modules share |
| `SwitchLifecycle_proofs`, `Forwarding_proofs`, `Statistics_proofs`, `RestApi_proofs`, `Timeouts_proofs`, `TableView_proofs`, `StorageLock_proofs`, `InterfaceChoice_proofs` | the theorems |
| `MC...` | instances for TLC |

How they fit together. `SwitchLifecycle` leaves out what a callback does with a
frame, and `Forwarding` leaves out who starts and joins threads. What `Forwarding`
assumes of the sniffers is written down in `SnifferLife`: its `reset`, `start` and
`closeSniffer` have the guards of `Clear`, `Launch` and `Close` and no others, so it goes
through every life of the sniffers that `SnifferLife` allows. That the threads'
real lives are among those is `ImplementsSnifferLife` of `SwitchLifecycle`. That the
guards are the same is by construction: a reader compares six lines, no run does. `RestApi` lets the network restart only without a
server, which is `IdleMeansNoThread` of `SwitchLifecycle`. All modules but
`StorageLock` take a critical section as one step; `StorageLock` looks inside and
asks whether everybody gets through. `Forwarding` counts time in ticks that fit
any timeout; `Timeouts` has the arithmetic.

### SwitchLifecycle

A step is a block of code that holds the mutex once, or a join. The names in the
window are read in a section of their own (`readNames`), after the branch is chosen. The GUI thread
has a program counter `pc`; `"loop"` is Qt's event loop, in which a slot or a
timer may begin. An operation that takes the mutex five times is five steps, and
the chain of `state()` calls in `refreshUi` is `refresh1` ... `refresh4`.
`refreshUi` is called from several places, so `ret` keeps where it returns to.

| variable | code |
|---|---|
| `interfaces`, `restThread` | `ThreadControl` of the entries in `storage.interfaces`, and `storage.restThread` |
| `quit` | `li::quit_signal_catched` |
| `netThread`, `restServer` | where the threads are: in the library's loop, on the way to set `finished`, or returned and not joined |
| `handle`, `restHandle` | `interface1_m`, `interface2_m`, and whether `restThread_m` is null |
| `shown` | which branch of `refreshUi` drew the window last; it decides which buttons are enabled |
| `timer` | `threadTimer_m.isActive()` |
| `timeoutEnabled` | the controls in `InfoTable` |

`reset` of a `unique_ptr` constructs the new handle and then destroys the old
one, so `joinFirst`, `joinSecond` and `joinRest` wait for the old thread. The
interfaces of a start are any two different ones.

The data the callbacks work on is left to `Forwarding`; here a callback only
reads the flag (`packetCallback`). From the libraries come `sniffLoopEnds` (the
capture fails), `httpServeReturns` (asked to) and `httpServeFails` (for example a
port in use).

### Forwarding

The state is the part of the storage the callback uses, plus `captured`: the
frames sniffers have captured whose callback has not run. `transmit` is a host,
or the machine's own stack, putting a frame on a segment. `process` is the whole
callback, which runs under the mutex; its early returns are `reject`, its two
other ways `multicast` and `unicast`. `Emit` is what `PacketSender::send` does to
the world: the frame is on the segment, and the sniffer there, if open, captures
it (an `echo`). Two frames are the same when their bytes are (`FrameOf`), two
transmissions of the same bytes are different members of `Tx`.

A `Tick` makes every entry and every captured frame older. Ages saturate one past
their timeout. `MaxLag` bounds how long a captured frame waits; the order in
which waiting frames are handled is left free, which includes the order of
capture.

`Origin` says from which segment a transmission is made. A station may use another
segment each time, and may use another's address: what is known of a station is
where it was `Heard`. `interfaces` starts empty and grows by one entry per `start`, so the first thread
may forward while the second interface is not there yet.

### Statistics

`statisticsTable` is a function from `StatisticKey::value()` to the key that made
the entry and its counters: that is what `std::map` with this comparator is.
`counted` is a history variable with the true numbers. Which layers a packet has
is given per packet; HTTP is derived from the ports as the code does, with 443
on the way in only. A statistics step is one call of `inputStatistics` or
`outputStatistics`; when `Forwarding` would call them does not matter here.

### RestApi

A handler finds the token among the sessions and acts in one critical section: one
step. The two PUT routes are several steps in one critical section: `put` finds the token
and waits for the body, then the body is unreadable (`bodyUnreadable`), the interface is
not there (`noSuchInterface`), or the parameters are stored one after the other
(`storeName`, `storeUp`; `storeHostname`, `storeTimeout`). `edit` is the PUT that
holds the mutex meanwhile: nothing else that needs the mutex happens, time passes, and
`serveEnds` may unwind it. `Id` are the ids a request may name, of which not all are
interfaces the switch runs on, `Device` stands for `PUT /device/edit`.

A request may be refused before the mutex is asked for: a wrong password or unreadable
parameters of a login, a header that does not begin with "Bearer". A header that is
"Bearer" and nothing else makes `substr(7)` throw `std::out_of_range`; what lithium
answers then is not looked into, and no state changes (`headerRefused`).

The n-th login gets token n; `0` stands for a token nobody was given, and a
request comes with any token ever handed out, also a spent one. `answer` is the
response sent in this step; `given`, `logins`, `before` and `edit.found` are history. The
order of the vector of sessions is not modelled beyond its last element, which is the
latest login (`Back`). `updateSessions` runs at least every `PurgeEvery` ticks in which the
mutex can be had, which stands for the timer's period and the delays of a busy GUI thread;
`denied` counts the ticks in which a PUT keeps the mutex from it. What an edit does
to forwarding is in `Forwarding`, what its number of seconds becomes in `Timeouts`.

### Timeouts

The integers of `std::chrono` have a width (`MaxRep`), and what leaves it wraps
(`Wrap`). `Milliseconds` is the first product, `Ends` has the second and the sum,
`timeLeft` the difference, `Truncated` is `duration_cast`. `asked` and `askedFor`
are history: the seconds somebody asked for. `Fits(n)` says that no step of the
arithmetic overflows for `n` seconds. With 64 bits that allows timeouts of 292
years; the spin box stays below, `PUT /device/edit` does not have to.

### TableView

`model` is the interface a `StatisticsModel` shows; `MacModel` and
`SessionsModel` are the case in which every entry belongs to the one shown.
`layout` is the view's call of `rowCount`, `paint` one call of `data`, each a
critical section of its own; `insert`, `overwrite`, `erase` and `logout` are what
the other threads and timers do between them. `changed` is history: what
happened since `layout`.

### StorageLock

A chain of critical sections in a slot of the GUI is left open: after one comes another
one, a stop, or the event loop. A join comes only after `state()` has given, from the
flags of the threads (`State`), the answer `startNetwork` or `startRest` asks for. That
the answer still holds at the join is proved, not written in.

A handler is a fiber on the worker thread `WorkerOf[h]`. `reading` is a login that reads
its parameters before it takes the mutex, `body` an edit that reads them inside; in both
it is suspended and its thread serves others. When the client has sent the rest
(`arrived`), the handler goes on once its thread is in its event loop, that is, not
`Busy` with a handler that waits for the mutex or holds it. When the server is to quit,
an idle worker unwinds what is suspended on it (`workerEnds`), which releases the mutex.

From this follows a circle. A PUT waits for its body with the mutex, another
request on the same worker blocks in `guard()`, and the worker never again resumes the PUT,
although its body is there. This is `Stuck`, and the module says exactly what the code
gives: there is no other circle (`NoCircle`), and out of this one there is no way, not even
by stopping the server (`StuckForEver`). The GUI thread blocks with its next look at
`state()`. The repository says nowhere that this does not happen, so it is not in
the list of findings; it is the gravest thing these modules show.

### InterfaceChoice

The machine's interfaces (`system`) change at any time, the timer polls them into
`interfaces_m`, `refreshUi` fills both boxes (`items`, `index`) from it while the
switch is idle, and `startNetworkThread` goes from the indices to interfaces.

A slot is several steps (`pc`): the names of the chosen interfaces are looked up
(`startNetworkThread`), `startNetwork` asks for the state and may return early, then the
handles are replaced one by one (`resetFirst`, `resetSecond`), then the caller replaces the
models of both tables, whatever `startNetwork` did (`setModels`), and `refreshUi` ends the
slot. Between the steps the machine may change and threads may end, but nobody clicks. An
interface that has vanished when it is looked up makes libtins throw in the slot, and
the process ends (`ended`), with one handle replaced if it was the second. `All(S)` is
some order of the interfaces `S`, the same whenever the same are there; TLC takes one, the
proofs hold for all.

### Slips

Definitions named `Slip...` are mistakes that could be made in the definition
after them: a forgotten assignment, a missing test, a wrong comparison. Nothing
uses them. They are the mutants in `PROJECT.json`: with the slip in place of the
definition, TLC finds the named property violated.

## What the runs check

| run | bounds | properties |
|---|---|---|
| `MCSwitchLifecycle` | 3 interfaces | `TypeOK`, `IdleMeansNoThread`, `UnfinishedHasThread`, `NoTimerMeansIdle`, `JoinsEnd`, `StopRequestSticks`, `ImplementsSwitchControl`, `ImplementsSnifferLife`, `GuiReturnsToLoop`, `WindowCatchesUp`, `StoppingEnds` |
| `MCForwarding` | 10 transmissions, of which those of one scenario are made; `SentTimeout` = `MaxLag` = 1 | `TypeOK`, `MacPointsWhereHeard`, `AtMostOncePerSegment`, `EchoRemembered`, `NewFrameArrives`, `SentPacketsForgotten` |
| `MCStatistics` | ids 1 and 8; 4 packets; counters up to 2 | `TypeOK`, `ShowsWhatWasCounted` |
| `MCTimeouts` | 8 bits; 3 milliseconds in a second, 2 nanoseconds in one; 14 timeouts; `Uptime` 16 | `ExpiresAsAsked`, `ShownIsAsked`, `ExpiredMacPurged` |
| `MCTableView` | 4 keys of 2 interfaces, 2 values | `RowsStayInPlace`, `UndisturbedIsExact`, `ViewCatchesUp` |
| `MCStorageLock` | 1 network thread, the server, 2 handlers on 1 worker | `NoCircle`, `StuckForEver`, `HeldOnlyForABody`, `EverybodyGetsOn` |
| `MCInterfaceChoice` | 3 interfaces | `TypeOK`, `ViewsFollowHandles`, `StartsWhatIsShown`, `BoxesCatchUp` |
| `MCRestApi` | 2 interfaces in use, requests for one of them and for one that is not; 2 logins, 2 of each setting; `SessionTimeout` 1, `PurgeEvery` 2, `MaxDenied` 1 | `TypeOK`, `EachLoginItsOwn`, `OverdueIsShort`, `NoSessionFromBefore`, `RefusedChangesNothing`, `ImplementsAuthorisation`, `SessionsEnd` |
| `MCRefreshFindsState`, `MCRestNeedsNetwork`, `MCDropsOnlyItsOwn`, `MCAdjacentIds` | 2 interfaces; as `MCForwarding`; ids 2 and 3 | one property each, violated: see the findings |

**Lifecycle.** The state space of the lifecycle is finite for a given set of
interfaces, without any bound. Three interfaces are the smallest number with which
a restart can keep one, both or none of the old ones in either role.

**Forwarding.** Two ports are what the program has. The `Scenario`s of
`MCForwarding` are sets of transmissions, made in any order: the shortest exchange
in which a frame is flooded, answered by a learned entry and repeated with the same
bytes; the same with a host that has moved before it repeats itself; a broadcast
and a frame for the far interface; a frame from the machine itself and a jumbo frame
for a wireless segment; a frame to oneself, one for the interface at hand, and an
answer. They reach every branch of the callback. `SentTimeout = MaxLag` is the
tight case in which an echo is handled at the last moment; off by one in the purge,
it is lost (this is one of the slips). Each transmission is made once; the number of
restarts, purges, edits and ticks is not bounded. The MAC timeout has one value here;
the interplay of entries with different ones is `ExpiredMacPurged` of `MCTimeouts`.

**Statistics.** The counters are bounded by `MaxCount`: with 2, the clear of one
counter and the confusion of two can be told from correct counting. The ids 1 and
8 are the nearest for which the key works.

**Timeouts.** The width and the units are scaled so that both products overflow
for some of the timeouts, and for each boundary there is one on either side; the
values include both ends of the integers. `Uptime` is past the longest timeout
that the window offers. One station, since entries do not touch each other.

**TableView.** Four keys with those of the other interface in between let rows
vanish before, at and after the one that is being read. `MacModel` and
`SessionsModel` have no filter and are covered by the same run.

**StorageLock.** Two handlers on one worker are the smallest number that can hold each
other up; on two workers nothing new happens, since a handler hinders others of its own
worker only. The liveness properties are out of reach with a second network thread,
which differs from the first in nothing here; that a restart joins two threads in order is
in `MCSwitchLifecycle`, and the safety properties are proved for any number of threads,
handlers and workers. Deadlock is not checked: in `Stuck` the program really stops.

**InterfaceChoice.** Two interfaces to run on and a third that comes or goes before,
between or after them, so that indices shift. Deadlock is not checked here: the
process may end.

**RestApi.** With two logins one session can be erased while the other stays, before
or after it. A request names an interface in use, or one that is none. `MaxLogins` bounds
the behaviours, `MaxDenied` how long PUTs keep the mutex between two purges: in the code
that is up to the client, and `OverdueIsShort` says how it adds to a session's life. Time
does not end.

The properties in words, and what could break them, stand above each in the
modules. The most important ones:

- `IdleMeansNoThread`: `state()` says Idle only when no thread is alive. This is
  what makes `startNetwork` safe when it clears the storage.
- `UnfinishedHasThread`: there is no entry without a thread, in spite of
  `operator[]` in `interfaces()`, `signalStop` and the threads. So Stopping is
  never a dead end.
- `JoinsEnd`: the window joins only threads that have ended, or a server that was told to
  quit, although the answer of `state()` it goes by is some steps old at the join.
- `StopRequestSticks`: nobody takes a stop request back from a live thread,
  although both restarts reset flags.
- `ImplementsSwitchControl`: seen from outside, the switch moves along the five
  edges only. The mapping `PhaseOf` is `state()`, except where an operation has
  looked at it and not finished acting: between the two `signalStop` calls, and
  between the check of `startRest` and the start of the server.
- `AtMostOncePerSegment`: no forwarding loop, whatever the order in which echoes
  are handled, and through purges and restarts.
- `EchoRemembered`: the reason for it. An entry is made together with the echo and
  is purged only after `SentTimeout`; a restart that clears the table also drops
  what the sniffers had captured.
- `NewFrameArrives`: a frame taken for new reaches the segment of its destination
  by one of the ways (machine, learned entry, flooding), if the interface is
  attached and the frame may go there. Of a station that has spoken from both
  segments this cannot be said.
- `MacPointsWhereHeard`: a station's entry points to a segment it has spoken from.
  Every forwarded frame is captured again where its source is not, and must not be
  learned from.
- `NoCircle`: whoever waits for the mutex or in a join waits in the end for somebody
  who can run, for a client that has not sent its body, or the switch is `Stuck`.
  `StuckForEver`: then the same handler holds the mutex for ever.
- `EverybodyGetsOn`: if clients finish what they send and the switch is not `Stuck`,
  everybody gets the mutex and the window gets past its joins. `HeldOnlyForABody` says that
  nothing else keeps the mutex for ever. A client who does not finish, or two requests
  that share a worker at the wrong moment, stop the whole switch: both are premises, and
  neither is ensured by the code.
- `ImplementsAuthorisation`: a token serves from its own login to its own logout, its
  purge, a clear or the next run of the switch, and never again. `OverdueIsShort`
  bounds how long it serves after its expiration, which the routes do not look at, by the
  purge's period and the time PUTs kept the mutex.
- `RefusedChangesNothing`: a PUT that is refused in the end, after a body that was long in
  coming, leaves the interfaces and the device as they were when it took the mutex. It
  would not if a parameter were read after another was stored, or if the mutex were let go
  of while the body is awaited.
- `RowsStayInPlace`, `UndisturbedIsExact`, `ViewCatchesUp`: what a view may show while
  the table changes under it, and that it ends up right.
- `ExpiresAsAsked`, `ShownIsAsked`: for the timeouts that fit, an entry expires when as
  much time has passed as was asked for when it was learned, and the window tells
  the truth about it.
- `StartsWhatIsShown`: a handle gets the interface its box shows at that moment, although
  the list behind the indices is polled. `ViewsFollowHandles`: each table belongs to its
  handle's interface when the window reacts again, although `startNetwork` may return
  early and its caller sets the models all the same. The click's own question for the
  state is what it rests on.

### Fairness

- The GUI thread and the threads keep running: `WF` on `GuiStep`, `finishNetwork`,
  `finishRest`, on the callbacks of a network thread in `Forwarding`, on the
  critical sections in `StorageLock` and, in `RestApi`, on the stores of a PUT that has its
  body.
- A worker's event loop comes to every handler it can resume: `SF` on `loginRead` and
  `editRead`, which are enabled only while the worker is not blocked, and `WF` on
  `workerEnds`. Nothing is assumed of a worker that blocks in `guard()`.
- Qt delivers a due timer between other events: `SF` on `threadTimer`, because a user who
  clicks all the time disables it again and again without starving it. `WF` on
  `updateMac`, `updatePackets` and, in `TableView`, on `update`; `SF`
  on `Poll`, the timer of `InterfaceChoice`, for the same reason, and `WF` on what a slot
  that has begun still has to do; Qt paints what is to be painted (`layout`, `paint`,
  `painted`). Time passes (`Tick`).
- The server notices its quit flag: `WF` on `httpServeReturns` and, with its
  handlers idle, on `serveReturns`. Lithium polls the flag, and takes no new
  requests once it is asked to quit.
- Whoever asks for the mutex again and again gets it some day: `SF` on `lock`, and on
  `updateSessions` in `RestApi`.
  `std::mutex` does not promise that; its implementations come close enough.
- Nothing obliges the user, the network, a client or a library to act or to fail. Three
  liveness properties state what they need as a premise. `StoppingEnds` needs `Traffic`,
  packets that keep arriving on both interfaces: without one the callback, the only place
  where `running` is read, is not called. `EverybodyGetsOn` needs `ClientsFinish` and that
  the switch is never `Stuck`. `SessionsEnd` needs that no PUT waits for its body for ever.

The modules other than `StorageLock` and `RestApi` take for granted that a thread that asks
for the mutex gets it. So `GuiReturnsToLoop`, `WindowCatchesUp`, `StoppingEnds`,
`SentPacketsForgotten`, `ExpiredMacPurged` and `ViewCatchesUp` hold under the premises of
`EverybodyGetsOn`: a PUT without a body, or a stuck worker, stops the purge timers
and the window too.

### Findings

1. `RefreshFindsState` (`mainwindow.cpp:150-234`). A thread that ends between two
   of the four `state()` calls makes `refreshUi` take none of its branches and
   log "An unknown UI state detected!". The window is drawn right by the next
   tick of the timer, which this path does not stop (`NoTimerMeansIdle`,
   `WindowCatchesUp`).
2. `RestNeedsNetwork` (`network_switch.cpp:46-52`). The check "Network threads are
   not running!" is stale when the server starts.
3. `DropsOnlyItsOwn` (`network_handle.cpp:58-64`). "did we send this packet?" is
   answered by the bytes alone: a host that repeats itself within 300 seconds is
   not heard.
4. `ShowsWhatWasCounted` with adjacent ids (`shared_storage.h:53-56`). Keys with
   the same `value()` are one entry, so counters of different protocols of two
   interfaces are mixed.

Met while reading, and settled without a run: the window says "REST on port: 8888"
whatever port the server listens on (`mainwindow.cpp:190`), and ports above 32767
are narrowed to negative numbers (`rest_handle.h:47`).

## What is proved

The proofs hold for all values of the constants that satisfy the assumptions that
stand in the modules: `InterfaceAssumption` (ids are natural numbers);
`TopologyAssumption` (every interface has its own address; unicast and multicast
addresses differ) and `TimeAssumption` (a callback is not delayed by more than the
sent packet timeout); `StatisticsAssumption`; `RestAssumption`;
`TimeoutAssumption` (the defaults and what the window offers fit the integers);
`ViewAssumption`; `ActorAssumption` and `WorkerAssumption` (every handler has one worker); `IdAssumption` (a machine has finitely many
interfaces at a time to choose from). `CountersAreExact` also assumes `SpacedIds`.

| module | theorems |
|---|---|
| `SwitchLifecycle_proofs` | `TypeCorrect`, `IdleIsSafe`, `NoPhantomEntry`, `TimerIsSafe`, `StopIsFinal`, from `Inductive`; `FollowsThePhases`, `SniffersAreHandledSafely`, from `AskedAlike`; `SlotsAreShort`, `JoinsAreShort`, `StopDrains` |
| `Forwarding_proofs` | `TypeCorrect`, `LearnsRight`, `NoLoop`, `EchoIsKnown`, `Delivers`, from `Inductive` |
| `Statistics_proofs` | `CountersAreExact`, `TypeCorrect` |
| `RestApi_proofs` | `TypeCorrect`, `LoginsAreApart`, `NotLongOverdue`, `RunsAreApart`, `RefusalIsHarmless`, `ServesOnlyTheOpen`, `NobodySlipsIn`, `TokensStayClosed`, `UseDoesNotRenew`, from `Inductive` |
| `Timeouts_proofs` | `TypeCorrect`, `ExpiresOnTime`, `ShowsWhatWasAsked`, from `Inductive` |
| `TableView_proofs` | `TypeCorrect`, `RowsAreEntries`, `PictureIsTable`, from `Inductive` |
| `StorageLock_proofs` | `TypeCorrect`, `OneInside`, `NoWaitingInACircle`, `NoWayOut`, from `Inductive` |
| `InterfaceChoice_proofs` | `TypeCorrect`, `TablesBelongToHandles`, `TwoInterfaces`, `StartsRight`, from `Inductive` |

The types of `TableView`, `StorageLock` and `Timeouts`, mutual exclusion in
`StorageLock`, and what is stated in the proof modules themselves (the steps of slots,
the phase Stopping, the tokens, that the switch never runs on one interface twice) are
proved and not run.

**Lifecycle.** `IdleMeansNoThread` is not inductive: that Idle implies no thread
needs that an entry is unfinished *exactly* while its thread is alive
(`EntriesAndThreads`), which `operator[]` would break by itself if the entries
were not those of the two handles (`EntriesAndHandles`) outside the few steps of
`startNetwork` in which they differ; there, nothing is alive
(`NoThreadWhileReplacing`). The same for REST is `RestThreadInv`, which has to say
that between the check of `startRest` and the new server no server is
asked to run. `TimerInv` says where the GUI thread can be with the timer off.

**Its refinements.** Every step is shown to move `PhaseOf` along an edge of
`SwitchControl` or not at all, and the sniffers as `SnifferLife` allows. Two facts
are added for that: a restart launches into an empty table with the old server gone
(`RestartIsClean`), and both network threads have been told the same, except between
the two `signalStop` calls (`ToldTheSame`).

**What its liveness rests on.** `GuiReturnsToLoop`, `WindowCatchesUp` and
`StoppingEnds` are liveness and stay with TLC, but what they need of the code is
safety, and proved. `SlotsAreShort`: with `StepsLeft`, the most steps from each place
of the GUI thread to its event loop, every step of a slot makes it smaller and no other
thread's step changes it; 14 is the most. `JoinsAreShort`: the joins of a restart find
threads that have ended, and the join of an old server one that was told to quit
(`ServerIsTold`). `StopDrains`: in the phase Stopping no thread comes to life, so the
number of live threads only shrinks. What is left to fairness is that each thread takes
its next step.

**Forwarding.** A loop would need an echo that is taken for new. `EchoIsYounger`
says that the entry of a waiting echo exists and is at most as old as the echo.
With `MaxLag <= SentTimeout` a purge leaves it alone. `OriginalIsUnsent` says that
a frame that waits as an original was not sent anywhere yet, so that sending it
makes it once. `CapturedIsOpen` says that a closed sniffer keeps nothing, which is
why a restart may clear the table. Since echoes are rejected before `learn`, the
MAC table points to where a station was heard.

**Statistics.** Under `SpacedIds`, `value()` is injective (`ValueIsInjective`), and
every entry stands where its key belongs and holds the true count
(`TableIsExact`). Without it the run `MCAdjacentIds` shows the counterexample.

**RestApi.** `OverdueIsShort` is not inductive, since a tick makes every session
older. `OverdueSincePurge` says that no session is past its timeout by more than the
time since the last purge, and a tick needs that to be less than a period, or a PUT that
waits. `EditHolds` is what the mutex gives the PUT between its steps: its token still has a
session, its interface is still there when it stores, and nothing is stored before all has
been read. From the last follows `RefusalIsHarmless`. For the
refinement every route is either served, which needs the token among the sessions,
or refused, which leaves the abstract state alone. `Authorisation` knows the token that
was served last and not how often, so serving it once more could pass for a stutter;
`NobodySlipsIn` says of the routes themselves that an "ok" needs a session.
`UseDoesNotRenew`, with `OverdueIsShort`, gives the most ticks a session can
last, `SessionTimeout + PurgeEvery + MaxDenied`, and `TokensStayClosed` that it is over then: what
`SessionsEnd` adds is only that time passes.

**Timeouts.** `DurationsAsAsked` ties each duration to the seconds asked for, through
`Wrap`. Where the timeout fits, the wraps are the identity (also of the sum, since the
clock stays below `Uptime`), and the comparison in nanoseconds is the one in seconds.
What the window shows goes through two divisions that round toward zero.
`TruncatedProduct` says that one undoes the product by the same unit, `TruncatedBound`
that it keeps the sign or gives zero, and keeps upper
bounds: less than a second left, or past, is shown as none, and nothing else is wrong.

**TableView.** That a picture agrees with the table so far is kept by `paint`, if the
row it reads exists: as long as no entry comes or goes, the number of rows from
`layout` is right, and for each smaller number there is exactly one entry with as
many before it (`RowExists`).

**StorageLock.** `OwnerIsInside` says that the owner of the mutex is inside and nobody
else, `Places` where each actor can be. `JoinsTheStopped` says that what `state()`
answered still holds at the join: no other thread starts a thread or takes a stop request
back. `StartsTheEnded` says the same of the starts after the joins. Then
whatever is blocked leads to the owner, who can run, or waits for its client, or for its
worker, which only another handler of that worker can keep busy: that is `Stuck`. In
`Stuck` the worker is busy until it gets the mutex, its owner goes on only when the
worker is not, and `workerEnds` waits for the same (`NoWayOut`).

**InterfaceChoice.** `ListIsShown` says that whenever the user can click, the boxes show
the very list that the indices go into: a poll replaces the list, and the boxes with it
before the next click, or the process ends. Then an index within one is within the
other and names the same interface (`StartsRight`), also in the later steps of the slot
(`ChoiceStays`). `StillIdle` says that a start that has begun finds the switch idle, so
the early return of `startNetwork` is not taken, and `ReplacedInOrder` how far the handles
are ahead of the models at each step: together `TablesBelongToHandles`. That two different
indices are two different interfaces (`TwoInterfaces`) needs that no list has an interface
twice (`ListType`), which comes from `AllIsList` and survives the refill (`ReselectedFits`).

Only model-checked: the liveness properties, which are out of this prover's
reach, and the refutations of the findings.

## What is not modelled

- `Packet::Hash` and `test.cpp`. The set of sent packets depends on the equality of
  packets only; the hash decides how fast it is. How a token is drawn; two are taken
  to be different.
- The texts: names, layout, logging, and the JSON of the answers (into which names go
  unescaped). The route `/`, a demonstration that touches no state.
- The end of the process by `std::exit` or by an exception in a thread: nothing
  persists, so nothing is left to say. In `InterfaceChoice` it is a state without
  successors.
- Overflow of the `int32_t` counters, which needs 2^31 packets.
- The order of the sessions in their vector, beyond which is the last.
- Lithium itself: that a handler is a fiber on a fixed worker, that reading a body suspends
  it, and what ends with the server, is modelled from how the routes use it.
- The build, the entry point and the layout of the forms.

## Plan

All that was planned is done: the lifecycle with its abstraction, the data plane with
moving stations, the statistics, the REST interface, the mutex, the timeouts, the
views and the choice of interfaces. Every invariant and every action property that a
run checks is also proved, and so are the refinements. What could follow: for the
liveness properties of `Forwarding`, `TableView`, `StorageLock` and `InterfaceChoice`
what is done for those of `SwitchLifecycle` and `RestApi`, a measure that is proved to
shrink.
