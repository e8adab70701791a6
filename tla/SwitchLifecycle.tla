--------------------------- MODULE SwitchLifecycle ---------------------------
(***************************************************************************)
(* Starting and stopping the threads of the switch.                        *)
(*                                                                         *)
(* The GUI thread (MainWindow and NetworkSwitch) starts two network        *)
(* threads (NetworkThreadHandle) and the REST server (RestThreadHandle),   *)
(* asks them to stop through flags in the shared storage, and joins them   *)
(* when a handle is replaced.  Every block of code under the storage mutex *)
(* is one step; a GUI operation is as many steps as it takes the mutex, so *)
(* the other threads run between two calls of NetworkSwitch::state().      *)
(*                                                                         *)
(* A definition named Slip... is a mistake that could be made in the one   *)
(* after it; no specification uses it.  The checks are repeated with each  *)
(* of them to see that the properties notice.                              *)
(***************************************************************************)
EXTENDS Integers

CONSTANT Interface      \* ids of the machine's network interfaces

ASSUME InterfaceAssumption == Interface \subseteq Nat

VARIABLES
  interfaces,     \* storage.interfaces: control flags of the map's entries
  restThread,     \* storage.restThread: control flags of the REST server
  quit,           \* li::quit_signal_catched
  netThread,      \* where the network thread of each interface is
  restServer,     \* where the REST thread is
  handle,         \* interface1_m and interface2_m, by interface
  restHandle,     \* restThread_m is not null
  pc,             \* the next step of the GUI thread; "loop" is its event loop
  ret,            \* where MainWindow::refreshUi returns to
  shown,          \* the state refreshUi drew last
  timer,          \* threadTimer_m is active
  timeoutEnabled  \* the MAC timeout controls of InfoTable are enabled

storage == <<interfaces, restThread>>
threads == <<netThread, restServer, quit>>
owner   == <<handle, restHandle>>
window  == <<shown, timer, timeoutEnabled>>
vars    == <<storage, threads, owner, pc, ret, window>>

------------------------------------------------------------------------------

NoHandle == -1

SwitchState == {"Idle", "RunningNetwork", "RunningRest", "Stopping"}

\* A thread is "alive" while it may still touch the storage; "done" is a
\* thread that returned and was not joined yet.
ThreadPc == {"none", "sniffing", "leaving", "done"}
ServerPc == {"none", "serving", "leaving", "done"}

GuiPc == {"loop", "startStop2", "startStop3", "startNetwork", "joinFirst",
          "joinSecond", "reset", "launchFirst", "launchSecond", "signalFirst",
          "signalSecond", "stopRest", "restButton2", "startRest", "joinRest",
          "launchRest", "refresh1", "refresh2", "refresh3", "refresh4",
          "names", "startTimer", "refreshInfo"}

ThreadControl == [running : BOOLEAN, finished : BOOLEAN]
InterfaceTable == UNION {[S -> ThreadControl] : S \in SUBSET Interface}
Stopped  == [running |-> FALSE, finished |-> FALSE]    \* ThreadControl{}
Started  == [running |-> TRUE,  finished |-> FALSE]

\* std::map::operator[] on storage.interfaces: a missing entry is created.
Control(i)    == IF i \in DOMAIN interfaces THEN interfaces[i] ELSE Stopped
Touched(S)    == [i \in DOMAIN interfaces \cup S |-> Control(i)]
Entry(i, c)   == [j \in DOMAIN interfaces \cup {i} |->
                    IF j = i THEN c ELSE interfaces[j]]

Unfinished   == {i \in DOMAIN interfaces : ~interfaces[i].finished}
FirstLive(i) == i \in Unfinished /\ \A j \in Unfinished : i <= j

\* Slip: the REST thread's finished flag is not asked for.
SlipStateForgetsRest ==
  IF restThread.running THEN "RunningRest"
  ELSE IF \E i \in Unfinished : FirstLive(i) /\ ~interfaces[i].running
    THEN "Stopping"
  ELSE IF Unfinished # {} THEN "RunningNetwork"
  ELSE "Idle"

\* NetworkSwitch::state(): the first entry, in the order of the ids, whose
\* thread has not finished decides, unless REST runs.
State ==
  IF restThread.running THEN "RunningRest"
  ELSE IF \E i \in Unfinished : FirstLive(i) /\ ~interfaces[i].running
    THEN "Stopping"
  ELSE IF \E i \in Unfinished : FirstLive(i) /\ interfaces[i].running
    THEN "RunningNetwork"
  ELSE IF restHandle /\ ~restThread.finished THEN "Stopping"
  ELSE "Idle"

NetAlive(i) == netThread[i] \in {"sniffing", "leaving"}
RestAlive   == restServer \in {"serving", "leaving"}

Init ==
  /\ interfaces = [i \in {} |-> Stopped]
  /\ restThread = Stopped
  /\ quit = FALSE
  /\ netThread = [i \in Interface |-> "none"]
  /\ restServer = "none"
  /\ handle = [k \in 1..2 |-> NoHandle]
  /\ restHandle = FALSE
  /\ pc = "loop"
  /\ ret = "loop"
  /\ shown = "Idle"
  /\ timer = FALSE
  /\ timeoutEnabled = TRUE

------------------------------------------------------------------------------
(* The two buttons.  The chain of else-ifs calls state() once per branch.   *)

ReadState(from, s, yes, no) ==
  /\ pc = from
  /\ pc' = IF State = s THEN yes ELSE no
  /\ UNCHANGED <<storage, threads, owner, ret, window>>

onStartStopButtonClicked ==
  /\ shown # "Stopping"               \* the button is disabled then
  /\ ReadState("loop", "RunningNetwork", "signalFirst", "startStop2")

startStopIsRest == ReadState("startStop2", "RunningRest", "signalFirst", "startStop3")

\* startNetworkThread gives up unless two different interfaces are selected.
startStopIsIdle ==
  \/ ReadState("startStop3", "Idle", "loop", "loop")
  \/ /\ \E a, b \in Interface : a # b
     /\ ReadState("startStop3", "Idle", "startNetwork", "loop")

onRestStartStopButtonClicked ==
  /\ shown \in {"RunningNetwork", "RunningRest"}
  /\ ReadState("loop", "RunningNetwork", "startRest", "restButton2")

restButtonIsRest == ReadState("restButton2", "RunningRest", "stopRest", "loop")

------------------------------------------------------------------------------
(* NetworkSwitch::startNetwork and NetworkThreadHandle::start.              *)

CallRefresh(from, back) ==
  /\ pc = from
  /\ pc' = "refresh1"
  /\ ret' = back

\* "Network threads are already running!" returns to startNetworkThread,
\* which goes on to refresh the window and to start the timer.
startNetwork ==
  /\ \/ State = "Idle" /\ pc = "startNetwork" /\ pc' = "joinFirst" /\ UNCHANGED ret
     \/ State # "Idle" /\ CallRefresh("startNetwork", "startTimer")
  /\ UNCHANGED <<storage, threads, owner, window>>

\* unique_ptr::reset destroys the old handle, whose destructor joins.
Joinable(i) == i # NoHandle /\ netThread[i] # "none"
ReplaceHandle(k, i) ==
  /\ Joinable(handle[k]) => netThread[handle[k]] = "done"
  /\ netThread' = [j \in Interface |-> IF j = handle[k] THEN "none" ELSE netThread[j]]
  /\ handle' = [handle EXCEPT ![k] = i]
  /\ UNCHANGED <<storage, restServer, quit, restHandle, ret, window>>

joinFirst ==
  /\ pc = "joinFirst" /\ pc' = "joinSecond"
  /\ \E i \in Interface : ReplaceHandle(1, i)

joinSecond ==
  /\ pc = "joinSecond" /\ pc' = "reset"
  /\ \E i \in Interface \ {handle[1]} : ReplaceHandle(2, i)

resetStorage ==
  /\ pc = "reset" /\ pc' = "launchFirst"
  /\ interfaces' = [i \in {} |-> Stopped]
  /\ UNCHANGED <<restThread, threads, owner, ret, window>>

\* Slip: the first interface is started twice.
SlipStartFirst(k) ==
  /\ interfaces' = Entry(handle[1], Started)
  /\ netThread' = [netThread EXCEPT ![handle[1]] = "sniffing"]
  /\ UNCHANGED <<restThread, restServer, quit, owner, window>>

start(k) ==
  /\ interfaces' = Entry(handle[k], Started)
  /\ netThread' = [netThread EXCEPT ![handle[k]] = "sniffing"]
  /\ UNCHANGED <<restThread, restServer, quit, owner, window>>

launchFirst  == pc = "launchFirst" /\ pc' = "launchSecond" /\ UNCHANGED ret /\ start(1)
launchSecond == CallRefresh("launchSecond", "startTimer") /\ start(2)

startTimer ==
  /\ pc = "startTimer" /\ pc' = "loop"
  /\ timer' = TRUE
  /\ UNCHANGED <<storage, threads, owner, ret, shown, timeoutEnabled>>

------------------------------------------------------------------------------
(* Stopping: stopNetwork then stopRest, three separate critical sections.   *)

\* Slip: the whole control block is assigned.
SlipSignalStopResets(k) ==
  /\ interfaces' = Entry(handle[k], Stopped)
  /\ UNCHANGED <<restThread, threads, owner, ret, window>>

signalStop(k) ==
  /\ interfaces' = Entry(handle[k], [Control(handle[k]) EXCEPT !.running = FALSE])
  /\ UNCHANGED <<restThread, threads, owner, ret, window>>

signalFirst  == pc = "signalFirst"  /\ pc' = "signalSecond" /\ signalStop(1)
signalSecond == pc = "signalSecond" /\ pc' = "stopRest"     /\ signalStop(2)

\* Slip: the server is not told.
SlipStopRestQuietly ==
  /\ pc = "stopRest" /\ pc' = "loop"
  /\ restThread' = IF restHandle THEN [restThread EXCEPT !.running = FALSE] ELSE restThread
  /\ UNCHANGED <<interfaces, threads, owner, ret, window>>

stopRest ==
  /\ pc = "stopRest" /\ pc' = "loop"
  /\ restThread' = IF restHandle THEN [restThread EXCEPT !.running = FALSE] ELSE restThread
  /\ quit' = (quit \/ restHandle)
  /\ UNCHANGED <<interfaces, netThread, restServer, owner, ret, window>>

------------------------------------------------------------------------------
(* NetworkSwitch::startRest and RestThreadHandle::start.                    *)

\* Slip: the server's flag is cleared before the old server is joined.
SlipStartRestClearsQuit ==
  \/ /\ State = "RunningNetwork" /\ pc = "startRest" /\ pc' = "joinRest" /\ quit' = FALSE
     /\ UNCHANGED <<storage, netThread, restServer, owner, ret, window>>
  \/ /\ State # "RunningNetwork" /\ CallRefresh("startRest", "loop")
     /\ UNCHANGED <<storage, threads, owner, window>>

\* Slip: the state is not asked again.
SlipStartRestUnchecked ==
  /\ pc = "startRest" /\ pc' = "joinRest"
  /\ UNCHANGED <<storage, threads, owner, ret, window>>

startRest ==
  /\ \/ State = "RunningNetwork" /\ pc = "startRest" /\ pc' = "joinRest" /\ UNCHANGED ret
     \/ State # "RunningNetwork" /\ CallRefresh("startRest", "loop")
  /\ UNCHANGED <<storage, threads, owner, window>>

\* The old handle's destructor blocks the GUI until the old server is done.
joinRest ==
  /\ pc = "joinRest" /\ pc' = "launchRest"
  /\ ~RestAlive
  /\ restServer' = "none"
  /\ restHandle' = TRUE
  /\ UNCHANGED <<storage, netThread, quit, handle, ret, window>>

launchRest ==
  /\ CallRefresh("launchRest", "loop")
  /\ quit' = FALSE
  /\ restThread' = Started
  /\ restServer' = "serving"
  /\ UNCHANGED <<interfaces, netThread, owner, window>>

------------------------------------------------------------------------------
(* MainWindow::refreshUi: again one state() per branch.                     *)

\* Slip: the handles are not tested for null.
SlipNamesReadUntested == Touched({handle[1], handle[2]})

\* NetworkSwitch::interfaces() looks both handles up with operator[].
NamesRead ==
  IF NoHandle \in {handle[1], handle[2]} THEN interfaces ELSE Touched({handle[1], handle[2]})

Return == pc' = ret /\ ret' = "loop"

\* Slip: the timer is stopped while the switch is stopping.
SlipDrawStopsTimerEarly(s) ==
  /\ shown' = s
  /\ timer' = (timer /\ s \notin {"Idle", "Stopping"})
  /\ IF s = "Idle" THEN Return ELSE pc' = "names" /\ UNCHANGED ret

\* An idle switch has no interfaces to name.
Draw(s) ==
  /\ shown' = s
  /\ timer' = (timer /\ s # "Idle")
  /\ IF s = "Idle" THEN Return ELSE pc' = "names" /\ UNCHANGED ret

RefreshBranch(from, s, otherwise) ==
  /\ pc = from
  /\ \/ State = s /\ Draw(s)
     \/ State # s /\ otherwise /\ UNCHANGED <<shown, timer>>
  /\ UNCHANGED <<storage, threads, owner, timeoutEnabled>>

refreshUi ==
  \/ RefreshBranch("refresh1", "RunningNetwork", pc' = "refresh2" /\ UNCHANGED ret)
  \/ RefreshBranch("refresh2", "RunningRest",    pc' = "refresh3" /\ UNCHANGED ret)
  \/ RefreshBranch("refresh3", "Idle",           pc' = "refresh4" /\ UNCHANGED ret)
  \/ RefreshBranch("refresh4", "Stopping",       Return)   \* "An unknown UI state"

\* The names and the status of the two interfaces, in a section of their own.
readNames ==
  /\ pc = "names" /\ Return
  /\ interfaces' = NamesRead
  /\ UNCHANGED <<restThread, threads, owner, window>>

\* InfoTable::refreshUi, the second slot of the timer.
refreshInfo ==
  /\ pc = "refreshInfo" /\ pc' = "loop"
  /\ timeoutEnabled' = (State # "Idle")
  /\ UNCHANGED <<storage, threads, owner, ret, shown, timer>>

\* threadTimer_m fires: refreshUi, then InfoTable::refreshUi.
threadTimer ==
  /\ timer
  /\ CallRefresh("loop", "refreshInfo")
  /\ UNCHANGED <<storage, threads, owner, window>>

\* A menu entry or a changed list of interfaces refreshes the window too.
otherRefresh ==
  /\ CallRefresh("loop", "loop")
  /\ UNCHANGED <<storage, threads, owner, window>>

\* clearFirstStatsTable and clearSecondStatsTable look the interfaces up first.
clearOneStatsTable ==
  /\ CallRefresh("loop", "loop")
  /\ interfaces' = NamesRead
  /\ UNCHANGED <<restThread, threads, owner, window>>

------------------------------------------------------------------------------
(* The network thread: Tins::Sniffer::sniff_loop and what follows it.       *)

\* A packet arrives; the callback's result is this thread's running flag.
\* What the callback does with the packet is in Forwarding.
packetCallback(i) ==
  /\ netThread[i] = "sniffing"
  /\ interfaces' = Touched({i})
  /\ netThread' = [netThread EXCEPT ![i] = IF Control(i).running THEN @ ELSE "leaving"]
  /\ UNCHANGED <<restThread, restServer, quit, owner, pc, ret, window>>

\* sniff_loop ends without being told to: the capture fails.
sniffLoopEnds(i) ==
  /\ netThread[i] = "sniffing"
  /\ netThread' = [netThread EXCEPT ![i] = "leaving"]
  /\ UNCHANGED <<storage, restServer, quit, owner, pc, ret, window>>

finishNetwork(i) ==
  /\ netThread[i] = "leaving"
  /\ netThread' = [netThread EXCEPT ![i] = "done"]
  /\ interfaces' = Entry(i, [Control(i) EXCEPT !.finished = TRUE])
  /\ UNCHANGED <<restThread, restServer, quit, owner, pc, ret, window>>

(* The REST thread: li::http_serve and what follows it.                     *)

ServeEnds ==
  /\ restServer = "serving"
  /\ restServer' = "leaving"
  /\ UNCHANGED <<storage, netThread, quit, owner, pc, ret, window>>

httpServeReturns == quit /\ ServeEnds        \* it was asked to
httpServeFails   == ~quit /\ ServeEnds       \* the port cannot be served

\* Slip: the thread leaves without a word.
SlipFinishRestSilently ==
  /\ restServer = "leaving"
  /\ restServer' = "done"
  /\ UNCHANGED <<storage, netThread, quit, owner, pc, ret, window>>

finishRest ==
  /\ restServer = "leaving"
  /\ restServer' = "done"
  /\ restThread' = [restThread EXCEPT !.finished = TRUE]
  /\ UNCHANGED <<interfaces, netThread, quit, owner, pc, ret, window>>

------------------------------------------------------------------------------

\* The user and the desktop: nothing obliges them to act.
UserEvent ==
  \/ onStartStopButtonClicked
  \/ onRestStartStopButtonClicked
  \/ otherRefresh
  \/ clearOneStatsTable

\* The rest of an operation the GUI thread is in the middle of.
GuiStep ==
  \/ startStopIsRest \/ startStopIsIdle \/ restButtonIsRest
  \/ startNetwork \/ joinFirst \/ joinSecond \/ resetStorage
  \/ launchFirst \/ launchSecond \/ startTimer
  \/ signalFirst \/ signalSecond \/ stopRest
  \/ startRest \/ joinRest \/ launchRest
  \/ refreshUi \/ readNames \/ refreshInfo

Next ==
  \/ UserEvent
  \/ GuiStep
  \/ threadTimer
  \/ \E i \in Interface : packetCallback(i) \/ sniffLoopEnds(i) \/ finishNetwork(i)
  \/ httpServeReturns \/ httpServeFails \/ finishRest

\* Threads keep running, and Qt delivers a due timer between other events.
Fairness ==
  /\ WF_vars(GuiStep)
  /\ SF_vars(threadTimer)
  /\ \A i \in Interface : WF_vars(finishNetwork(i))
  /\ WF_vars(httpServeReturns)
  /\ WF_vars(finishRest)

\* Packets keep arriving at every sniffer: an assumption on the network.
Traffic == \A i \in Interface : WF_vars(packetCallback(i))

Spec == Init /\ [][Next]_vars /\ Fairness

------------------------------------------------------------------------------
(* Properties *)

TypeOK ==
  /\ interfaces \in InterfaceTable
  /\ restThread \in ThreadControl
  /\ quit \in BOOLEAN
  /\ netThread \in [Interface -> ThreadPc]
  /\ restServer \in ServerPc
  /\ handle \in [1..2 -> Interface \cup {NoHandle}]
  /\ restHandle \in BOOLEAN
  /\ pc \in GuiPc
  /\ ret \in {"loop", "startTimer", "refreshInfo"}
  /\ shown \in SwitchState
  /\ timer \in BOOLEAN
  /\ timeoutEnabled \in BOOLEAN

\* state() says Idle only when no thread of the switch is alive: startNetwork
\* relies on it before it joins the old threads and clears the storage.
IdleMeansNoThread ==
  State = "Idle" => /\ \A i \in Interface : ~NetAlive(i)
                    /\ ~RestAlive

\* An entry of storage.interfaces that is not finished has a live thread
\* behind it, which will set finished.  operator[] in interfaces(), in
\* signalStop or in a thread could leave an entry no thread will ever finish,
\* and state() would say Stopping for ever.
UnfinishedHasThread ==
  /\ \A i \in Unfinished : NetAlive(i)
  /\ (restHandle /\ ~restThread.finished /\ pc # "launchRest") => RestAlive

\* When no timer will refresh the window, what it shows is right: the switch
\* is Idle and drawn as Idle, so the Start button is enabled.
NoTimerMeansIdle ==
  (pc = "loop" /\ ~timer) => (State = "Idle" /\ shown = "Idle")

\* The joins of a restart find threads that have ended, and the join of an old
\* server one that was told to quit: the window never waits for a thread nobody
\* has stopped, though state() was asked some steps before.
JoinsEnd ==
  /\ pc = "joinFirst"  /\ Joinable(handle[1]) => netThread[handle[1]] = "done"
  /\ pc = "joinSecond" /\ Joinable(handle[2]) => netThread[handle[2]] = "done"
  /\ pc = "joinRest" /\ restServer = "serving" => quit

\* A thread that was told to stop is never told to go on: neither a restart
\* of the network nor a new REST server takes the request back before the
\* thread has returned.
StopRequestSticks ==
  [][ /\ \A i \in Interface :
            NetAlive(i) /\ ~Control(i).running /\ NetAlive(i)'
              => ~Control(i).running'
      /\ restServer = "serving" /\ quit /\ RestAlive' => quit' ]_vars

\* refreshUi always finds the state it draws: its last branch logs
\* "An unknown UI state detected!".
RefreshFindsState ==
  [][pc = "refresh4" /\ pc' # "refresh4" => State = "Stopping"]_vars

\* REST is started only while a network thread runs: startRest refuses
\* otherwise with "Network threads are not running!".
RestNeedsNetwork ==
  [][~restThread.running /\ restThread.running' => Unfinished # {}]_vars

\* The GUI thread always gets back to its event loop, in spite of the joins.
GuiReturnsToLoop == pc # "loop" ~> pc = "loop"

\* What the two windows show catches up with the switch; in particular the
\* MAC timeout can be edited while it runs.
WindowCatchesUp ==
  /\ \A s \in SwitchState : State = s ~> (shown = s \/ State # s)
  /\ State # "Idle" ~> (timeoutEnabled \/ State = "Idle")

\* Under traffic, a switch that was told to stop becomes idle: the sniffers
\* see the request with their next packet and the REST server sees its flag.
StoppingEnds == Traffic => ((pc = "loop" /\ State = "Stopping") ~> State = "Idle")

------------------------------------------------------------------------------
(* Refinement: the phase the operation in progress has committed to.        *)
(* Between the two signalStop calls the first entry may look stopped while  *)
(* the second still runs; startRest acts on the state() it read before the  *)
(* join.  Both are seen as the phase the operation started in.              *)

PhaseOf ==
  IF pc \in {"joinRest", "launchRest"} THEN "RunningNetwork"
  ELSE IF pc = "signalSecond" /\ State = "Stopping" /\ Unfinished # {}
    THEN "RunningNetwork"
  ELSE State

Control0 == INSTANCE SwitchControl WITH phase <- PhaseOf

\* The lifecycle implements the four-phase switch.
ImplementsSwitchControl == Control0!Spec

LiveSniffers == [i \in DOMAIN interfaces |-> netThread[i] = "sniffing"]

Sniffers == INSTANCE SnifferLife WITH sniffers <- LiveSniffers

\* A sniffer is opened only for an interface that has none, stays closed, and
\* is closed before the tables it works on are cleared.
ImplementsSnifferLife == Sniffers!Spec

==============================================================================
