----------------------- MODULE SwitchLifecycle_proofs -----------------------
(***************************************************************************)
(* The lifecycle, for every set of interfaces: its safety, and that it     *)
(* implements the four-phase switch and lets sniffers live as Forwarding   *)
(* expects it.                                                             *)
(***************************************************************************)
EXTENDS SwitchLifecycle, Tables, TLAPS

HandlesSet == handle[1] # NoHandle /\ handle[2] # NoHandle

\* Between the join of the first old handle and the start of the second new
\* one, storage.interfaces and the handles do not agree.
Replacing == {"joinSecond", "reset", "launchFirst", "launchSecond"}
\* startNetworkThread, until it starts the timer.
Starting  == {"startNetwork", "joinFirst", "startTimer"} \cup Replacing
Refresh   == {"refresh1", "refresh2", "refresh3", "refresh4", "names"}

\* An entry is unfinished exactly while its thread is alive.
EntriesAndThreads ==
  /\ \A i \in Interface : NetAlive(i) => i \in Unfinished
  /\ \A i \in Unfinished : NetAlive(i)

\* The entries are those of the two handles, so that operator[] finds them.
EntriesAndHandles ==
  /\ pc \notin {"joinSecond", "reset"} => DOMAIN interfaces \subseteq {handle[1], handle[2]}
  /\ (HandlesSet /\ pc \notin Replacing) => {handle[1], handle[2]} \subseteq DOMAIN interfaces
  /\ pc = "launchSecond" => handle[1] \in DOMAIN interfaces
  /\ pc \in {"joinSecond", "reset", "launchFirst", "launchSecond"} => handle[1] # NoHandle
  /\ pc \in {"reset", "launchFirst", "launchSecond"} => HandlesSet /\ handle[1] # handle[2]
  /\ ~HandlesSet => /\ interfaces = [i \in {} |-> Stopped]
                    /\ ~restThread.running
                    /\ pc \notin {"signalFirst", "signalSecond", "joinRest", "launchRest"}

\* While the network threads are replaced, none of them is alive.
NoThreadWhileReplacing ==
  /\ pc \in {"joinFirst", "joinSecond", "reset", "launchFirst"} =>
       \A i \in Interface : ~NetAlive(i)
  /\ pc = "launchSecond" => ~NetAlive(handle[2])

\* The REST handle, its flags and its thread.
RestThreadInv ==
  /\ restThread.running => restHandle
  /\ RestAlive => restHandle /\ ~restThread.finished
  /\ (restHandle /\ ~restThread.finished /\ pc # "launchRest") => RestAlive
  /\ pc = "launchRest" => restHandle /\ ~RestAlive
  /\ pc \in {"joinRest", "launchRest"} => ~restThread.running

\* Without the timer nothing runs, except in the course of startNetworkThread.
Quiet ==
  /\ Unfinished = {}
  /\ ~restThread.running
  /\ restHandle => restThread.finished
  /\ shown = "Idle"

TimerInv ==
  /\ ret = "startTimer" => pc \in Refresh
  /\ (~timer /\ pc \notin Starting /\ ret # "startTimer") =>
       /\ Quiet
       /\ pc \in {"loop", "startStop2", "startStop3", "refreshInfo"} \cup Refresh

IInv ==
  /\ TypeOK
  /\ EntriesAndThreads
  /\ EntriesAndHandles
  /\ NoThreadWhileReplacing
  /\ RestThreadInv
  /\ TimerInv

------------------------------------------------------------------------------
(* Types of the interface table *)

LEMMA TableType ==
  /\ \A t \in InterfaceTable : /\ DOMAIN t \subseteq Interface
                               /\ \A i \in DOMAIN t : t[i] \in ThreadControl
                               /\ t = [i \in DOMAIN t |-> t[i]]
  /\ \A S \in SUBSET Interface : [S -> ThreadControl] \subseteq InterfaceTable
<1>1. ASSUME NEW t \in InterfaceTable
      PROVE  /\ DOMAIN t \subseteq Interface
             /\ \A i \in DOMAIN t : t[i] \in ThreadControl
             /\ t = [i \in DOMAIN t |-> t[i]]
  <2>1. PICK S \in SUBSET Interface : t \in [S -> ThreadControl]
    BY DEF InterfaceTable
  <2> QED BY <2>1
<1>2. \A S \in SUBSET Interface : [S -> ThreadControl] \subseteq InterfaceTable
  BY DEF InterfaceTable
<1> QED BY <1>1, <1>2

LEMMA NatInterface == /\ Interface \subseteq Nat
                      /\ NoHandle \notin Interface
  BY InterfaceAssumption DEF NoHandle

LEMMA Controls == /\ Started \in ThreadControl
                  /\ Stopped \in ThreadControl
                  /\ \A c \in ThreadControl : [c EXCEPT !.running = FALSE] \in ThreadControl
                  /\ \A c \in ThreadControl : [c EXCEPT !.finished = TRUE] \in ThreadControl
  BY DEF Started, Stopped, ThreadControl

LEMMA ControlType ==
  ASSUME TypeOK, NEW i PROVE Control(i) \in ThreadControl
  BY TableType, Controls DEF TypeOK, Control

LEMMA EntryType ==
  ASSUME TypeOK, NEW i \in Interface, NEW c \in ThreadControl
  PROVE  Entry(i, c) \in InterfaceTable
<1>1. DOMAIN interfaces \cup {i} \in SUBSET Interface
  BY TableType DEF TypeOK
<1>2. Entry(i, c) \in [DOMAIN interfaces \cup {i} -> ThreadControl]
  BY TableType DEF TypeOK, Entry
<1> QED BY <1>1, <1>2, TableType

LEMMA TouchedType ==
  ASSUME TypeOK, NEW T \in SUBSET Interface
  PROVE  Touched(T) \in InterfaceTable
<1>1. DOMAIN interfaces \cup T \in SUBSET Interface
  BY TableType DEF TypeOK
<1>2. Touched(T) \in [DOMAIN interfaces \cup T -> ThreadControl]
  BY ControlType DEF Touched
<1> QED BY <1>1, <1>2, TableType

LEMMA NamesReadType == TypeOK => NamesRead \in InterfaceTable
<1> SUFFICES ASSUME TypeOK PROVE NamesRead \in InterfaceTable
  OBVIOUS
<1>1. CASE NoHandle \in {handle[1], handle[2]}
  BY <1>1 DEF NamesRead, TypeOK
<1>2. CASE NoHandle \notin {handle[1], handle[2]}
  <2>1. {handle[1], handle[2]} \in SUBSET Interface
    BY <1>2 DEF TypeOK
  <2> QED BY <1>2, <2>1, TouchedType DEF NamesRead
<1> QED BY <1>1, <1>2

------------------------------------------------------------------------------
(* What state() tells.                                                      *)

\* With at most the two handles' entries in the table, state() finds a first
\* unfinished one whenever there is one.
LEMMA FirstLiveExists ==
  ASSUME TypeOK, DOMAIN interfaces \subseteq {handle[1], handle[2]}, Unfinished # {}
  PROVE  \E i \in Unfinished : FirstLive(i)
<1>1. PICK a \in Unfinished : TRUE
  OBVIOUS
<1>2. \A i \in Unfinished : i \in Nat /\ i \in {handle[1], handle[2]}
  BY TableType, NatInterface DEF TypeOK, Unfinished
<1>3. CASE \E b \in Unfinished : ~(a <= b)
  <2>1. PICK b \in Unfinished : ~(a <= b)
    BY <1>3
  <2>2. FirstLive(b)
    BY <1>1, <1>2, <2>1 DEF FirstLive
  <2> QED BY <2>2
<1>4. CASE \A b \in Unfinished : a <= b
  BY <1>1, <1>4 DEF FirstLive
<1> QED BY <1>3, <1>4

LEMMA StateCases ==
  ASSUME TypeOK, DOMAIN interfaces \subseteq {handle[1], handle[2]}
  PROVE  /\ State = "RunningRest" <=> restThread.running
         /\ State = "Idle" <=> /\ ~restThread.running
                               /\ Unfinished = {}
                               /\ restHandle => restThread.finished
         /\ State = "RunningNetwork" => Unfinished # {}
<1>1. Unfinished = {} \/ \E i \in Unfinished : FirstLive(i)
  BY FirstLiveExists
<1>2. \A i \in Unfinished : interfaces[i].running \in BOOLEAN
  BY TableType DEF TypeOK, Unfinished, ThreadControl
<1>3. restThread.running \in BOOLEAN /\ restThread.finished \in BOOLEAN /\ restHandle \in BOOLEAN
  BY DEF TypeOK, ThreadControl
<1> QED BY <1>1, <1>2, <1>3 DEF State

------------------------------------------------------------------------------
(* Type correctness *)

\* Every variable keeps its type: the threads, the flags and the GUI thread's
\* program counter are always in a state the code knows.
LEMMA TypeStep == IInv /\ [Next]_vars => TypeOK'
<1> SUFFICES ASSUME TypeOK, EntriesAndHandles, [Next]_vars PROVE TypeOK'
  BY DEF IInv
<1> USE DEF GuiPc, ThreadPc, ServerPc, SwitchState
<1>a. HandlesSet => handle[1] \in Interface /\ handle[2] \in Interface
  BY DEF TypeOK, HandlesSet
<1>1. CASE UserEvent
  <2>1. CASE onStartStopButtonClicked \/ onRestStartStopButtonClicked \/ otherRefresh
    BY <2>1 DEF TypeOK, onStartStopButtonClicked, onRestStartStopButtonClicked, ReadState,
         otherRefresh, CallRefresh, storage, threads, owner, window
  <2>2. CASE clearOneStatsTable
    BY <2>2, NamesReadType DEF TypeOK, clearOneStatsTable, CallRefresh, threads, owner, window
  <2> QED BY <1>1, <2>1, <2>2 DEF UserEvent
<1>2. CASE GuiStep
  <2>1. CASE startStopIsRest \/ startStopIsIdle \/ restButtonIsRest
    BY <2>1 DEF TypeOK, startStopIsRest, startStopIsIdle, restButtonIsRest, ReadState,
         storage, threads, owner, window
  <2>2. CASE startNetwork \/ startRest \/ startTimer
    BY <2>2 DEF TypeOK, startNetwork, startRest, startTimer, CallRefresh,
         storage, threads, owner, window
  <2>11. CASE refreshInfo
    <3>1. timeoutEnabled' \in BOOLEAN
      BY <2>11 DEF refreshInfo
    <3> QED BY <2>11, <3>1 DEF TypeOK, refreshInfo, storage, threads, owner
  <2>3. CASE joinFirst
    BY <2>3, NatInterface DEF TypeOK, joinFirst, ReplaceHandle, storage, window
  <2>4. CASE joinSecond
    BY <2>4, NatInterface DEF TypeOK, joinSecond, ReplaceHandle, storage, window
  <2>5. CASE resetStorage
    <3>1. interfaces' \in [{} -> ThreadControl]
      BY <2>5 DEF resetStorage
    <3>2. interfaces' \in InterfaceTable
      BY <3>1, TableType
    <3> QED BY <2>5, <3>2 DEF TypeOK, resetStorage, threads, owner, window
  <2>6. CASE launchFirst \/ launchSecond
    <3>1. interfaces' \in InterfaceTable
      BY <2>6, <1>a, EntryType, Controls
         DEF EntriesAndHandles, launchFirst, launchSecond, CallRefresh, start
    <3> QED BY <2>6, <3>1, <1>a DEF TypeOK, EntriesAndHandles, launchFirst, launchSecond,
              CallRefresh, start, owner, window
  <2>7. CASE signalFirst \/ signalSecond
    <3>1. interfaces' \in InterfaceTable
      BY <2>7, <1>a, EntryType, ControlType, Controls
         DEF EntriesAndHandles, signalFirst, signalSecond, signalStop
    <3> QED BY <2>7, <3>1 DEF TypeOK, signalFirst, signalSecond, signalStop, threads, owner, window
  <2>8. CASE stopRest
    BY <2>8, Controls DEF TypeOK, stopRest, owner, window
  <2>9. CASE joinRest \/ launchRest
    BY <2>9, Controls DEF TypeOK, joinRest, launchRest, CallRefresh, storage, owner, window
  <2>10. CASE refreshUi
    <3>1. timer' \in BOOLEAN
      BY <2>10 DEF TypeOK, refreshUi, RefreshBranch, Draw
    <3> QED BY <2>10, <3>1 DEF TypeOK, refreshUi, RefreshBranch, Draw, Return, storage, threads, owner
  <2>12. CASE readNames
    BY <2>12, NamesReadType DEF TypeOK, readNames, Return, threads, owner, window
  <2> QED BY <1>2, <2>1, <2>2, <2>3, <2>4, <2>5, <2>6, <2>7, <2>8, <2>9, <2>10, <2>11, <2>12
      DEF GuiStep
<1>3. CASE threadTimer
  BY <1>3 DEF TypeOK, threadTimer, CallRefresh, storage, threads, owner, window
<1>4. ASSUME NEW i \in Interface, packetCallback(i) \/ sniffLoopEnds(i) \/ finishNetwork(i)
      PROVE  TypeOK'
  <2>1. CASE packetCallback(i)
    BY <2>1, TouchedType DEF TypeOK, packetCallback, owner, window
  <2>2. CASE sniffLoopEnds(i)
    BY <2>2 DEF TypeOK, sniffLoopEnds, storage, owner, window
  <2>3. CASE finishNetwork(i)
    <3>1. interfaces' \in InterfaceTable
      BY <2>3, EntryType, ControlType, Controls DEF finishNetwork
    <3> QED BY <2>3, <3>1 DEF TypeOK, finishNetwork, owner, window
  <2> QED BY <1>4, <2>1, <2>2, <2>3
<1>5. CASE httpServeReturns \/ httpServeFails \/ finishRest
  BY <1>5, Controls DEF TypeOK, httpServeReturns, httpServeFails, ServeEnds, finishRest,
       storage, owner, window
<1>6. CASE UNCHANGED vars
  BY <1>6 DEF TypeOK, vars, storage, threads, owner, window
<1> QED BY <1>1, <1>2, <1>3, <1>4, <1>5, <1>6 DEF Next

------------------------------------------------------------------------------
(* The inductive invariant *)

\* operator[] in interfaces(), in a thread or in signalStop finds its entry.
LEMMA TouchedIsNoop ==
  ASSUME TypeOK, NEW T, T \subseteq DOMAIN interfaces
  PROVE  Touched(T) = interfaces
<1>1. DOMAIN interfaces \cup T = DOMAIN interfaces
  OBVIOUS
<1>2. Touched(T) = [i \in DOMAIN interfaces |-> interfaces[i]]
  BY <1>1 DEF Touched, Control
<1> QED BY <1>2, TableType DEF TypeOK

LEMMA NamesReadIsNoop ==
  ASSUME IInv, pc \notin Replacing PROVE NamesRead = interfaces
<1>1. CASE NoHandle \in {handle[1], handle[2]}
  BY <1>1 DEF NamesRead
<1>2. CASE NoHandle \notin {handle[1], handle[2]}
  <2>1. {handle[1], handle[2]} \subseteq DOMAIN interfaces
    BY <1>2 DEF IInv, EntriesAndHandles, HandlesSet
  <2> QED BY <1>2, <2>1, TouchedIsNoop DEF NamesRead, IInv
<1> QED BY <1>1, <1>2

LEMMA InitInv == Init => IInv
<1> SUFFICES ASSUME Init PROVE IInv
  OBVIOUS
<1>1. TypeOK
  <2>1. interfaces \in InterfaceTable
    <3>1. interfaces \in [{} -> ThreadControl]
      BY DEF Init
    <3> QED BY <3>1, TableType
  <2> QED BY <2>1, Controls DEF Init, TypeOK, GuiPc, ThreadPc, ServerPc, SwitchState
<1>2. Unfinished = {}
  BY DEF Init, Unfinished
<1>3. EntriesAndThreads
  BY <1>2 DEF Init, EntriesAndThreads, NetAlive
<1>4. EntriesAndHandles
  BY DEF Init, EntriesAndHandles, HandlesSet, Replacing, Stopped
<1>5. NoThreadWhileReplacing /\ RestThreadInv
  BY DEF Init, NoThreadWhileReplacing, RestThreadInv, RestAlive, Stopped
<1>6. TimerInv
  BY <1>2 DEF Init, TimerInv, Quiet, Stopped
<1> QED BY <1>1, <1>3, <1>4, <1>5, <1>6 DEF IInv

\* Steps of the GUI thread that change neither the storage nor the threads.
LEMMA ReadStep ==
  ASSUME IInv, UNCHANGED <<storage, threads, owner, shown>>,
         pc \notin Replacing, pc' \notin Replacing \cup {"launchRest"},
         pc # "launchRest",
         pc' \in {"signalFirst", "signalSecond", "joinRest"} =>
           restThread.running \/ Unfinished # {} \/ pc = "signalFirst",
         pc' = "joinRest" => ~restThread.running,
         pc' = "joinFirst" => State = "Idle"
  PROVE  EntriesAndThreads' /\ EntriesAndHandles' /\ NoThreadWhileReplacing' /\ RestThreadInv'
<1> USE DEF storage, threads, owner
<1>1. EntriesAndThreads'
  BY DEF IInv, EntriesAndThreads, Unfinished, NetAlive
<1>2. EntriesAndHandles'
  BY DEF IInv, EntriesAndHandles, HandlesSet, Unfinished, Replacing
<1>3. NoThreadWhileReplacing'
  BY StateCases DEF IInv, EntriesAndHandles, EntriesAndThreads, NoThreadWhileReplacing, NetAlive, Replacing
<1>4. RestThreadInv'
  BY DEF IInv, RestThreadInv, RestAlive
<1> QED BY <1>1, <1>2, <1>3, <1>4

LEMMA UserStep == IInv /\ UserEvent => IInv'
<1> SUFFICES ASSUME IInv, UserEvent PROVE IInv'
  OBVIOUS
<1>1. TypeOK'
  BY TypeStep DEF Next
<1>2. /\ UNCHANGED <<storage, threads, owner, window>>
      /\ pc = "loop"
      /\ \/ pc' \in {"startStop2", "restButton2"}
         \/ pc' = "signalFirst" /\ State = "RunningNetwork"
         \/ pc' = "startRest" /\ State = "RunningNetwork"
         \/ pc' = "refresh1" /\ ret' = "loop"
      /\ pc' # "refresh1" => ret' = ret
      /\ pc' = "restButton2" \/ pc' = "startRest" => shown # "Idle"
  <2>1. CASE onStartStopButtonClicked
    BY <2>1 DEF onStartStopButtonClicked, ReadState, threads, storage, owner, window
  <2>2. CASE onRestStartStopButtonClicked
    BY <2>2 DEF onRestStartStopButtonClicked, ReadState, threads, storage, owner, window
  <2>3. CASE otherRefresh
    BY <2>3 DEF otherRefresh, CallRefresh
  <2>4. CASE clearOneStatsTable
    <3>1. NamesRead = interfaces
      BY <2>4, NamesReadIsNoop DEF clearOneStatsTable, CallRefresh, Replacing
    <3> QED BY <2>4, <3>1 DEF clearOneStatsTable, CallRefresh, storage
  <2> QED BY <2>1, <2>2, <2>3, <2>4 DEF UserEvent
<1>3. DOMAIN interfaces \subseteq {handle[1], handle[2]}
  BY <1>2 DEF IInv, EntriesAndHandles
<1>4. State = "RunningNetwork" => Unfinished # {}
  BY <1>3, StateCases DEF IInv
<1>5. EntriesAndThreads' /\ EntriesAndHandles' /\ NoThreadWhileReplacing' /\ RestThreadInv'
  BY <1>2, <1>4, ReadStep DEF window, Replacing
<1>6. TimerInv'
  <2>1. UNCHANGED Unfinished
    BY <1>2 DEF Unfinished, storage
  <2> QED BY <1>2, <1>4, <2>1 DEF IInv, TimerInv, Quiet, Starting, Replacing, Refresh, storage, owner, window
<1> QED BY <1>1, <1>5, <1>6 DEF IInv

\* startStopIsRest, startStopIsIdle, restButtonIsRest, startNetwork, startRest.
LEMMA BranchStep ==
  ASSUME IInv, startStopIsRest \/ startStopIsIdle \/ restButtonIsRest \/ startNetwork \/ startRest
  PROVE  IInv'
<1>1. TypeOK'
  BY TypeStep DEF Next, GuiStep
<1>2. /\ UNCHANGED <<storage, threads, owner, window>>
      /\ \/ pc = "startStop2" /\ pc' = "signalFirst" /\ State = "RunningRest" /\ ret' = ret
         \/ pc = "startStop2" /\ pc' = "startStop3" /\ ret' = ret
         \/ pc = "startStop3" /\ pc' \in {"startNetwork", "loop"} /\ ret' = ret
         \/ pc = "restButton2" /\ pc' \in {"stopRest", "loop"} /\ ret' = ret
         \/ pc = "startNetwork" /\ pc' = "joinFirst" /\ State = "Idle" /\ ret' = ret
         \/ pc = "startNetwork" /\ pc' = "refresh1" /\ ret' = "startTimer"
         \/ pc = "startRest" /\ pc' = "joinRest" /\ State = "RunningNetwork" /\ ret' = ret
         \/ pc = "startRest" /\ pc' = "refresh1" /\ ret' = "loop"
  BY DEF startStopIsRest, startStopIsIdle, restButtonIsRest, startNetwork, startRest,
         ReadState, CallRefresh, window
<1>3. DOMAIN interfaces \subseteq {handle[1], handle[2]}
  BY <1>2 DEF IInv, EntriesAndHandles
<1>4. /\ State = "RunningNetwork" => Unfinished # {} /\ ~restThread.running
      /\ State = "RunningRest" => restThread.running
  BY <1>3, StateCases DEF IInv
<1>5. EntriesAndThreads' /\ EntriesAndHandles' /\ NoThreadWhileReplacing' /\ RestThreadInv'
  BY <1>2, <1>4, ReadStep DEF window, Replacing
<1>6. TimerInv'
  <2>1. UNCHANGED Unfinished
    BY <1>2 DEF Unfinished, storage
  <2> QED BY <1>2, <1>4, <2>1 DEF IInv, TimerInv, Quiet, Starting, Replacing, Refresh, storage, owner, window
<1> QED BY <1>1, <1>5, <1>6 DEF IInv

LEMMA JoinStep == IInv /\ (joinFirst \/ joinSecond \/ resetStorage) => IInv'
<1> SUFFICES ASSUME IInv, joinFirst \/ joinSecond \/ resetStorage PROVE IInv'
  OBVIOUS
<1>1. TypeOK'
  BY TypeStep DEF Next, GuiStep
<1>2. \A i \in Interface : ~NetAlive(i)
  BY DEF IInv, NoThreadWhileReplacing, joinFirst, joinSecond, resetStorage
<1>3. \A i \in Interface : ~NetAlive(i)'
  BY <1>2 DEF NetAlive, joinFirst, joinSecond, ReplaceHandle, resetStorage, threads
<1>4. Unfinished = {} /\ Unfinished' = {}
  <2>1. Unfinished = {}
    BY <1>2, TableType DEF IInv, EntriesAndThreads, TypeOK, Unfinished
  <2> QED BY <2>1 DEF Unfinished, joinFirst, joinSecond, ReplaceHandle, resetStorage, storage
<1>5. EntriesAndThreads'
  BY <1>3, <1>4 DEF EntriesAndThreads
<1>6. NoThreadWhileReplacing'
  BY <1>3 DEF NoThreadWhileReplacing, joinFirst, joinSecond, resetStorage
<1>7. RestThreadInv'
  BY DEF IInv, RestThreadInv, RestAlive, joinFirst, joinSecond, ReplaceHandle, resetStorage,
         storage, threads, owner
<1>8. TimerInv'
  BY DEF IInv, TimerInv, Starting, Replacing, Refresh, joinFirst, joinSecond, ReplaceHandle,
         resetStorage, window
<1>9. EntriesAndHandles'
  <2>1. CASE joinFirst
    BY <2>1, NatInterface DEF IInv, TypeOK, EntriesAndHandles, HandlesSet, Replacing,
       joinFirst, ReplaceHandle, storage
  <2>2. CASE joinSecond
    BY <2>2, NatInterface DEF IInv, TypeOK, EntriesAndHandles, HandlesSet, Replacing,
       joinSecond, ReplaceHandle, storage
  <2>3. CASE resetStorage
    BY <2>3 DEF IInv, EntriesAndHandles, HandlesSet, Replacing, resetStorage, owner
  <2> QED BY <2>1, <2>2, <2>3
<1> QED BY <1>1, <1>5, <1>6, <1>7, <1>8, <1>9 DEF IInv

LEMMA LaunchStep == IInv /\ (launchFirst \/ launchSecond) => IInv'
<1> SUFFICES ASSUME IInv, launchFirst \/ launchSecond PROVE IInv'
  OBVIOUS
<1>1. TypeOK'
  BY TypeStep DEF Next, GuiStep
<1>2. PICK k \in 1..2 : /\ start(k)
                        /\ k = 1 => pc = "launchFirst" /\ pc' = "launchSecond" /\ ret' = ret
                        /\ k = 2 => pc = "launchSecond" /\ pc' = "refresh1" /\ ret' = "startTimer"
  BY DEF launchFirst, launchSecond, CallRefresh
<1>3. /\ handle[1] \in Interface /\ handle[2] \in Interface /\ handle[1] # handle[2]
      /\ handle[k] \in Interface
  BY <1>2 DEF IInv, TypeOK, EntriesAndHandles, HandlesSet
<1>4. /\ DOMAIN interfaces' = DOMAIN interfaces \cup {handle[k]}
      /\ interfaces'[handle[k]] = Started
      /\ \A i \in DOMAIN interfaces : i # handle[k] => interfaces'[i] = interfaces[i]
  BY <1>2 DEF start, Entry
<1>5. /\ \A i \in Interface : netThread'[i] = IF i = handle[k] THEN "sniffing" ELSE netThread[i]
      /\ UNCHANGED <<restThread, restServer, quit, handle, restHandle, shown, timer>>
  BY <1>2 DEF start, IInv, TypeOK, owner, window
<1>6. Unfinished' = Unfinished \cup {handle[k]}
  BY <1>4 DEF Unfinished, Started
<1>12. \A i \in Unfinished : i \in Interface
  BY TableType DEF IInv, TypeOK, Unfinished
<1>7. EntriesAndThreads'
  BY <1>3, <1>5, <1>6, <1>12 DEF IInv, EntriesAndThreads, NetAlive
<1>8. EntriesAndHandles'
  BY <1>2, <1>3, <1>4, <1>5 DEF IInv, EntriesAndHandles, HandlesSet, Replacing
<1>9. NoThreadWhileReplacing'
  BY <1>2, <1>3, <1>5 DEF IInv, NoThreadWhileReplacing, NetAlive
<1>10. RestThreadInv'
  BY <1>2, <1>5 DEF IInv, RestThreadInv, RestAlive
<1>11. TimerInv'
  BY <1>2, <1>5 DEF IInv, TimerInv, Starting, Replacing, Refresh
<1> QED BY <1>1, <1>7, <1>8, <1>9, <1>10, <1>11 DEF IInv

LEMMA SignalStep == IInv /\ (signalFirst \/ signalSecond) => IInv'
<1> SUFFICES ASSUME IInv, signalFirst \/ signalSecond PROVE IInv'
  OBVIOUS
<1>1. TypeOK'
  BY TypeStep DEF Next, GuiStep
<1>2. PICK k \in 1..2 : /\ signalStop(k)
                        /\ k = 1 => pc = "signalFirst" /\ pc' = "signalSecond"
                        /\ k = 2 => pc = "signalSecond" /\ pc' = "stopRest"
  BY DEF signalFirst, signalSecond
<1>3. handle[k] \in DOMAIN interfaces
  BY <1>2 DEF IInv, EntriesAndHandles, HandlesSet, Replacing
<1>4. /\ DOMAIN interfaces' = DOMAIN interfaces
      /\ \A i \in DOMAIN interfaces : interfaces'[i].finished = interfaces[i].finished
  BY <1>2, <1>3, TableType DEF signalStop, Entry, Control, IInv, TypeOK, ThreadControl
<1>5. Unfinished' = Unfinished
  BY <1>4 DEF Unfinished
<1>6. UNCHANGED <<restThread, netThread, restServer, quit, handle, restHandle, ret, shown, timer>>
  BY <1>2 DEF signalStop, threads, owner, window
<1>7. EntriesAndThreads'
  BY <1>5, <1>6 DEF IInv, EntriesAndThreads, NetAlive
<1>8. EntriesAndHandles'
  BY <1>2, <1>3, <1>4, <1>6 DEF IInv, EntriesAndHandles, HandlesSet, Replacing
<1>9. NoThreadWhileReplacing' /\ RestThreadInv'
  BY <1>2, <1>6 DEF NoThreadWhileReplacing, RestThreadInv, RestAlive, IInv
<1>10. TimerInv'
  BY <1>2, <1>5, <1>6 DEF IInv, TimerInv, Quiet, Starting, Replacing, Refresh
<1> QED BY <1>1, <1>7, <1>8, <1>9, <1>10 DEF IInv

LEMMA GuiRestStep == IInv /\ (startTimer \/ stopRest \/ joinRest \/ launchRest \/ refreshInfo) => IInv'
<1> SUFFICES ASSUME IInv, startTimer \/ stopRest \/ joinRest \/ launchRest \/ refreshInfo
             PROVE  IInv'
  OBVIOUS
<1>1. TypeOK'
  BY TypeStep DEF Next, GuiStep
<1>2. UNCHANGED <<interfaces, netThread, handle, shown>>
  BY DEF startTimer, stopRest, joinRest, launchRest, refreshInfo, CallRefresh,
         storage, threads, owner, window
<1>3. /\ pc \in {"startTimer", "stopRest", "joinRest", "launchRest", "refreshInfo"}
      /\ pc' \in {"loop", "launchRest", "refresh1"}
      /\ pc' = "launchRest" => pc = "joinRest"
  BY DEF startTimer, stopRest, joinRest, launchRest, refreshInfo, CallRefresh
<1>4. Unfinished' = Unfinished
  BY <1>2 DEF Unfinished
<1>5. EntriesAndThreads'
  BY <1>2, <1>4 DEF IInv, EntriesAndThreads, NetAlive
<1>6. EntriesAndHandles'
  <2>1. \/ restThread' = restThread
        \/ restThread' = [restThread EXCEPT !.running = FALSE]
        \/ pc = "launchRest"
    BY DEF startTimer, stopRest, joinRest, launchRest, refreshInfo, CallRefresh, storage
  <2>2. restThread'.running => restThread.running \/ pc = "launchRest"
    BY <2>1 DEF IInv, TypeOK, ThreadControl
  <2> QED BY <1>2, <1>3, <2>2 DEF IInv, EntriesAndHandles, HandlesSet, Replacing
<1>7. NoThreadWhileReplacing'
  BY <1>3 DEF NoThreadWhileReplacing
<1>8. RestThreadInv'
  <2>1. CASE startTimer \/ refreshInfo
    BY <2>1 DEF IInv, RestThreadInv, RestAlive, startTimer, refreshInfo, storage, threads, owner
  <2>2. CASE stopRest
    BY <2>2 DEF IInv, TypeOK, ThreadControl, RestThreadInv, RestAlive, stopRest, owner
  <2>3. CASE joinRest
    BY <2>3 DEF IInv, RestThreadInv, RestAlive, joinRest, storage
  <2>4. CASE launchRest
    BY <2>4 DEF IInv, RestThreadInv, RestAlive, launchRest, CallRefresh, Started, owner
  <2> QED BY <2>1, <2>2, <2>3, <2>4
<1>9. TimerInv'
  BY <1>3, <1>4 DEF IInv, TimerInv, Quiet, Starting, Replacing, Refresh, startTimer, stopRest,
     joinRest, launchRest, refreshInfo, CallRefresh, storage, threads, owner, window
<1> QED BY <1>1, <1>5, <1>6, <1>7, <1>8, <1>9 DEF IInv

LEMMA RefreshStep == IInv /\ (refreshUi \/ readNames \/ threadTimer) => IInv'
<1> SUFFICES ASSUME IInv, refreshUi \/ readNames \/ threadTimer PROVE IInv'
  OBVIOUS
<1>1. TypeOK'
  BY TypeStep DEF Next, GuiStep
<1>2. /\ UNCHANGED <<restThread, threads, owner>>
      /\ pc \in Refresh \/ (pc = "loop" /\ timer)
      /\ pc' \in Refresh \/ pc' = ret
      /\ ret' = "startTimer" => ret = "startTimer" /\ pc' \in Refresh
      /\ \/ \E s \in SwitchState : State = s /\ pc \in Refresh /\ Draw(s)
         \/ UNCHANGED <<shown, timer>>
      /\ pc \in Refresh /\ pc' \in Refresh => ret' = ret
  BY DEF refreshUi, RefreshBranch, readNames, threadTimer, CallRefresh, Draw, Return, Refresh, SwitchState,
         storage, window, IInv, TypeOK
<1>3. interfaces' = interfaces
  BY <1>2, NamesReadIsNoop DEF refreshUi, RefreshBranch, readNames, threadTimer, CallRefresh, storage,
     Refresh, Replacing
<1>4. Unfinished' = Unfinished
  BY <1>3 DEF Unfinished
<1>5. /\ pc \notin Replacing /\ pc' \notin Replacing
      /\ pc \notin {"launchRest", "joinFirst"} /\ pc' \in Refresh \cup {"loop", "startTimer", "refreshInfo"}
  BY <1>2 DEF Refresh, Replacing, IInv, TypeOK
<1>6. EntriesAndThreads' /\ NoThreadWhileReplacing' /\ RestThreadInv'
  BY <1>2, <1>4, <1>5 DEF IInv, EntriesAndThreads, NetAlive, NoThreadWhileReplacing, Refresh,
     RestThreadInv, RestAlive, Replacing, threads, owner
<1>7. EntriesAndHandles'
  BY <1>2, <1>3, <1>5 DEF IInv, EntriesAndHandles, HandlesSet, Refresh, Replacing, owner
<1>8. TimerInv'
  <2>1. DOMAIN interfaces \subseteq {handle[1], handle[2]}
    BY <1>5 DEF IInv, EntriesAndHandles, Replacing
  <2>2. State = "Idle" <=> ~restThread.running /\ Unfinished = {} /\ (restHandle => restThread.finished)
    BY <2>1, StateCases DEF IInv
  <2>3. CASE UNCHANGED <<shown, timer>>
    BY <1>2, <1>4, <1>5, <2>3 DEF IInv, TimerInv, Quiet, Starting, Replacing, Refresh, owner, TypeOK
  <2>4. ASSUME NEW s \in SwitchState, State = s, pc \in Refresh, Draw(s) PROVE TimerInv'
    BY <1>2, <1>4, <1>5, <2>2, <2>4 DEF Draw, Return, IInv, TimerInv, Quiet, Starting, Replacing,
       Refresh, owner
  <2> QED BY <1>2, <2>3, <2>4
<1> QED BY <1>1, <1>6, <1>7, <1>8 DEF IInv

LEMMA NetworkThreadStep ==
  ASSUME IInv, NEW i \in Interface, packetCallback(i) \/ sniffLoopEnds(i) \/ finishNetwork(i)
  PROVE  IInv'
<1>1. TypeOK'
  BY TypeStep DEF Next
<1>2. /\ NetAlive(i)
      /\ i \in Unfinished
      /\ i \in DOMAIN interfaces
  BY DEF IInv, EntriesAndThreads, Unfinished, NetAlive, packetCallback, sniffLoopEnds, finishNetwork
<1>3. UNCHANGED <<restThread, restServer, quit, owner, pc, ret, window>>
  BY DEF packetCallback, sniffLoopEnds, finishNetwork, storage
<1>4. \A j \in Interface : j # i => netThread'[j] = netThread[j]
  BY DEF IInv, TypeOK, packetCallback, sniffLoopEnds, finishNetwork
<1>5. \/ interfaces' = interfaces /\ NetAlive(i)'
      \/ finishNetwork(i) /\ ~NetAlive(i)'
  BY <1>2, TouchedIsNoop DEF packetCallback, sniffLoopEnds, finishNetwork, NetAlive, storage, IInv, TypeOK
<1>6. /\ DOMAIN interfaces' = DOMAIN interfaces
      /\ \/ NetAlive(i)' /\ Unfinished' = Unfinished
         \/ ~NetAlive(i)' /\ Unfinished' = Unfinished \ {i}
  <2>1. CASE interfaces' = interfaces /\ NetAlive(i)'
    BY <2>1 DEF Unfinished
  <2>2. CASE finishNetwork(i) /\ ~NetAlive(i)'
    <3>1. /\ DOMAIN interfaces' = DOMAIN interfaces
          /\ interfaces'[i].finished
          /\ \A j \in DOMAIN interfaces : j # i => interfaces'[j] = interfaces[j]
      BY <1>2, <2>2, TableType DEF finishNetwork, Entry, Control, IInv, TypeOK, ThreadControl
    <3> QED BY <2>2, <3>1 DEF Unfinished
  <2> QED BY <1>5, <2>1, <2>2
<1>7. EntriesAndThreads'
  <2>1. \A j \in Unfinished : j \in Interface
    BY TableType DEF IInv, TypeOK, Unfinished
  <2>2. \A j \in Interface : j # i => (NetAlive(j)' <=> NetAlive(j))
    BY <1>4 DEF NetAlive
  <2> QED BY <1>2, <1>6, <2>1, <2>2 DEF IInv, EntriesAndThreads
<1>10. NoThreadWhileReplacing'
  <2>1. \A j \in Interface : NetAlive(j)' => NetAlive(j)
    BY <1>2, <1>4 DEF NetAlive
  <2>2. pc = "launchSecond" => handle[2] \in Interface
    BY DEF IInv, TypeOK, EntriesAndHandles, HandlesSet
  <2>3. pc' = pc /\ handle' = handle
    BY <1>3 DEF owner
  <2> QED BY <2>1, <2>2, <2>3 DEF IInv, NoThreadWhileReplacing, NetAlive
<1>8. EntriesAndHandles'
  BY <1>2, <1>3, <1>6 DEF IInv, EntriesAndHandles, HandlesSet, Replacing, owner
<1>9. RestThreadInv' /\ TimerInv'
  BY <1>2, <1>3 DEF IInv, RestThreadInv, RestAlive, TimerInv, Quiet, owner, window
<1> QED BY <1>1, <1>7, <1>8, <1>9, <1>10 DEF IInv

LEMMA ServerStep == IInv /\ (httpServeReturns \/ httpServeFails \/ finishRest) => IInv'
<1> SUFFICES ASSUME IInv, httpServeReturns \/ httpServeFails \/ finishRest PROVE IInv'
  OBVIOUS
<1>1. TypeOK'
  BY TypeStep DEF Next
<1>2. /\ UNCHANGED <<interfaces, netThread, owner, pc, ret, window>>
      /\ RestAlive
      /\ \/ restThread' = restThread /\ RestAlive'
         \/ restThread' = [restThread EXCEPT !.finished = TRUE] /\ ~RestAlive'
  BY DEF httpServeReturns, httpServeFails, ServeEnds, finishRest, RestAlive, storage
<1>3. restThread'.running = restThread.running /\ (~RestAlive' => restThread'.finished)
  BY <1>2 DEF IInv, TypeOK, ThreadControl
<1>4. Unfinished' = Unfinished
  BY <1>2 DEF Unfinished
<1>5. EntriesAndThreads' /\ NoThreadWhileReplacing' /\ EntriesAndHandles'
  BY <1>2, <1>3, <1>4 DEF IInv, EntriesAndThreads, NetAlive, NoThreadWhileReplacing,
     EntriesAndHandles, HandlesSet, owner
<1>6. RestThreadInv' /\ TimerInv'
  BY <1>2, <1>3, <1>4 DEF IInv, RestThreadInv, TimerInv, Quiet, owner, window
<1> QED BY <1>1, <1>5, <1>6 DEF IInv

LEMMA InvStep == IInv /\ [Next]_vars => IInv'
<1> SUFFICES ASSUME IInv, [Next]_vars PROVE IInv'
  OBVIOUS
<1>1. CASE GuiStep
  BY <1>1, BranchStep, JoinStep, LaunchStep, SignalStep, GuiRestStep, RefreshStep DEF GuiStep
<1>2. CASE UserEvent \/ threadTimer \/ httpServeReturns \/ httpServeFails \/ finishRest
  BY <1>2, UserStep, RefreshStep, ServerStep
<1>3. CASE \E i \in Interface : packetCallback(i) \/ sniffLoopEnds(i) \/ finishNetwork(i)
  BY <1>3, NetworkThreadStep
<1>4. CASE UNCHANGED vars
  <2>1. UNCHANGED Unfinished /\ TypeOK'
    BY <1>4, TypeStep DEF vars, storage, Unfinished
  <2> QED BY <1>4, <2>1 DEF IInv, EntriesAndThreads, EntriesAndHandles, HandlesSet,
       NoThreadWhileReplacing, RestThreadInv, TimerInv, Quiet, NetAlive, RestAlive,
       vars, storage, threads, owner, window
<1> QED BY <1>1, <1>2, <1>3, <1>4 DEF Next

\* Every state the switch reaches satisfies the strengthened invariant: what the
\* GUI thread knows at each step of an operation, and which flags a thread leaves.
THEOREM Inductive == Spec => []IInv
  BY InitInv, InvStep, PTL DEF Spec

------------------------------------------------------------------------------
(* The properties *)

\* The threads, the flags, the handles and the GUI thread's position keep
\* their types: no entry of storage.interfaces is ever made for an id that is
\* not an interface's, in particular not for a handle that is null.
THEOREM TypeCorrect == Spec => []TypeOK
  BY Inductive, PTL DEF IInv

\* NetworkSwitch::state() answers Idle only when every thread has returned.
THEOREM IdleIsSafe == Spec => []IdleMeansNoThread
<1>1. IInv => IdleMeansNoThread
  <2> SUFFICES ASSUME IInv, State = "Idle"
               PROVE  (\A i \in Interface : ~NetAlive(i)) /\ ~RestAlive
    BY DEF IdleMeansNoThread
  <2>1. CASE pc \in {"joinSecond", "reset"}
    <3>1. restHandle => restThread.finished
      BY DEF State, IInv, TypeOK
    <3> QED BY <2>1, <3>1 DEF IInv, NoThreadWhileReplacing, RestThreadInv
  <2>2. CASE pc \notin {"joinSecond", "reset"}
    <3>1. DOMAIN interfaces \subseteq {handle[1], handle[2]}
      BY <2>2 DEF IInv, EntriesAndHandles
    <3> QED BY <3>1, StateCases DEF IInv, EntriesAndThreads, RestThreadInv
  <2> QED BY <2>1, <2>2
<1> QED BY <1>1, Inductive, PTL

\* operator[] never leaves a phantom entry behind: whoever state() calls
\* unfinished is a live thread that will say so when it returns.
THEOREM NoPhantomEntry == Spec => []UnfinishedHasThread
<1>1. IInv => UnfinishedHasThread
  BY DEF IInv, EntriesAndThreads, RestThreadInv, UnfinishedHasThread
<1> QED BY <1>1, Inductive, PTL

\* MainWindow::refreshUi stops the timer only when the window is final.
THEOREM TimerIsSafe == Spec => []NoTimerMeansIdle
<1>1. IInv => NoTimerMeansIdle
  <2> SUFFICES ASSUME IInv, pc = "loop", ~timer PROVE State = "Idle" /\ shown = "Idle"
    BY DEF NoTimerMeansIdle
  <2>1. Quiet
    BY DEF IInv, TimerInv, Starting, Replacing, Refresh
  <2>2. DOMAIN interfaces \subseteq {handle[1], handle[2]}
    BY DEF IInv, EntriesAndHandles
  <2> QED BY <2>1, <2>2, StateCases DEF IInv, Quiet
<1> QED BY <1>1, Inductive, PTL

\* A request to stop is never taken back while its thread is alive.
THEOREM StopIsFinal == Spec => StopRequestSticks
<1> DEFINE Sticks(i) == NetAlive(i) /\ ~Control(i).running /\ NetAlive(i)' => ~Control(i).running'
           RestSticks == restServer = "serving" /\ quit /\ RestAlive' => quit'
<1>1. IInv /\ [Next]_vars => (\A i \in Interface : Sticks(i)) /\ RestSticks
  <2> SUFFICES ASSUME IInv, [Next]_vars PROVE (\A i \in Interface : Sticks(i)) /\ RestSticks
    OBVIOUS
  <2>1. RestSticks
    <3>1. CASE launchRest
      BY <3>1 DEF IInv, RestThreadInv, launchRest, CallRefresh, RestAlive
    <3>2. CASE ~launchRest
      <4>1. quit' = quit \/ quit' = (quit \/ restHandle)
        BY <3>2 DEF Next, UserEvent, GuiStep, onStartStopButtonClicked, onRestStartStopButtonClicked,
           otherRefresh, clearOneStatsTable, startStopIsRest, startStopIsIdle, restButtonIsRest,
           startNetwork, joinFirst, joinSecond, resetStorage, launchFirst, launchSecond, startTimer,
           signalFirst, signalSecond, stopRest, startRest, joinRest, refreshUi, readNames, refreshInfo,
           RefreshBranch, threadTimer, packetCallback, sniffLoopEnds, finishNetwork, httpServeReturns,
           httpServeFails, ServeEnds, finishRest, ReadState, CallRefresh, ReplaceHandle, start,
           signalStop, vars, threads
      <4> QED BY <4>1
    <3> QED BY <3>1, <3>2
  <2>2. ASSUME NEW i \in Interface, NetAlive(i), ~Control(i).running, NetAlive(i)'
        PROVE  ~Control(i).running'
    <3>1. i \in DOMAIN interfaces
      BY <2>2 DEF IInv, EntriesAndThreads, Unfinished
    <3>2. CASE launchFirst \/ launchSecond
      <4>1. i # handle[1] \/ ~launchFirst
        BY <2>2 DEF IInv, NoThreadWhileReplacing, launchFirst
      <4> QED BY <2>2, <3>1, <3>2 DEF IInv, NoThreadWhileReplacing, launchFirst, launchSecond,
               CallRefresh, start, Entry, Control
    <3>3. CASE resetStorage
      BY <2>2, <3>3 DEF IInv, NoThreadWhileReplacing, resetStorage
    <3>4. CASE signalFirst \/ signalSecond
      BY <2>2, <3>1, <3>4, TableType DEF IInv, TypeOK, ThreadControl, signalFirst, signalSecond,
         signalStop, Entry, Control
    <3>5. ASSUME NEW j \in Interface, packetCallback(j) \/ sniffLoopEnds(j) \/ finishNetwork(j)
          PROVE  ~Control(i).running'
      BY <2>2, <3>1, <3>5, TableType DEF IInv, TypeOK, ThreadControl, packetCallback, sniffLoopEnds,
         finishNetwork, Entry, Touched, Control, storage
    <3>6. CASE clearOneStatsTable \/ readNames
      <4>1. interfaces' = interfaces
        BY <3>6, NamesReadIsNoop DEF clearOneStatsTable, readNames, CallRefresh, Replacing
      <4> QED BY <2>2, <4>1 DEF Control
    <3>7. \/ launchFirst \/ launchSecond \/ resetStorage \/ signalFirst \/ signalSecond
          \/ clearOneStatsTable \/ readNames
          \/ \E j \in Interface : packetCallback(j) \/ sniffLoopEnds(j) \/ finishNetwork(j)
          \/ UNCHANGED interfaces
      BY DEF Next, UserEvent, GuiStep, onStartStopButtonClicked, onRestStartStopButtonClicked,
         otherRefresh, startStopIsRest, startStopIsIdle, restButtonIsRest, startNetwork, joinFirst,
         joinSecond, startTimer, stopRest, startRest, joinRest, launchRest, refreshUi, RefreshBranch,
         refreshInfo, threadTimer, httpServeReturns, httpServeFails, ServeEnds, finishRest, ReadState, CallRefresh,
         ReplaceHandle, vars, storage
    <3>8. CASE UNCHANGED interfaces
      BY <2>2, <3>8 DEF Control
    <3> QED BY <3>2, <3>3, <3>4, <3>5, <3>6, <3>7, <3>8
  <2> QED BY <2>1, <2>2
<1> QED BY <1>1, Inductive, PTL DEF Spec, StopRequestSticks

------------------------------------------------------------------------------
(* The refinements.  PhaseOf goes by the first unfinished entry.  It moves   *)
(* along the edges because, but for the moment between the two signalStop    *)
(* calls, the threads that are alive are all asked to run or all to stop.    *)

AllRun   == \A i \in Unfinished : interfaces[i].running
NoneRuns == \A i \in Unfinished : ~interfaces[i].running

RestOff == ~restThread.running /\ (restHandle => restThread.finished)

\* A restart launches into an empty table, with the old server gone.
RestartIsClean ==
  /\ pc = "launchFirst"  => DOMAIN interfaces = {}
  /\ pc = "launchSecond" => DOMAIN interfaces = {handle[1]}
  /\ pc \in {"joinFirst"} \cup Replacing => RestOff

\* The threads are told the same.
ToldTheSame ==
  /\ pc # "signalSecond" => AllRun \/ NoneRuns
  /\ pc = "signalSecond" => \A i \in Unfinished : i # handle[2] => ~interfaces[i].running
  /\ pc \in {"signalFirst", "joinRest", "launchRest", "launchSecond"} => AllRun
  /\ restThread.running /\ pc \notin {"signalSecond", "stopRest"} => AllRun

RInv == RestartIsClean /\ ToldTheSame

------------------------------------------------------------------------------
(* The phase by the flags *)

LEMMA Flags ==
  ASSUME IInv
  PROVE  /\ Unfinished \subseteq DOMAIN interfaces /\ Unfinished \subseteq Interface
         /\ \A i \in DOMAIN interfaces : interfaces[i].running \in BOOLEAN
         /\ restThread.running \in BOOLEAN /\ restThread.finished \in BOOLEAN
         /\ restHandle \in BOOLEAN
  BY TableType DEF IInv, TypeOK, Unfinished, ThreadControl

PhaseByFlags ==
  IF pc \in {"joinRest", "launchRest"} THEN "RunningNetwork"
  ELSE IF restThread.running THEN "RunningRest"
  ELSE IF Unfinished # {}
    THEN IF pc = "signalSecond" \/ AllRun THEN "RunningNetwork" ELSE "Stopping"
  ELSE IF restHandle /\ ~restThread.finished THEN "Stopping"
  ELSE "Idle"

PhaseFits == PhaseOf = PhaseByFlags

LEMMA PhaseIs == ASSUME IInv, RInv PROVE PhaseFits
<1> SUFFICES PhaseOf = PhaseByFlags
  BY DEF PhaseFits
<1>1. CASE pc \in {"joinRest", "launchRest"}
  BY <1>1 DEF PhaseOf, PhaseByFlags
<1>2. CASE pc \notin {"joinRest", "launchRest"} /\ restThread.running
  BY <1>2 DEF PhaseOf, PhaseByFlags, State
<1>3. CASE pc \notin {"joinRest", "launchRest"} /\ ~restThread.running /\ Unfinished = {}
  BY <1>3, Flags DEF PhaseOf, PhaseByFlags, State
<1>4. CASE pc \notin {"joinRest", "launchRest"} /\ ~restThread.running /\ Unfinished # {}
  <2>1. DOMAIN interfaces \subseteq {handle[1], handle[2]}
    <3>1. CASE pc \in {"joinSecond", "reset"}
      BY <1>4, <3>1, Flags DEF IInv, NoThreadWhileReplacing, EntriesAndThreads
    <3>2. CASE pc \notin {"joinSecond", "reset"}
      BY <3>2 DEF IInv, EntriesAndHandles
    <3> QED BY <3>1, <3>2
  <2>2. PICK i \in Unfinished : FirstLive(i)
    BY <1>4, <2>1, FirstLiveExists DEF IInv
  <2>3. interfaces[i].running \in BOOLEAN
    BY <2>2, Flags
  <2>4. State \in {"RunningNetwork", "Stopping"}
    BY <1>4, <2>2, <2>3 DEF State
  <2>5. AllRun => State = "RunningNetwork"
    BY <1>4, <2>2 DEF State, AllRun
  <2>6. NoneRuns => State = "Stopping"
    BY <1>4, <2>2 DEF State, NoneRuns
  <2>7. pc # "signalSecond" => AllRun \/ NoneRuns
    BY DEF RInv, ToldTheSame
  <2>8. AllRun => ~NoneRuns
    BY <2>2 DEF AllRun, NoneRuns
  <2> QED BY <1>4, <2>4, <2>5, <2>6, <2>7, <2>8 DEF PhaseOf, PhaseByFlags
<1> QED BY <1>1, <1>2, <1>3, <1>4, Flags

------------------------------------------------------------------------------
(* What the steps of the GUI do to table and flags *)

Deep == {"joinFirst", "signalFirst", "signalSecond", "stopRest", "joinRest", "launchRest"}
          \cup Replacing

\* A step that asks and draws.
Asks ==
  /\ UNCHANGED <<interfaces, restThread, netThread, handle, restHandle>>
  /\ pc \notin Deep
  /\ \/ pc' \notin Deep \/ pc' = "stopRest"
     \/ pc' = "signalFirst" /\ State \in {"RunningNetwork", "RunningRest"}
     \/ pc' = "joinFirst" /\ State = "Idle"
     \/ pc' = "joinRest" /\ State = "RunningNetwork"

LEMMA AsksLemma ==
  ASSUME IInv,
         \/ UserEvent \/ threadTimer \/ startStopIsRest \/ startStopIsIdle \/ restButtonIsRest
         \/ startNetwork \/ startRest \/ startTimer \/ refreshUi \/ readNames \/ refreshInfo
  PROVE  Asks
<1> USE DEF storage, threads, owner, window, Deep, Replacing
<1>1. CASE onStartStopButtonClicked \/ onRestStartStopButtonClicked \/ otherRefresh
  BY <1>1 DEF Asks, onStartStopButtonClicked, onRestStartStopButtonClicked, otherRefresh,
     ReadState, CallRefresh
<1>2. CASE clearOneStatsTable
  <2>1. NamesRead = interfaces
    BY <1>2, NamesReadIsNoop DEF clearOneStatsTable, CallRefresh
  <2> QED BY <1>2, <2>1 DEF Asks, clearOneStatsTable, CallRefresh
<1>3. CASE threadTimer
  BY <1>3 DEF Asks, threadTimer, CallRefresh
<1>4. CASE startStopIsRest \/ startStopIsIdle \/ restButtonIsRest
  BY <1>4 DEF Asks, startStopIsRest, startStopIsIdle, restButtonIsRest, ReadState
<1>5. CASE startNetwork \/ startRest
  BY <1>5 DEF Asks, startNetwork, startRest, CallRefresh
<1>6. CASE startTimer \/ refreshInfo
  BY <1>6 DEF Asks, startTimer, refreshInfo
<1>7. CASE refreshUi
  <2>1. pc' \in {"refresh2", "refresh3", "refresh4", "names", "loop", "startTimer", "refreshInfo"}
    BY <1>7 DEF refreshUi, RefreshBranch, Draw, Return, IInv, TypeOK
  <2> QED BY <1>7, <2>1 DEF Asks, refreshUi, RefreshBranch
<1>8. CASE readNames
  <2>1. NamesRead = interfaces
    BY <1>8, NamesReadIsNoop DEF readNames
  <2>2. pc' \in {"loop", "startTimer", "refreshInfo"}
    BY <1>8 DEF readNames, Return, IInv, TypeOK
  <2> QED BY <1>8, <2>1, <2>2 DEF Asks, readNames
<1> QED BY <1>1, <1>2, <1>3, <1>4, <1>5, <1>6, <1>7, <1>8 DEF UserEvent

LEMMA UnfinishedBy ==
  ASSUME interfaces' = interfaces
  PROVE  Unfinished' = Unfinished /\ (AllRun' <=> AllRun) /\ (NoneRuns' <=> NoneRuns)
  BY DEF Unfinished, AllRun, NoneRuns

\* A step of a thread: an entry may be finished, or the server's flags.
Runs ==
  /\ UNCHANGED <<pc, handle, restHandle>>
  /\ DOMAIN interfaces' = DOMAIN interfaces
  /\ Unfinished' \subseteq Unfinished
  /\ \A i \in Unfinished' : interfaces'[i].running = interfaces[i].running
  /\ restThread'.running = restThread.running
  /\ restThread.finished => restThread'.finished
  /\ Unfinished' # Unfinished => Unfinished # {} /\ restThread' = restThread
  /\ restThread' # restThread => restHandle /\ ~restThread.finished

LEMMA RunsLemma ==
  ASSUME IInv,
         \/ \E i \in Interface : packetCallback(i) \/ sniffLoopEnds(i) \/ finishNetwork(i)
         \/ httpServeReturns \/ httpServeFails \/ finishRest
         \/ UNCHANGED vars
  PROVE  Runs
<1>1. CASE UNCHANGED <<interfaces, restThread, pc, handle, restHandle>>
  BY <1>1, UnfinishedBy DEF Runs
<1>2. ASSUME NEW i \in Interface, packetCallback(i) PROVE Runs
  <2>1. i \in DOMAIN interfaces
    BY <1>2 DEF IInv, EntriesAndThreads, NetAlive, Unfinished, packetCallback
  <2>2. interfaces' = interfaces
    BY <1>2, <2>1, TouchedIsNoop DEF packetCallback, IInv
  <2> QED BY <1>1, <1>2, <2>2 DEF packetCallback, owner
<1>3. ASSUME NEW i \in Interface, finishNetwork(i) PROVE Runs
  <2>1. i \in Unfinished /\ i \in DOMAIN interfaces
    BY <1>3 DEF IInv, EntriesAndThreads, NetAlive, Unfinished, finishNetwork
  <2>2. /\ DOMAIN interfaces' = DOMAIN interfaces
        /\ interfaces'[i].finished
        /\ \A j \in DOMAIN interfaces : j # i => interfaces'[j] = interfaces[j]
    BY <1>3, <2>1, TableType DEF finishNetwork, Entry, Control, IInv, TypeOK, ThreadControl
  <2>3. Unfinished' = Unfinished \ {i}
    BY <2>2 DEF Unfinished
  <2>4. \A j \in Unfinished' : interfaces'[j].running = interfaces[j].running
    BY <2>2, <2>3 DEF Unfinished
  <2> QED BY <1>3, <2>1, <2>2, <2>3, <2>4 DEF Runs, finishNetwork, owner
<1>4. CASE finishRest
  <2>1. /\ UNCHANGED <<interfaces, pc, handle, restHandle>>
        /\ restThread' = [restThread EXCEPT !.finished = TRUE]
    BY <1>4 DEF finishRest, owner
  <2>2. restHandle /\ ~restThread.finished
    BY <1>4 DEF finishRest, IInv, RestThreadInv, RestAlive
  <2>3. restThread'.running = restThread.running /\ restThread'.finished
    BY <2>1 DEF IInv, TypeOK, ThreadControl
  <2> QED BY <2>1, <2>2, <2>3, UnfinishedBy DEF Runs
<1> QED
  BY <1>1, <1>2, <1>3, <1>4 DEF sniffLoopEnds, httpServeReturns, httpServeFails, ServeEnds,
     vars, storage, owner

------------------------------------------------------------------------------
(* The strengthening is inductive *)

LEMMA InitRInv == Init => RInv
  BY DEF Init, RInv, RestartIsClean, ToldTheSame, Replacing, AllRun, NoneRuns, Unfinished, Stopped

LEMMA AsksKeeps == ASSUME IInv, RInv, Asks PROVE RInv'
<1> USE DEF Deep, Replacing
<1>1. (AllRun' <=> AllRun) /\ (NoneRuns' <=> NoneRuns)
  BY UnfinishedBy DEF Asks
<1>2. State = "Idle" => RestOff
  BY Flags, PhaseIs DEF Asks, PhaseFits, PhaseOf, PhaseByFlags, RestOff
<1>3. State \in {"RunningNetwork", "RunningRest"} => AllRun
  BY Flags, PhaseIs DEF Asks, PhaseFits, PhaseOf, PhaseByFlags, RInv, ToldTheSame, AllRun
<1>4. RestartIsClean'
  BY <1>2 DEF Asks, RestartIsClean, RestOff
<1>5. ToldTheSame'
  BY <1>1, <1>3 DEF Asks, RInv, ToldTheSame
<1> QED BY <1>4, <1>5 DEF RInv

LEMMA RunsKeeps == ASSUME IInv, RInv, Runs PROVE RInv'
<1>1. (AllRun => AllRun') /\ (NoneRuns => NoneRuns')
  BY DEF Runs, AllRun, NoneRuns
<1>2. RestartIsClean'
  BY DEF Runs, RInv, RestartIsClean, RestOff
<1>3. ToldTheSame'
  BY <1>1 DEF Runs, RInv, ToldTheSame
<1> QED BY <1>2, <1>3 DEF RInv

LEMMA NothingUnfinished ==
  ASSUME IInv, pc \in {"joinFirst", "joinSecond", "reset", "launchFirst"}
  PROVE  Unfinished = {}
  BY Flags DEF IInv, NoThreadWhileReplacing, EntriesAndThreads

LEMMA JoinKeeps == ASSUME IInv, RInv, joinFirst \/ joinSecond \/ resetStorage PROVE RInv'
<1>1. /\ UNCHANGED <<restThread, restHandle>>
      /\ pc \in {"joinFirst", "joinSecond", "reset"} /\ pc' \in {"joinSecond", "reset", "launchFirst"}
      /\ pc' = "launchFirst" => DOMAIN interfaces' = {}
      /\ interfaces' = interfaces \/ DOMAIN interfaces' = {}
  BY DEF joinFirst, joinSecond, resetStorage, ReplaceHandle, storage, owner
<1>2. Unfinished' = {}
  BY <1>1, NothingUnfinished DEF Unfinished
<1>3. RestartIsClean'
  BY <1>1 DEF RInv, RestartIsClean, RestOff, Replacing
<1>4. ToldTheSame'
  BY <1>1, <1>2 DEF ToldTheSame, AllRun
<1> QED BY <1>3, <1>4 DEF RInv

LEMMA LaunchFacts ==
  ASSUME IInv, RInv, launchFirst \/ launchSecond
  PROVE  /\ Unfinished' # {} /\ AllRun'
         /\ UNCHANGED <<restThread, restHandle, handle>>
         /\ launchFirst => DOMAIN interfaces' = {handle[1]}
<1>1. PICK k \in 1..2 : start(k) /\ (launchFirst => k = 1)
  BY DEF launchFirst, launchSecond, CallRefresh
<1>2. /\ DOMAIN interfaces' = DOMAIN interfaces \cup {handle[k]}
      /\ interfaces'[handle[k]] = Started
      /\ \A i \in DOMAIN interfaces : i # handle[k] => interfaces'[i] = interfaces[i]
  BY <1>1 DEF start, Entry
<1>3. AllRun
  BY NothingUnfinished DEF launchFirst, launchSecond, CallRefresh, RInv, ToldTheSame, AllRun
<1>4. handle[k] \in Unfinished'
  BY <1>2 DEF Unfinished, Started
<1>5. AllRun'
  BY <1>2, <1>3 DEF Unfinished, AllRun, Started
<1>6. launchFirst => DOMAIN interfaces' = {handle[1]}
  BY <1>1, <1>2 DEF RInv, RestartIsClean, launchFirst
<1> QED BY <1>1, <1>4, <1>5, <1>6 DEF start, owner

LEMMA LaunchKeeps == ASSUME IInv, RInv, launchFirst \/ launchSecond PROVE RInv'
<1>1. \/ launchFirst /\ pc = "launchFirst" /\ pc' = "launchSecond"
      \/ pc = "launchSecond" /\ pc' = "refresh1"
  BY DEF launchFirst, launchSecond, CallRefresh
<1>2. /\ UNCHANGED <<restThread, restHandle, handle>>
      /\ AllRun' /\ (launchFirst => DOMAIN interfaces' = {handle[1]})
  BY LaunchFacts
<1>3. RestartIsClean'
  <2>1. RestOff /\ RestOff'
    BY <1>1, <1>2 DEF RInv, RestartIsClean, RestOff, Replacing
  <2> QED BY <1>1, <1>2, <2>1 DEF RestartIsClean
<1>4. ToldTheSame'
  BY <1>1, <1>2 DEF ToldTheSame
<1> QED BY <1>3, <1>4 DEF RInv

\* signalStop(k) clears the flag of the entry of the k-th handle and no other.
LEMMA SignalFacts ==
  ASSUME IInv, NEW k \in 1..2, signalStop(k), pc \in {"signalFirst", "signalSecond"}
  PROVE  /\ Unfinished' = Unfinished
         /\ handle[k] \in DOMAIN interfaces /\ ~interfaces'[handle[k]].running
         /\ \A i \in Unfinished : i # handle[k] => interfaces'[i] = interfaces[i]
         /\ UNCHANGED <<restThread, restHandle, handle>>
<1>1. handle[k] \in DOMAIN interfaces
  BY DEF IInv, EntriesAndHandles, HandlesSet, Replacing
<1>2. /\ DOMAIN interfaces' = DOMAIN interfaces
      /\ \A i \in DOMAIN interfaces : interfaces'[i].finished = interfaces[i].finished
      /\ ~interfaces'[handle[k]].running
      /\ \A i \in DOMAIN interfaces : i # handle[k] => interfaces'[i] = interfaces[i]
  BY <1>1, TableType DEF signalStop, Entry, Control, IInv, TypeOK, ThreadControl
<1> QED BY <1>1, <1>2 DEF Unfinished, signalStop, owner

LEMMA SignalKeeps == ASSUME IInv, RInv, signalFirst \/ signalSecond PROVE RInv'
<1>1. CASE signalFirst
  <2>1. pc = "signalFirst" /\ pc' = "signalSecond" /\ signalStop(1)
    BY <1>1 DEF signalFirst
  <2>2. \A i \in Unfinished : i \in {handle[1], handle[2]}
    BY <2>1, Flags DEF IInv, EntriesAndHandles
  <2>3. \A i \in Unfinished' : i # handle'[2] => ~interfaces'[i].running
    BY <2>1, <2>2, SignalFacts
  <2> QED BY <2>1, <2>3 DEF RInv, RestartIsClean, ToldTheSame, Replacing
<1>2. CASE signalSecond
  <2>1. pc = "signalSecond" /\ pc' = "stopRest" /\ signalStop(2)
    BY <1>2 DEF signalSecond
  <2>2. NoneRuns'
    BY <2>1, SignalFacts DEF NoneRuns, RInv, ToldTheSame
  <2> QED BY <2>1, <2>2 DEF RInv, RestartIsClean, ToldTheSame, Replacing
<1> QED BY <1>1, <1>2

LEMMA RestKeeps == ASSUME IInv, RInv, stopRest \/ joinRest \/ launchRest PROVE RInv'
<1>1. interfaces' = interfaces /\ (AllRun' <=> AllRun) /\ (NoneRuns' <=> NoneRuns)
  BY UnfinishedBy DEF stopRest, joinRest, launchRest, CallRefresh, storage
<1>2. CASE stopRest
  <2>1. ~restThread'.running
    BY <1>2, Flags DEF stopRest, IInv, TypeOK, ThreadControl, RestThreadInv
  <2> QED BY <1>1, <1>2, <2>1 DEF stopRest, RInv, RestartIsClean, ToldTheSame, Replacing
<1>3. CASE joinRest \/ launchRest
  BY <1>1, <1>3 DEF joinRest, launchRest, CallRefresh, RInv, RestartIsClean, ToldTheSame, Replacing,
     storage
<1> QED BY <1>2, <1>3

\* The five kinds of steps.
LEMMA Kinds ==
  ASSUME IInv, [Next]_vars
  PROVE  \/ Asks \/ Runs
         \/ joinFirst \/ joinSecond \/ resetStorage
         \/ launchFirst \/ launchSecond
         \/ signalFirst \/ signalSecond
         \/ stopRest \/ joinRest \/ launchRest
  BY AsksLemma, RunsLemma DEF Next, GuiStep

LEMMA RInvStep == IInv /\ RInv /\ [Next]_vars => RInv'
  BY Kinds, AsksKeeps, RunsKeeps, JoinKeeps, LaunchKeeps, SignalKeeps, RestKeeps

\* Live threads are asked alike, and a restart launches into an empty table.
THEOREM AskedAlike == Spec => [](IInv /\ RInv)
  BY Inductive, InitInv, InvStep, InitRInv, RInvStep, PTL DEF Spec

------------------------------------------------------------------------------
(* The phases *)

\* These are all moves but the four that SwitchControl does not have.
LEMMA Edges ==
  ASSUME PhaseOf \in SwitchState, PhaseOf' \in SwitchState,
         PhaseOf = "Idle" => PhaseOf' \in {"Idle", "RunningNetwork"},
         PhaseOf = "Stopping" => PhaseOf' \in {"Stopping", "Idle"}
  PROVE  Control0!Next \/ PhaseOf' = PhaseOf
<1> DEFINE p == PhaseOf
           q == PhaseOf'
<1>1. p \in {"Idle", "RunningNetwork", "RunningRest", "Stopping"}
      /\ q \in {"Idle", "RunningNetwork", "RunningRest", "Stopping"}
  BY DEF SwitchState
<1> HIDE DEF p, q
<1>2. \/ p = q
      \/ p = "Idle" /\ q = "RunningNetwork"
      \/ p = "RunningNetwork" /\ q \in {"RunningRest", "Stopping", "Idle"}
      \/ p = "RunningRest" /\ q \in {"RunningNetwork", "Stopping", "Idle"}
      \/ p = "Stopping" /\ q = "Idle"
  BY <1>1 DEF p, q
<1> QED BY <1>2 DEF p, q, Control0!Next, Control0!Start, Control0!RestUp, Control0!RestDown,
           Control0!NetworkDown, Control0!Drained, Control0!Move

LEMMA PhaseStep ==
  ASSUME IInv, RInv, [Next]_vars
  PROVE  /\ PhaseByFlags = "Idle" => PhaseByFlags' \in {"Idle", "RunningNetwork"}
         /\ PhaseByFlags = "Stopping" => PhaseByFlags' \in {"Stopping", "Idle"}
<1> USE DEF PhaseByFlags
<1>1. CASE Asks
  <2>1. Unfinished' = Unfinished /\ (AllRun' <=> AllRun)
    BY <1>1, UnfinishedBy DEF Asks
  <2>2. State = "RunningNetwork" => PhaseByFlags = "RunningNetwork"
    BY <1>1, PhaseIs DEF Asks, PhaseFits, PhaseOf, Deep
  <2> QED BY <1>1, <2>1, <2>2 DEF Asks, Deep, Replacing
<1>2. CASE Runs
  <2>1. Unfinished' # Unfinished => Unfinished # {} /\ restThread' = restThread
    BY <1>2 DEF Runs
  <2>2. AllRun => AllRun'
    BY <1>2 DEF Runs, AllRun
  <2>3. NoneRuns /\ Unfinished' # {} => ~AllRun'
    BY <1>2 DEF Runs, AllRun, NoneRuns
  <2>4. pc # "signalSecond" => AllRun \/ NoneRuns
    BY DEF RInv, ToldTheSame
  <2>5. Unfinished' = Unfinished => (Unfinished' # {} <=> Unfinished # {})
    OBVIOUS
  <2> QED BY <1>2, <2>1, <2>2, <2>3, <2>4, <2>5, Flags DEF Runs
<1>3. CASE joinFirst \/ joinSecond \/ resetStorage
  <2>1. Unfinished = {} /\ Unfinished' = {}
    BY <1>3, NothingUnfinished DEF joinFirst, joinSecond, resetStorage, ReplaceHandle, storage, Unfinished
  <2> QED BY <1>3, <2>1 DEF joinFirst, joinSecond, resetStorage, ReplaceHandle, storage, owner
<1>4. CASE launchFirst \/ launchSecond
  <2>1. RestOff /\ Unfinished' # {} /\ AllRun' /\ restThread' = restThread
    BY <1>4, LaunchFacts DEF RInv, RestartIsClean, Replacing, launchFirst, launchSecond, CallRefresh
  <2>4. AllRun
    BY <1>4, NothingUnfinished DEF launchFirst, launchSecond, CallRefresh, RInv, ToldTheSame, AllRun
  <2>2. PhaseByFlags # "Stopping"
    BY <1>4, <2>1, <2>4 DEF RestOff, launchFirst, launchSecond, CallRefresh
  <2>3. PhaseByFlags' = "RunningNetwork"
    BY <1>4, <2>1 DEF RestOff, launchFirst, launchSecond, CallRefresh
  <2> QED BY <2>2, <2>3
<1>5. CASE signalFirst \/ signalSecond
  <2>1. Unfinished' = Unfinished /\ UNCHANGED <<restThread, restHandle>>
    BY <1>5, SignalFacts DEF signalFirst, signalSecond
  <2>2. pc = "signalFirst" => AllRun
    BY DEF RInv, ToldTheSame
  <2> QED BY <1>5, <2>1, <2>2 DEF signalFirst, signalSecond
<1>6. CASE stopRest
  <2>1. Unfinished' = Unfinished /\ (AllRun' <=> AllRun)
    BY <1>6, UnfinishedBy DEF stopRest
  <2>2. ~restThread.running => UNCHANGED <<restThread, restHandle>>
    <3>1. ~restThread.running => [restThread EXCEPT !.running = FALSE] = restThread
      BY DEF IInv, TypeOK, ThreadControl
    <3> QED BY <1>6, <3>1 DEF stopRest, owner
  <2> QED BY <1>6, <2>1, <2>2 DEF stopRest
<1>7. CASE joinRest \/ launchRest
  BY <1>7 DEF joinRest, launchRest, CallRefresh
<1> QED BY <1>1, <1>2, <1>3, <1>4, <1>5, <1>6, <1>7, Kinds

\* The threads, the flags and the GUI thread's program counter implement the
\* switch of four phases and five edges.
THEOREM FollowsThePhases == Spec => ImplementsSwitchControl
<1>1. Init => Control0!Init
  BY DEF Init, Control0!Init, PhaseOf, State, Unfinished, Stopped
<1>2. IInv /\ RInv => PhaseFits
  BY PhaseIs
<1>3. IInv /\ RInv /\ PhaseFits /\ PhaseFits' /\ [Next]_vars => [Control0!Next]_PhaseOf
  <2> SUFFICES ASSUME IInv, RInv, PhaseFits, PhaseFits', [Next]_vars
               PROVE  Control0!Next \/ PhaseOf' = PhaseOf
    OBVIOUS
  <2>1. PhaseOf = PhaseByFlags /\ PhaseOf' = PhaseByFlags'
    BY DEF PhaseFits
  <2>2. PhaseByFlags \in SwitchState /\ PhaseByFlags' \in SwitchState
    BY DEF PhaseByFlags, SwitchState
  <2> QED BY <2>1, <2>2, PhaseStep, Edges
<1> QED BY <1>1, <1>3, <1>2, AskedAlike, PTL DEF Spec, ImplementsSwitchControl, Control0!Spec

------------------------------------------------------------------------------
(* The sniffers *)

LEMMA SameSniffers ==
  ASSUME DOMAIN interfaces' = DOMAIN interfaces,
         \A i \in DOMAIN interfaces : (netThread'[i] = "sniffing") = (netThread[i] = "sniffing")
  PROVE  LiveSniffers' = LiveSniffers
  BY DEF LiveSniffers

LEMMA SnifferStep ==
  ASSUME IInv, RInv, [Next]_vars
  PROVE  Sniffers!Next \/ LiveSniffers' = LiveSniffers
<1>1. CASE Asks
  BY <1>1, SameSniffers DEF Asks
<1>2. CASE joinFirst \/ joinSecond
  <2>1. interfaces' = interfaces
    BY <1>2 DEF joinFirst, joinSecond, ReplaceHandle, storage
  <2>2. \A i \in Interface : ~NetAlive(i) /\ ~NetAlive(i)'
    BY <1>2 DEF IInv, NoThreadWhileReplacing, NetAlive, joinFirst, joinSecond, ReplaceHandle
  <2>3. DOMAIN interfaces \subseteq Interface
    BY TableType DEF IInv, TypeOK
  <2> QED BY <2>1, <2>2, <2>3, SameSniffers DEF NetAlive
<1>3. CASE resetStorage
  <2>1. LiveSniffers' = Empty
    BY <1>3 DEF resetStorage, LiveSniffers, Empty
  <2>2. \A i \in DOMAIN LiveSniffers : ~LiveSniffers[i]
    BY <1>3, TableType DEF resetStorage, IInv, TypeOK, NoThreadWhileReplacing, NetAlive, LiveSniffers
  <2> QED BY <2>1, <2>2 DEF Sniffers!Next, Sniffers!Clear, Sniffers!Empty, Empty
<1>4. CASE launchFirst \/ launchSecond
  <2>1. PICK k \in 1..2 : start(k) /\ (k = 1 => pc = "launchFirst") /\ (k = 2 => pc = "launchSecond")
    BY <1>4 DEF launchFirst, launchSecond, CallRefresh
  <2>2. /\ handle[k] \in Interface /\ handle[k] \notin DOMAIN interfaces
        /\ \A i, j \in DOMAIN interfaces : i = j
    BY <2>1 DEF IInv, TypeOK, EntriesAndHandles, HandlesSet, RInv, RestartIsClean
  <2>3. DOMAIN interfaces' = DOMAIN interfaces \cup {handle[k]}
    BY <2>1 DEF start, Entry
  <2>4. \A i \in DOMAIN interfaces \cup {handle[k]} :
          netThread'[i] = IF i = handle[k] THEN "sniffing" ELSE netThread[i]
    BY <2>1, <2>2, TableType DEF start, IInv, TypeOK
  <2>5. LiveSniffers' = Insert(LiveSniffers, handle[k], TRUE)
    <3>1. \A i \in DOMAIN interfaces \cup {handle[k]} :
            (netThread'[i] = "sniffing") = (IF i = handle[k] THEN TRUE ELSE LiveSniffers[i])
      BY <2>2, <2>4 DEF LiveSniffers
    <3> QED BY <2>3, <3>1 DEF LiveSniffers, Insert
  <2>6. handle[k] \notin DOMAIN LiveSniffers /\ \A i, j \in DOMAIN LiveSniffers : i = j
    BY <2>2 DEF LiveSniffers
  <2> QED BY <2>2, <2>5, <2>6 DEF Sniffers!Next, Sniffers!Launch, Sniffers!Insert, Insert
<1>5. CASE signalFirst \/ signalSecond
  <2>1. PICK k \in 1..2 : signalStop(k) /\ pc \in {"signalFirst", "signalSecond"}
    BY <1>5 DEF signalFirst, signalSecond
  <2>2. handle[k] \in DOMAIN interfaces
    BY <2>1, SignalFacts
  <2>3. DOMAIN interfaces' = DOMAIN interfaces /\ netThread' = netThread
    BY <2>1, <2>2 DEF signalStop, Entry, threads
  <2> QED BY <2>3, SameSniffers
<1>6. CASE stopRest \/ joinRest \/ launchRest
  BY <1>6, SameSniffers DEF stopRest, joinRest, launchRest, CallRefresh, storage
<1>7. ASSUME NEW i \in Interface, packetCallback(i) \/ sniffLoopEnds(i) \/ finishNetwork(i)
      PROVE  Sniffers!Next \/ LiveSniffers' = LiveSniffers
  <2>1. DOMAIN interfaces' = DOMAIN interfaces /\ DOMAIN interfaces \subseteq Interface
    BY <1>7, RunsLemma, TableType DEF Runs, IInv, TypeOK
  <2>2. i \in DOMAIN interfaces
    BY <1>7 DEF IInv, EntriesAndThreads, NetAlive, Unfinished, packetCallback, sniffLoopEnds, finishNetwork
  <2>3. \/ netThread[i] = "sniffing" /\ netThread' = [netThread EXCEPT ![i] = "leaving"]
        \/ /\ (netThread'[i] = "sniffing") = (netThread[i] = "sniffing")
           /\ \A j \in Interface : j # i => netThread'[j] = netThread[j]
    BY <1>7 DEF IInv, TypeOK, packetCallback, sniffLoopEnds, finishNetwork
  <2>4. CASE netThread[i] = "sniffing" /\ netThread' = [netThread EXCEPT ![i] = "leaving"]
    <3>1. \A j \in DOMAIN interfaces :
            (netThread'[j] = "sniffing") = (IF j = i THEN FALSE ELSE netThread[j] = "sniffing")
      BY <2>1, <2>4 DEF IInv, TypeOK
    <3>2. LiveSniffers' = [LiveSniffers EXCEPT ![i] = FALSE]
      BY <2>1, <3>1 DEF LiveSniffers
    <3>3. i \in DOMAIN LiveSniffers /\ LiveSniffers[i]
      BY <2>2, <2>4 DEF LiveSniffers
    <3> QED BY <3>2, <3>3 DEF Sniffers!Next, Sniffers!Close
  <2>5. CASE /\ (netThread'[i] = "sniffing") = (netThread[i] = "sniffing")
             /\ \A j \in Interface : j # i => netThread'[j] = netThread[j]
    <3>1. \A j \in DOMAIN interfaces : (netThread'[j] = "sniffing") = (netThread[j] = "sniffing")
      BY <2>1, <2>5
    <3> QED BY <2>1, <3>1, SameSniffers
  <2> QED BY <2>3, <2>4, <2>5
<1>8. CASE httpServeReturns \/ httpServeFails \/ finishRest \/ UNCHANGED vars
  BY <1>8, SameSniffers DEF httpServeReturns, httpServeFails, ServeEnds, finishRest,
     vars, storage, threads
<1> QED BY <1>1, <1>2, <1>3, <1>4, <1>5, <1>6, <1>7, <1>8, AsksLemma DEF Next, GuiStep

\* startNetwork, the joins and the threads let sniffers live as Forwarding
\* takes them to.
THEOREM SniffersAreHandledSafely == Spec => ImplementsSnifferLife
<1>1. Init => Sniffers!Init
  BY DEF Init, Sniffers!Init, LiveSniffers, Sniffers!Empty
<1>2. IInv /\ RInv /\ [Next]_vars => [Sniffers!Next]_LiveSniffers
  BY SnifferStep
<1> QED BY <1>1, <1>2, AskedAlike, PTL DEF Spec, ImplementsSnifferLife, Sniffers!Spec

------------------------------------------------------------------------------
(* What liveness rests on: a slot of the GUI is short, its joins are of      *)
(* threads that have ended or were told to, and nothing starts during a      *)
(* stop.                                                                     *)

\* The most steps from each place of the GUI thread to its event loop.
StepsFrom ==
  [ loop |-> 0,
    startStop2 |-> 14, startStop3 |-> 13, startNetwork |-> 12, joinFirst |-> 11,
    joinSecond |-> 10, reset |-> 9, launchFirst |-> 8, launchSecond |-> 7, startTimer |-> 1,
    signalFirst |-> 3, signalSecond |-> 2, stopRest |-> 1,
    restButton2 |-> 9, startRest |-> 8, joinRest |-> 7, launchRest |-> 6,
    refresh1 |-> 5, refresh2 |-> 4, refresh3 |-> 3, refresh4 |-> 2, names |-> 1,
    refreshInfo |-> 1 ]

StepsLeft == StepsFrom[pc] + (IF ret = "loop" THEN 0 ELSE 1)

\* Every step of a slot brings the GUI thread nearer to its event loop, and no other
\* thread moves it: the chains of state() calls and the nested refreshes have no cycle.
SlotsEnd ==
  [][ pc # "loop" => IF GuiStep THEN StepsLeft' < StepsLeft ELSE StepsLeft' = StepsLeft ]_vars

OnlyRefreshReturns == pc \notin Refresh => ret = "loop"

LEMMA ReturnsStep == TypeOK /\ OnlyRefreshReturns /\ [Next]_vars => OnlyRefreshReturns'
<1> SUFFICES ASSUME TypeOK, OnlyRefreshReturns, [Next]_vars PROVE OnlyRefreshReturns'
  OBVIOUS
<1> USE DEF OnlyRefreshReturns, Refresh
<1>1. CASE UserEvent \/ threadTimer
  BY <1>1 DEF UserEvent, threadTimer, onStartStopButtonClicked, onRestStartStopButtonClicked,
     otherRefresh, clearOneStatsTable, ReadState, CallRefresh
<1>2. CASE startStopIsRest \/ startStopIsIdle \/ restButtonIsRest \/ startNetwork \/ startRest
  BY <1>2 DEF startStopIsRest, startStopIsIdle, restButtonIsRest, startNetwork, startRest,
     ReadState, CallRefresh
<1>3. CASE \/ joinFirst \/ joinSecond \/ resetStorage \/ launchFirst \/ launchSecond
           \/ startTimer \/ signalFirst \/ signalSecond \/ stopRest \/ joinRest \/ launchRest
           \/ refreshInfo
  BY <1>3 DEF joinFirst, joinSecond, resetStorage, launchFirst, launchSecond, startTimer,
     signalFirst, signalSecond, stopRest, joinRest, launchRest, refreshInfo, ReplaceHandle,
     signalStop, CallRefresh
<1>4. CASE refreshUi \/ readNames
  BY <1>4 DEF refreshUi, RefreshBranch, Draw, readNames, Return
<1>5. CASE UNCHANGED <<pc, ret>>
  BY <1>5
<1> QED
  BY <1>1, <1>2, <1>3, <1>4, <1>5 DEF Next, GuiStep, packetCallback, sniffLoopEnds,
     finishNetwork, httpServeReturns, httpServeFails, ServeEnds, finishRest, vars

\* A slot is over after at most 14 further steps of the GUI thread, whatever
\* the other threads do in between.
THEOREM SlotsAreShort == Spec => SlotsEnd /\ [](StepsLeft \in 0..14)
<1>1. Init => OnlyRefreshReturns
  BY DEF Init, OnlyRefreshReturns
<1>2. TypeOK /\ OnlyRefreshReturns => StepsLeft \in 0..14
  BY DEF TypeOK, GuiPc, OnlyRefreshReturns, Refresh, StepsLeft, StepsFrom
<1>3. TypeOK /\ OnlyRefreshReturns /\ [Next]_vars =>
        [ pc # "loop" => IF GuiStep THEN StepsLeft' < StepsLeft ELSE StepsLeft' = StepsLeft ]_vars
  <2> SUFFICES ASSUME TypeOK, OnlyRefreshReturns, Next, pc # "loop"
               PROVE  IF GuiStep THEN StepsLeft' < StepsLeft ELSE StepsLeft' = StepsLeft
    BY DEF vars
  <2> USE DEF StepsLeft, StepsFrom, OnlyRefreshReturns, Refresh
  <2>1. CASE ~GuiStep
    <3>1. UNCHANGED <<pc, ret>>
      BY <2>1 DEF Next, UserEvent, threadTimer, onStartStopButtonClicked,
         onRestStartStopButtonClicked, otherRefresh, clearOneStatsTable, ReadState, CallRefresh,
         packetCallback, sniffLoopEnds, finishNetwork, httpServeReturns, httpServeFails,
         ServeEnds, finishRest
    <3> QED BY <2>1, <3>1
  <2>2. CASE startStopIsRest \/ startStopIsIdle \/ restButtonIsRest \/ startNetwork \/ startRest
    <3>1. StepsLeft' < StepsLeft
      BY <2>2 DEF startStopIsRest, startStopIsIdle, restButtonIsRest, startNetwork, startRest,
         ReadState, CallRefresh
    <3> QED BY <2>2, <3>1 DEF GuiStep
  <2>3. CASE \/ joinFirst \/ joinSecond \/ resetStorage \/ launchFirst \/ launchSecond
             \/ startTimer \/ signalFirst \/ signalSecond \/ stopRest \/ joinRest \/ launchRest
             \/ refreshInfo
    <3>1. StepsLeft' < StepsLeft
      BY <2>3 DEF joinFirst, joinSecond, resetStorage, launchFirst, launchSecond, startTimer,
         signalFirst, signalSecond, stopRest, joinRest, launchRest, refreshInfo, ReplaceHandle,
         signalStop, CallRefresh
    <3> QED BY <2>3, <3>1 DEF GuiStep
  <2>4. CASE refreshUi \/ readNames
    <3>1. pc \in Refresh
      BY <2>4 DEF refreshUi, RefreshBranch, readNames
    <3>2. CASE Return
      <4>1. ret \in {"loop", "startTimer", "refreshInfo"}
        BY DEF TypeOK
      <4> QED BY <2>4, <3>1, <3>2, <4>1 DEF GuiStep, Return
    <3>3. CASE ~Return
      <4>1. /\ UNCHANGED ret
            /\ \/ pc = "refresh1" /\ pc' = "refresh2"
               \/ pc = "refresh2" /\ pc' = "refresh3"
               \/ pc = "refresh3" /\ pc' = "refresh4"
               \/ pc \in Refresh \ {"names"} /\ pc' = "names"
        BY <2>4, <3>3 DEF refreshUi, RefreshBranch, readNames, Draw
      <4>2. StepsLeft' < StepsLeft
        BY <4>1
      <4> QED BY <2>4, <4>2 DEF GuiStep
    <3> QED BY <3>2, <3>3
  <2> QED BY <2>1, <2>2, <2>3, <2>4 DEF GuiStep
<1> QED BY <1>1, <1>2, <1>3, ReturnsStep, TypeCorrect, PTL DEF Spec, SlotsEnd

\* A server that is no longer asked to run has been told to quit, in the
\* process-wide flag, and a new server has not taken that back.
ServerIsTold == restServer = "serving" /\ ~restThread.running => quit

LEMMA ToldStep == IInv /\ ServerIsTold /\ [Next]_vars => ServerIsTold'
<1> SUFFICES ASSUME IInv, ServerIsTold, [Next]_vars PROVE ServerIsTold'
  OBVIOUS
<1> USE DEF ServerIsTold
<1>1. CASE stopRest
  <2>1. quit' = (quit \/ restHandle) /\ UNCHANGED restServer
    BY <1>1 DEF stopRest
  <2>2. restServer = "serving" => restHandle
    BY DEF IInv, RestThreadInv, RestAlive
  <2> QED BY <2>1, <2>2
<1>2. CASE launchRest
  BY <1>2 DEF launchRest, Started
<1>3. CASE joinRest
  BY <1>3 DEF joinRest
<1>4. CASE finishRest
  BY <1>4 DEF finishRest
<1>5. CASE httpServeReturns \/ httpServeFails
  BY <1>5 DEF httpServeReturns, httpServeFails, ServeEnds
<1>6. CASE UNCHANGED <<restThread, restServer, quit>>
  BY <1>6
<1>7. CASE refreshUi \/ readNames
  BY <1>6, <1>7 DEF refreshUi, RefreshBranch, readNames, storage, threads
<1>8. CASE UserEvent \/ threadTimer \/ startStopIsRest \/ startStopIsIdle \/ restButtonIsRest
           \/ startNetwork \/ startRest \/ startTimer \/ refreshInfo
  BY <1>6, <1>8 DEF UserEvent, threadTimer, onStartStopButtonClicked,
     onRestStartStopButtonClicked, otherRefresh, clearOneStatsTable, ReadState, CallRefresh,
     startStopIsRest, startStopIsIdle, restButtonIsRest, startNetwork, startRest, startTimer,
     refreshInfo, storage, threads
<1>9. CASE \/ joinFirst \/ joinSecond \/ resetStorage \/ launchFirst \/ launchSecond
           \/ signalFirst \/ signalSecond
  BY <1>6, <1>9 DEF joinFirst, joinSecond, resetStorage, launchFirst, launchSecond, signalFirst,
     signalSecond, signalStop, start, ReplaceHandle, storage, threads
<1>10. CASE \E i \in Interface : packetCallback(i) \/ sniffLoopEnds(i) \/ finishNetwork(i)
  BY <1>6, <1>10 DEF packetCallback, sniffLoopEnds, finishNetwork, storage
<1> QED
  BY <1>1, <1>2, <1>3, <1>4, <1>5, <1>6, <1>7, <1>8, <1>9, <1>10
     DEF Next, GuiStep, vars, storage, threads

\* No join waits for ever by the fault of the GUI thread, for any interfaces.
THEOREM JoinsAreShort == Spec => []JoinsEnd
<1>1. Init => ServerIsTold
  BY DEF Init, ServerIsTold
<1>2. IInv /\ ServerIsTold => JoinsEnd
  <2> SUFFICES ASSUME IInv, ServerIsTold PROVE JoinsEnd
    OBVIOUS
  <2>1. ASSUME NEW i \in Interface \cup {NoHandle}, Joinable(i),
               pc \in {"joinFirst", "joinSecond"}
        PROVE  netThread[i] = "done"
    <3>1. i \in Interface /\ netThread[i] # "none"
      BY <2>1 DEF Joinable
    <3>2. ~NetAlive(i) /\ netThread[i] \in ThreadPc
      BY <2>1, <3>1 DEF IInv, NoThreadWhileReplacing, TypeOK
    <3> QED BY <3>1, <3>2 DEF NetAlive, ThreadPc
  <2>2. handle[1] \in Interface \cup {NoHandle} /\ handle[2] \in Interface \cup {NoHandle}
    BY DEF IInv, TypeOK
  <2>3. pc = "joinRest" => ~restThread.running
    BY DEF IInv, RestThreadInv
  <2> QED BY <2>1, <2>2, <2>3 DEF JoinsEnd, ServerIsTold
<1> QED BY <1>1, <1>2, ToldStep, Inductive, PTL DEF Spec

\* While the switch is stopping, no thread comes to life.
NothingStarts ==
  [][ PhaseOf = "Stopping" => /\ \A i \in Interface : NetAlive(i)' => NetAlive(i)
                              /\ RestAlive' => RestAlive ]_vars

\* The steps that bring threads to life.
LEMMA OnlyLaunchesStart ==
  ASSUME IInv, [Next]_vars, ~(launchFirst \/ launchSecond \/ launchRest)
  PROVE  /\ \A i \in Interface : NetAlive(i)' => NetAlive(i)
         /\ RestAlive' => RestAlive
<1> USE DEF NetAlive, RestAlive
<1>0. netThread \in [Interface -> ThreadPc]
  BY DEF IInv, TypeOK
<1>1. CASE UNCHANGED <<netThread, restServer>>
  BY <1>1
<1>2. CASE joinFirst \/ joinSecond
  BY <1>0, <1>2 DEF joinFirst, joinSecond, ReplaceHandle
<1>3. CASE joinRest \/ httpServeReturns \/ httpServeFails \/ finishRest
  BY <1>3 DEF joinRest, httpServeReturns, httpServeFails, ServeEnds, finishRest
<1>4. CASE \E i \in Interface : packetCallback(i) \/ sniffLoopEnds(i) \/ finishNetwork(i)
  BY <1>0, <1>4 DEF packetCallback, sniffLoopEnds, finishNetwork
<1>5. CASE refreshUi \/ readNames
  BY <1>1, <1>5 DEF refreshUi, RefreshBranch, readNames, threads
<1>6. CASE UserEvent \/ threadTimer \/ startStopIsRest \/ startStopIsIdle \/ restButtonIsRest
           \/ startNetwork \/ startRest \/ startTimer \/ refreshInfo
  BY <1>1, <1>6 DEF UserEvent, threadTimer, onStartStopButtonClicked,
     onRestStartStopButtonClicked, otherRefresh, clearOneStatsTable, ReadState, CallRefresh,
     startStopIsRest, startStopIsIdle, restButtonIsRest, startNetwork, startRest, startTimer,
     refreshInfo, threads
<1>7. CASE resetStorage \/ signalFirst \/ signalSecond \/ stopRest
  BY <1>1, <1>7 DEF resetStorage, signalFirst, signalSecond, signalStop, stopRest, threads
<1> QED
  BY <1>1, <1>2, <1>3, <1>4, <1>5, <1>6, <1>7 DEF Next, GuiStep, vars, threads

\* A stop is not undone by a start: from Stopping the threads only get fewer.
THEOREM StopDrains == Spec => NothingStarts
<1>1. IInv /\ RInv /\ [Next]_vars =>
        [ PhaseOf = "Stopping" => /\ \A i \in Interface : NetAlive(i)' => NetAlive(i)
                                  /\ RestAlive' => RestAlive ]_vars
  <2> SUFFICES ASSUME IInv, RInv, Next, PhaseOf = "Stopping",
                      launchFirst \/ launchSecond \/ launchRest
               PROVE  FALSE
    BY OnlyLaunchesStart
  <2>1. PhaseByFlags = "Stopping"
    BY PhaseIs DEF PhaseFits
  <2>2. CASE launchFirst \/ launchSecond
    <3>1. AllRun /\ RestOff
      BY <2>2, NothingUnfinished DEF launchFirst, launchSecond, CallRefresh, RInv, ToldTheSame,
         RestartIsClean, Replacing, AllRun
    <3> QED BY <2>1, <2>2, <3>1 DEF PhaseByFlags, RestOff, launchFirst, launchSecond, CallRefresh
  <2>3. CASE launchRest
    BY <2>1, <2>3 DEF PhaseByFlags, launchRest, CallRefresh
  <2> QED BY <2>2, <2>3
<1> QED BY <1>1, AskedAlike, PTL DEF Spec, NothingStarts

==============================================================================
