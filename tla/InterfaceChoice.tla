---------------------------- MODULE InterfaceChoice ----------------------------
(***************************************************************************)
(* The two combo boxes of MainWindow.  The machine's interfaces come and   *)
(* go; a timer polls them into interfaces_m, refreshUi fills the boxes     *)
(* from it, the user chooses by what the boxes show, and a start goes by   *)
(* the boxes' indices in interfaces_m.  A slot is several steps, between   *)
(* which the machine may change but nobody clicks.                         *)
(*                                                                         *)
(* The threads are the four-phase switch of SwitchControl, of which only   *)
(* Idle and not Idle matter here.  An interface is told by its id, which   *)
(* the kernel does not use twice; asking a vanished one for its name       *)
(* throws, and nothing catches that.                                       *)
(*                                                                         *)
(* Slip... definitions are mistakes to try the properties on (see          *)
(* SwitchLifecycle).                                                       *)
(***************************************************************************)
EXTENDS Integers, SequencesExt

CONSTANTS
  NetworkInterface,  \* ids
  NoInterface        \* of a handle that was never reset, of a table without a model

ASSUME IdAssumption == IsFiniteSet(NetworkInterface) /\ NoInterface \notin NetworkInterface

VARIABLES
  system,        \* the interfaces the machine has
  interfaces_m,  \* the list polled last
  items,         \* what both boxes list
  index,         \* index[b]: currentIndex() of box b, -1 for none
  enabled,       \* the boxes can be used
  pc,            \* where the GUI thread is in a slot, or in its event loop
  idle,          \* state() is Idle
  handles,       \* the interfaces of interface1_m and interface2_m
  models,        \* the interfaces of firstModel and secondModel
  ended          \* the process has ended with an exception

boxes == <<items, index, enabled>>
vars  == <<system, interfaces_m, boxes, pc, idle, handles, models, ended>>

------------------------------------------------------------------------------

Box == {1, 2}

\* Tins::NetworkInterface::all(): each of S once, in an order of the system's own.
All(S) == SetToSeq(S)

\* setCurrentIndex, after the list was replaced
Reselected(i, list) == IF i < Len(list) THEN i ELSE -1

Chosen(b) == interfaces_m[index[b] + 1]

Init ==
  /\ system \in SUBSET NetworkInterface
  /\ interfaces_m = All(system)
  /\ items = interfaces_m
  /\ index = [b \in Box |-> -1]
  /\ enabled = TRUE
  /\ pc = "loop"
  /\ idle = TRUE
  /\ handles = [b \in Box |-> NoInterface] /\ models = handles
  /\ ended = FALSE

Change(S) ==
  /\ system' = S
  /\ UNCHANGED <<interfaces_m, boxes, pc, idle, handles, models, ended>>

\* The user picks an item.
Select(b, i) ==
  /\ enabled
  /\ index' = [index EXCEPT ![b] = i]
  /\ UNCHANGED <<system, interfaces_m, items, enabled, pc, idle, handles, models, ended>>

\* Slip: the old items are not cleared.
SlipFillAppends ==
  /\ items' = items \o interfaces_m
  /\ index' = [b \in Box |-> Reselected(index[b], items')]
  /\ enabled' = idle

\* The boxes are filled and the index put back.
Fill ==
  /\ items' = interfaces_m
  /\ index' = [b \in Box |-> Reselected(index[b], interfaces_m)]
  /\ enabled' = idle

\* At the end of a slot, and by the window's timer.  The names of all interfaces are looked
\* up first.
refreshUi ==
  /\ pc \in {"loop", "refreshUi"} /\ pc' = "loop"
  /\ UNCHANGED <<system, interfaces_m, idle, handles, models>>
  /\ \/ Range(interfaces_m) \subseteq system /\ Fill /\ UNCHANGED ended
     \/ ~(Range(interfaces_m) \subseteq system) /\ ended' = TRUE /\ UNCHANGED boxes

\* Slip: the window is not refreshed.
SlipUpdateInterfacesQuietly ==
  /\ interfaces_m' = All(system)
  /\ UNCHANGED <<system, boxes, pc, idle, handles, models, ended>>

\* Slip: an interface that came for one that went is not noticed.
SlipUpdateInterfacesBySize ==
  /\ Len(All(system)) # Len(interfaces_m)
  /\ interfaces_m' = All(system)
  /\ pc' = "refreshUi"
  /\ UNCHANGED <<system, boxes, idle, handles, models, ended>>

updateInterfaces ==
  /\ All(system) # interfaces_m
  /\ interfaces_m' = All(system)
  /\ pc' = "refreshUi"
  /\ UNCHANGED <<system, boxes, idle, handles, models, ended>>

Startable ==
  /\ \A b \in Box : index[b] # -1
  /\ index[1] # index[2]
  /\ \A b \in Box : index[b] < Len(interfaces_m)

\* Up to the call of startNetwork, the names of whose arguments are looked up.
startNetworkThread ==
  /\ Startable
  /\ \/ {Chosen(1), Chosen(2)} \subseteq system /\ pc' = "startNetwork" /\ UNCHANGED ended
     \/ ~({Chosen(1), Chosen(2)} \subseteq system) /\ ended' = TRUE /\ UNCHANGED pc
  /\ UNCHANGED <<system, interfaces_m, boxes, idle, handles, models>>

\* Slip: the click does not ask for the state.
SlipClickUnchecked == startNetworkThread

\* The click on Start; on a running switch, a click is a stop.
onStartStopButtonClicked == idle /\ startNetworkThread

\* startNetwork asks for the state again, and returns early to a caller that does not know.
startNetwork ==
  /\ pc = "startNetwork"
  /\ pc' = IF idle THEN "resetFirst" ELSE "setModels"
  /\ UNCHANGED <<system, interfaces_m, boxes, idle, handles, models, ended>>

\* One handle is given its interface, which is looked up by its name.
ResetHandle(b, from, to) ==
  /\ pc = from
  /\ UNCHANGED <<system, interfaces_m, boxes, models>>
  /\ \/ /\ Chosen(b) \in system
        /\ handles' = [handles EXCEPT ![b] = Chosen(b)]
        /\ pc' = to
        /\ UNCHANGED ended
     \/ /\ Chosen(b) \notin system
        /\ ended' = TRUE
        /\ UNCHANGED <<handles, pc>>

resetFirst == ResetHandle(1, "resetFirst", "resetSecond") /\ UNCHANGED idle

\* The threads start with the second handle in place.
resetSecond == ResetHandle(2, "resetSecond", "setModels") /\ idle' = (idle /\ ended')

\* The caller's half: both statistics tables get new models, whatever startNetwork did.
setModels ==
  /\ pc = "setModels" /\ pc' = "refreshUi"
  /\ models' = [b \in Box |-> Chosen(b)]
  /\ UNCHANGED <<system, interfaces_m, boxes, idle, handles, ended>>

\* The last thread is gone.
Drained ==
  /\ ~idle
  /\ idle' = TRUE
  /\ UNCHANGED <<system, interfaces_m, boxes, pc, handles, models, ended>>

User == (\E b \in Box, i \in 0..Len(items) - 1 : Select(b, i)) \/ onStartStopButtonClicked

\* configurationTimer_m fires.
Poll == ~ended /\ pc = "loop" /\ updateInterfaces

GuiStep == startNetwork \/ resetFirst \/ resetSecond \/ setModels \/ refreshUi

Next ==
  \/ Poll
  \/ ~ended /\ pc = "loop" /\ User
  \/ ~ended /\ (GuiStep \/ Drained \/ \E S \in SUBSET NetworkInterface : Change(S))

\* A due timer gets its turn between the clicks, and a slot that has begun goes on.
Spec ==
  /\ Init /\ [][Next]_vars
  /\ SF_vars(Poll)
  /\ WF_vars(~ended /\ pc # "loop" /\ GuiStep)

------------------------------------------------------------------------------
(* Properties *)

GuiPc == {"loop", "startNetwork", "resetFirst", "resetSecond", "setModels", "refreshUi"}

TypeOK ==
  /\ system \subseteq NetworkInterface
  /\ Range(interfaces_m) \subseteq NetworkInterface
  /\ Range(items) \subseteq NetworkInterface
  /\ IsInjective(items) /\ IsInjective(interfaces_m)
  /\ index \in [Box -> -1..Len(items) - 1]
  /\ pc \in GuiPc
  /\ {handles, models} \subseteq [Box -> NetworkInterface \cup {NoInterface}]
  /\ {enabled, idle, ended} \subseteq BOOLEAN

\* What a handle is given is what its box shows at that moment, although the list
\* behind the boxes may have been replaced since the user chose.
StartsWhatIsShown ==
  [][ \A b \in Box : handles'[b] # handles[b] =>
        index[b] # -1 /\ handles'[b] = items[index[b] + 1] ]_vars

\* Whenever the window reacts to a user, each statistics table belongs to the interface its
\* handle runs on: the tables are set by the caller, the handles by startNetwork, which may
\* return early without a word, or replace one handle and throw.
ViewsFollowHandles == ~ended /\ pc = "loop" => models = handles

\* Once the machine's interfaces stay as they are, the boxes list them.
BoxesCatchUp ==
  \A S \in SUBSET NetworkInterface :
    <>[](system = S) => <>[](ended \/ items = All(S))

==============================================================================
