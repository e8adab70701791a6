------------------------ MODULE InterfaceChoice_proofs ------------------------
(***************************************************************************)
(* A start takes what the boxes show, and the statistics tables go with the *)
(* handles, for any finite set of interfaces and any order in which the     *)
(* system lists them.                                                       *)
(***************************************************************************)
EXTENDS InterfaceChoice, FunctionTheorems, FiniteSetTheorems, TLAPS

Lists == {list \in Seq(NetworkInterface) : IsInjective(list)}

ListType == interfaces_m \in Lists /\ items \in Lists

\* The boxes are behind the list that the indices go into only until the slot that
\* polled it goes on, or if that ends the process.
ListIsShown == ~ended /\ pc # "refreshUi" => items = interfaces_m

\* Once a start has begun, the two boxes keep naming two interfaces of the list.
Starting == {"startNetwork", "resetFirst", "resetSecond", "setModels"}
ChoiceStays == ~ended /\ pc \in Starting => Startable

\* A start that has begun finds the switch idle: only the GUI thread starts threads.
StillIdle == ~ended /\ pc \in {"startNetwork", "resetFirst", "resetSecond"} => idle

\* How far the handles are ahead of the models.
ReplacedInOrder ==
  ~ended =>
    /\ pc \notin {"resetSecond", "setModels"} => models = handles
    /\ pc = "resetSecond" => handles[1] = Chosen(1)
    /\ pc = "setModels" => \A b \in Box : handles[b] = Chosen(b)

\* The switch never runs on one interface twice.
RunsOnTwo == ~ended /\ ~idle => handles[1] # handles[2]

IInv == TypeOK /\ ListType /\ ListIsShown /\ ChoiceStays /\ StillIdle /\ ReplacedInOrder /\ RunsOnTwo

------------------------------------------------------------------------------
(* Lemmas *)

\* The system lists each interface it has once.
LEMMA AllIsList ==
  ASSUME NEW S \in SUBSET NetworkInterface
  PROVE  All(S) \in Lists
<1> DEFINE n == Cardinality(S)
<1>1. IsFiniteSet(S)
  BY IdAssumption, FS_Subset
<1>2. n \in Nat /\ ExistsBijection(1..n, S)
  BY <1>1, FS_CardinalityType
<1>3. PICK f \in Bijection(1..n, S) : TRUE
  BY <1>2, Fun_ExistsBij
<1>4. f \in [1..n -> S] /\ IsInjective(f)
  BY <1>3, Fun_IsInj DEF Bijection, Injection, IsInjective
<1>5. All(S) \in [1..n -> S] /\ IsInjective(All(S))
  BY <1>4 DEF All, SetToSeq
<1>6. All(S) \in Seq(NetworkInterface)
  BY <1>2, <1>5
<1> QED BY <1>5, <1>6 DEF Lists

LEMMA ListFacts ==
  ASSUME NEW list \in Lists
  PROVE  /\ Len(list) \in Nat /\ DOMAIN list = 1..Len(list)
         /\ Range(list) \subseteq NetworkInterface /\ IsInjective(list)
         /\ \A i \in 0..Len(list) - 1 : i + 1 \in DOMAIN list /\ list[i + 1] \in NetworkInterface
<1>1. list \in Seq(NetworkInterface) /\ IsInjective(list)
  BY DEF Lists
<1>2. Len(list) \in Nat /\ DOMAIN list = 1..Len(list) /\ \A i \in DOMAIN list : list[i] \in NetworkInterface
  BY <1>1
<1>3. \A i \in 0..Len(list) - 1 : i + 1 \in 1..Len(list)
  BY <1>2
<1> QED BY <1>1, <1>2, <1>3 DEF Range

\* The selections that are put back are in the new list.
LEMMA ReselectedFits ==
  ASSUME NEW list \in Lists, NEW m \in Nat, index \in [Box -> -1..m - 1]
  PROVE  [b \in Box |-> Reselected(index[b], list)] \in [Box -> -1..Len(list) - 1]
<1>1. Len(list) \in Nat
  BY ListFacts
<1>2. ASSUME NEW b \in Box PROVE Reselected(index[b], list) \in -1..Len(list) - 1
  <2>1. index[b] \in -1..m - 1
    OBVIOUS
  <2> QED BY <1>1, <2>1 DEF Reselected
<1> QED BY <1>2

\* A start looks into the list where it has entries.
LEMMA ChosenInList ==
  ASSUME IInv, ~ended, pc # "refreshUi", Startable
  PROVE  /\ \A b \in Box : /\ index[b] \in Int /\ index[b] + 1 \in DOMAIN interfaces_m
                           /\ Chosen(b) \in Range(interfaces_m)
         /\ Range(interfaces_m) \subseteq NetworkInterface
<1>1. interfaces_m \in Lists /\ items = interfaces_m /\ index \in [Box -> -1..Len(items) - 1]
  BY DEF IInv, TypeOK, ListType, ListIsShown
<1>2. Len(interfaces_m) \in Nat
  BY <1>1, ListFacts
<1>3. \A b \in Box : index[b] \in 0..Len(interfaces_m) - 1
  <2> SUFFICES ASSUME NEW b \in Box PROVE index[b] \in 0..Len(interfaces_m) - 1
    OBVIOUS
  <2>1. index[b] \in -1..Len(interfaces_m) - 1 /\ index[b] # -1
    BY <1>1 DEF Startable
  <2> QED BY <1>2, <2>1
<1> QED BY <1>1, <1>2, <1>3, ListFacts DEF Chosen, Range

\* What a start takes is what the boxes show, and two different interfaces.
LEMMA ChosenIsShown ==
  ASSUME IInv, ~ended, pc # "refreshUi", Startable
  PROVE  /\ Chosen(1) # Chosen(2)
         /\ \A b \in Box : /\ Chosen(b) \in NetworkInterface
                           /\ index[b] # -1 /\ Chosen(b) = items[index[b] + 1]
<1>1. items = interfaces_m /\ IsInjective(interfaces_m)
  BY DEF IInv, TypeOK, ListIsShown
<1>2. \A b \in Box : index[b] \in Int /\ index[b] + 1 \in DOMAIN interfaces_m
                     /\ Chosen(b) \in NetworkInterface
  BY ChosenInList
<1>3. index[1] + 1 # index[2] + 1
  <2>1. index[1] \in Int /\ index[2] \in Int
    BY <1>2 DEF Box
  <2> QED BY <2>1 DEF Startable
<1>4. Chosen(1) # Chosen(2)
  BY <1>1, <1>2, <1>3 DEF Chosen, IsInjective, Box
<1>5. \A b \in Box : index[b] # -1 /\ Chosen(b) = items[index[b] + 1]
  BY <1>1 DEF Startable, Chosen
<1> QED BY <1>2, <1>4, <1>5

------------------------------------------------------------------------------
(* The inductive invariant *)

LEMMA InitInv == Init => IInv
<1> SUFFICES ASSUME Init PROVE IInv
  OBVIOUS
<1>1. system \in SUBSET NetworkInterface /\ interfaces_m = All(system) /\ items = interfaces_m
  BY DEF Init
<1>2. interfaces_m \in Lists
  BY <1>1, AllIsList
<1>3. Len(items) \in Nat
  BY <1>1, <1>2, ListFacts
<1>4. index \in [Box -> -1..Len(items) - 1]
  BY <1>3 DEF Init
<1>5. handles \in [Box -> NetworkInterface \cup {NoInterface}] /\ models = handles
  BY DEF Init
<1>6. pc = "loop" /\ idle = TRUE /\ ended = FALSE /\ enabled = TRUE
  BY DEF Init
<1>7. TypeOK /\ ListType
  BY <1>1, <1>2, <1>4, <1>5, <1>6, ListFacts DEF TypeOK, GuiPc, ListType
<1> QED BY <1>1, <1>5, <1>6, <1>7
        DEF IInv, ListIsShown, ChoiceStays, Starting, StillIdle, ReplacedInOrder, RunsOnTwo

\* The type invariant, from what a step does to its parts.
LEMMA TypeFromParts ==
  ASSUME system' \subseteq NetworkInterface, interfaces_m' \in Lists, items' \in Lists,
         index' \in [Box -> -1..Len(items') - 1], pc' \in GuiPc,
         enabled' \in BOOLEAN, idle' \in BOOLEAN, ended' \in BOOLEAN,
         handles' \in [Box -> NetworkInterface \cup {NoInterface}],
         models' \in [Box -> NetworkInterface \cup {NoInterface}]
  PROVE  TypeOK' /\ ListType'
<1>1. TypeOK'
  BY ListFacts DEF TypeOK
<1> QED BY <1>1 DEF ListType

\* An exception ends the process, and asks nothing but types of the state it leaves.
LEMMA EndedInv ==
  ASSUME TypeOK', ListType', ended' = TRUE
  PROVE  IInv'
BY DEF IInv, ListIsShown, ChoiceStays, StillIdle, ReplacedInOrder, RunsOnTwo

\* What ChoiceStays and ReplacedInOrder look at, when neither the list nor the boxes change.
LEMMA SameChoice ==
  ASSUME UNCHANGED <<interfaces_m, index>>
  PROVE  (Startable <=> Startable') /\ \A b \in Box : Chosen(b)' = Chosen(b)
BY DEF Startable, Chosen

LEMMA InvStep == IInv /\ [Next]_vars => IInv'
<1> SUFFICES ASSUME IInv, [Next]_vars PROVE IInv'
  OBVIOUS
<1>1. /\ system \subseteq NetworkInterface /\ interfaces_m \in Lists /\ items \in Lists
      /\ index \in [Box -> -1..Len(items) - 1] /\ pc \in GuiPc
      /\ enabled \in BOOLEAN /\ idle \in BOOLEAN /\ ended \in BOOLEAN
      /\ handles \in [Box -> NetworkInterface \cup {NoInterface}]
      /\ models \in [Box -> NetworkInterface \cup {NoInterface}]
  BY DEF IInv, TypeOK, ListType
<1>2. ListIsShown /\ ChoiceStays /\ StillIdle /\ ReplacedInOrder /\ RunsOnTwo
  BY DEF IInv
<1> DEFINE Rest == <<interfaces_m, items, index, pc, idle, handles, models, ended>>
<1>3. ASSUME UNCHANGED Rest, TypeOK', ListType' PROVE IInv'
  <2>1. (Startable <=> Startable') /\ \A b \in Box : Chosen(b)' = Chosen(b)
    BY <1>3, SameChoice
  <2>2. ListIsShown' /\ ChoiceStays' /\ StillIdle' /\ RunsOnTwo'
    BY <1>2, <1>3, <2>1 DEF ListIsShown, ChoiceStays, StillIdle, RunsOnTwo
  <2>3. ReplacedInOrder'
    BY <1>2, <1>3, <2>1 DEF ReplacedInOrder, Box
  <2> QED BY <1>3, <2>2, <2>3 DEF IInv
<1>4. ASSUME NEW S \in SUBSET NetworkInterface, Change(S) PROVE IInv'
  <2>1. UNCHANGED <<interfaces_m, items, index, enabled, pc, idle, handles, models, ended>>
        /\ system' = S
    BY <1>4 DEF Change, boxes
  <2> QED BY <1>1, <1>3, <2>1, TypeFromParts
<1>5. ASSUME NEW b \in Box, NEW i \in 0..Len(items) - 1, pc = "loop", Select(b, i) PROVE IInv'
  <2>1. Len(items) \in Nat
    BY <1>1, ListFacts
  <2>2. i \in -1..Len(items) - 1
    BY <2>1
  <2>3. UNCHANGED <<system, interfaces_m, items, enabled, pc, idle, handles, models, ended>>
        /\ index' = [index EXCEPT ![b] = i]
    BY <1>5 DEF Select
  <2>4. index' \in [Box -> -1..Len(items) - 1]
    BY <1>1, <2>2, <2>3
  <2>5. TypeOK' /\ ListType'
    BY <1>1, <2>3, <2>4, TypeFromParts
  <2> QED BY <1>2, <1>5, <2>3, <2>5
          DEF IInv, ListIsShown, ChoiceStays, Starting, StillIdle, ReplacedInOrder, RunsOnTwo
<1>6. CASE ~ended /\ pc = "loop" /\ onStartStopButtonClicked
  <2>1. /\ idle /\ Startable /\ models = handles
        /\ UNCHANGED <<system, interfaces_m, items, index, enabled, idle, handles, models>>
        /\ \/ ended' = TRUE /\ UNCHANGED pc
           \/ pc' = "startNetwork" /\ UNCHANGED ended
    BY <1>2, <1>6
    DEF onStartStopButtonClicked, startNetworkThread, boxes, ReplacedInOrder
  <2>2. TypeOK' /\ ListType'
    BY <1>1, <2>1, TypeFromParts DEF GuiPc
  <2>3. Startable'
    BY <2>1, SameChoice
  <2>4. items' = interfaces_m'
    BY <1>2, <1>6, <2>1 DEF ListIsShown
  <2>5. CASE pc' = "startNetwork" /\ UNCHANGED ended
    BY <1>2, <1>6, <2>1, <2>2, <2>3, <2>4, <2>5
    DEF IInv, ListIsShown, ChoiceStays, StillIdle, ReplacedInOrder, RunsOnTwo
  <2> QED BY <2>1, <2>2, <2>5, EndedInv
<1>7. CASE Poll
  <2>1. /\ interfaces_m' = All(system) /\ pc = "loop" /\ pc' = "refreshUi"
        /\ UNCHANGED <<system, items, index, enabled, idle, handles, models, ended>>
    BY <1>7 DEF Poll, updateInterfaces, boxes
  <2>2. interfaces_m' \in Lists
    BY <1>1, <2>1, AllIsList
  <2>3. TypeOK' /\ ListType'
    BY <1>1, <2>1, <2>2, TypeFromParts DEF GuiPc
  <2> QED BY <1>2, <2>1, <2>3
          DEF IInv, ListIsShown, ChoiceStays, Starting, StillIdle, ReplacedInOrder, RunsOnTwo
<1>8. CASE ~ended /\ refreshUi
  <2>1. /\ pc \in {"loop", "refreshUi"} /\ pc' = "loop"
        /\ UNCHANGED <<system, interfaces_m, idle, handles, models>>
    BY <1>8 DEF refreshUi
  <2>2. CASE Fill /\ UNCHANGED ended
    <3>1. items' = interfaces_m /\ enabled' = idle
          /\ index' = [b \in Box |-> Reselected(index[b], interfaces_m)]
      BY <2>2 DEF Fill
    <3>2. Len(items) \in Nat
      BY <1>1, ListFacts
    <3>3. index' \in [Box -> -1..Len(items') - 1]
      BY <1>1, <3>1, <3>2, ReselectedFits
    <3>4. TypeOK' /\ ListType'
      BY <1>1, <2>1, <2>2, <3>1, <3>3, TypeFromParts DEF GuiPc
    <3>5. models' = handles'
      BY <1>2, <1>8, <2>1 DEF ReplacedInOrder
    <3>6. ListIsShown' /\ ChoiceStays' /\ StillIdle'
      BY <2>1, <3>1 DEF ListIsShown, ChoiceStays, Starting, StillIdle
    <3>7. ReplacedInOrder' /\ RunsOnTwo'
      BY <1>2, <1>8, <2>1, <3>5 DEF ReplacedInOrder, RunsOnTwo
    <3> QED BY <3>4, <3>6, <3>7 DEF IInv
  <2>3. CASE ended' = TRUE /\ UNCHANGED boxes
    <3>1. TypeOK' /\ ListType'
      BY <1>1, <2>1, <2>3, TypeFromParts DEF boxes, GuiPc
    <3> QED BY <2>3, <3>1, EndedInv
  <2> QED BY <1>8, <2>2, <2>3 DEF refreshUi
<1>9. CASE ~ended /\ Drained
  <2>1. /\ idle' = TRUE
        /\ UNCHANGED <<system, interfaces_m, items, index, enabled, pc, handles, models, ended>>
    BY <1>9 DEF Drained, boxes
  <2>2. TypeOK' /\ ListType'
    BY <1>1, <2>1, TypeFromParts
  <2>3. (Startable <=> Startable') /\ \A b \in Box : Chosen(b)' = Chosen(b)
    BY <2>1, SameChoice
  <2>4. ListIsShown' /\ ChoiceStays' /\ StillIdle' /\ RunsOnTwo'
    BY <1>2, <2>1, <2>3 DEF ListIsShown, ChoiceStays, StillIdle, RunsOnTwo
  <2>5. ReplacedInOrder'
    BY <1>2, <2>1, <2>3 DEF ReplacedInOrder, Box
  <2> QED BY <2>2, <2>4, <2>5 DEF IInv
<1>10. CASE ~ended /\ startNetwork
  <2>1. /\ idle /\ pc = "startNetwork" /\ pc' = "resetFirst"
        /\ UNCHANGED <<system, interfaces_m, items, index, enabled, idle, handles, models, ended>>
    BY <1>2, <1>10 DEF startNetwork, StillIdle, boxes
  <2>2. TypeOK' /\ ListType'
    BY <1>1, <2>1, TypeFromParts DEF GuiPc
  <2>3. Startable <=> Startable'
    BY <2>1, SameChoice
  <2> QED BY <1>2, <2>1, <2>2, <2>3
          DEF IInv, ListIsShown, ChoiceStays, Starting, StillIdle, ReplacedInOrder, RunsOnTwo
<1>11. ASSUME ~ended, NEW b \in Box, NEW to \in {"resetSecond", "setModels"},
              pc \in {"resetFirst", "resetSecond"}, ResetHandle(b, pc, to), idle' \in BOOLEAN
       PROVE  /\ TypeOK' /\ ListType'
              /\ UNCHANGED <<interfaces_m, items, index, models>>
              /\ Startable /\ Startable' /\ items = interfaces_m
              /\ Chosen(1)' = Chosen(1) /\ Chosen(2)' = Chosen(2)
              /\ \/ ended' = TRUE
                 \/ ended' = FALSE /\ pc' = to /\ handles' = [handles EXCEPT ![b] = Chosen(b)]
  <2>1. /\ UNCHANGED <<system, interfaces_m, items, index, enabled, models>>
        /\ \/ ended' = TRUE /\ UNCHANGED <<handles, pc>>
           \/ UNCHANGED ended /\ pc' = to /\ handles' = [handles EXCEPT ![b] = Chosen(b)]
    BY <1>11 DEF ResetHandle, boxes
  <2>2. Startable /\ items = interfaces_m
    BY <1>2, <1>11 DEF ChoiceStays, Starting, ListIsShown
  <2>3. Chosen(b) \in NetworkInterface
    BY <1>11, <2>2, ChosenIsShown
  <2>4. handles' \in [Box -> NetworkInterface \cup {NoInterface}]
    BY <1>1, <2>1, <2>3
  <2>5. pc' \in GuiPc /\ ended' \in BOOLEAN
    BY <1>1, <1>11, <2>1 DEF GuiPc
  <2>6. TypeOK' /\ ListType'
    BY <1>1, <1>11, <2>1, <2>4, <2>5, TypeFromParts
  <2>7. Startable' /\ Chosen(1)' = Chosen(1) /\ Chosen(2)' = Chosen(2)
    BY <2>1, <2>2, SameChoice DEF Box
  <2>8. \/ ended' = TRUE
        \/ ended' = FALSE /\ pc' = to /\ handles' = [handles EXCEPT ![b] = Chosen(b)]
    BY <1>1, <1>11, <2>1
  <2> QED BY <2>1, <2>2, <2>6, <2>7, <2>8
<1>12. CASE ~ended /\ resetFirst
  <2>1. pc = "resetFirst" /\ idle' = idle /\ idle /\ ResetHandle(1, pc, "resetSecond")
    BY <1>2, <1>12 DEF resetFirst, ResetHandle, StillIdle
  <2>2. /\ TypeOK' /\ ListType'
        /\ UNCHANGED <<interfaces_m, items, index, models>>
        /\ Startable' /\ items = interfaces_m /\ Chosen(1)' = Chosen(1)
        /\ \/ ended' = TRUE
           \/ pc' = "resetSecond" /\ handles' = [handles EXCEPT ![1] = Chosen(1)]
    BY <1>1, <1>11, <1>12, <2>1 DEF Box
  <2>3. CASE pc' = "resetSecond" /\ handles' = [handles EXCEPT ![1] = Chosen(1)]
    <3>1. handles'[1] = Chosen(1)'
      BY <1>1, <2>2, <2>3 DEF Box
    <3> QED BY <2>1, <2>2, <2>3, <3>1
            DEF IInv, ListIsShown, ChoiceStays, StillIdle, ReplacedInOrder, RunsOnTwo
  <2> QED BY <2>2, <2>3, EndedInv
<1>13. CASE ~ended /\ resetSecond
  <2>1. pc = "resetSecond" /\ idle' = (idle /\ ended') /\ ResetHandle(2, pc, "setModels")
        /\ handles[1] = Chosen(1)
    BY <1>2, <1>13 DEF resetSecond, ResetHandle, ReplacedInOrder
  <2>2. idle' \in BOOLEAN
    BY <2>1
  <2>3. /\ TypeOK' /\ ListType'
        /\ UNCHANGED <<interfaces_m, items, index, models>>
        /\ Startable /\ Startable' /\ items = interfaces_m
        /\ Chosen(1)' = Chosen(1) /\ Chosen(2)' = Chosen(2)
        /\ \/ ended' = TRUE
           \/ ended' = FALSE /\ pc' = "setModels" /\ handles' = [handles EXCEPT ![2] = Chosen(2)]
    BY <1>11, <1>13, <2>1, <2>2 DEF Box
  <2>4. CASE ended' = FALSE /\ pc' = "setModels" /\ handles' = [handles EXCEPT ![2] = Chosen(2)]
    <3>1. handles'[1] = Chosen(1)' /\ handles'[2] = Chosen(2)'
      BY <1>1, <2>1, <2>3, <2>4 DEF Box
    <3>2. Chosen(1) # Chosen(2)
      BY <1>13, <2>1, <2>3, ChosenIsShown
    <3>3. \A b \in Box : handles'[b] = Chosen(b)'
      BY <3>1 DEF Box
    <3>4. ListIsShown' /\ ChoiceStays' /\ StillIdle'
      BY <2>3, <2>4 DEF ListIsShown, ChoiceStays, StillIdle
    <3>5. ReplacedInOrder'
      BY <2>4, <3>3 DEF ReplacedInOrder
    <3>6. RunsOnTwo'
      BY <2>3, <3>1, <3>2 DEF RunsOnTwo
    <3> QED BY <2>3, <3>4, <3>5, <3>6 DEF IInv
  <2> QED BY <2>3, <2>4, EndedInv
<1>14. CASE ~ended /\ setModels
  <2>1. /\ pc = "setModels" /\ pc' = "refreshUi" /\ models' = [b \in Box |-> Chosen(b)]
        /\ UNCHANGED <<system, interfaces_m, items, index, enabled, idle, handles, ended>>
    BY <1>14 DEF setModels, boxes
  <2>2. Startable /\ \A b \in Box : handles[b] = Chosen(b)
    BY <1>2, <1>14, <2>1 DEF ChoiceStays, Starting, ReplacedInOrder
  <2>3. models' = handles'
    BY <1>1, <2>1, <2>2
  <2>4. TypeOK' /\ ListType'
    BY <1>1, <2>1, <2>3, TypeFromParts DEF GuiPc
  <2>5. ListIsShown' /\ ChoiceStays' /\ StillIdle'
    BY <2>1 DEF ListIsShown, ChoiceStays, Starting, StillIdle
  <2>6. ReplacedInOrder' /\ RunsOnTwo'
    BY <1>2, <2>1, <2>3 DEF ReplacedInOrder, RunsOnTwo
  <2> QED BY <2>4, <2>5, <2>6 DEF IInv
<1>15. CASE UNCHANGED vars
  BY <1>1, <1>3, <1>15, TypeFromParts DEF vars, boxes
<1> QED BY <1>4, <1>5, <1>6, <1>7, <1>8, <1>9, <1>10, <1>12, <1>13, <1>14, <1>15
        DEF Next, User, GuiStep

\* Every reachable state satisfies the strengthened invariant: whenever the user can
\* click, the boxes show the list their indices go into.
THEOREM Inductive == Spec => []IInv
  BY InitInv, InvStep, PTL DEF Spec

\* Lists name an interface once, and selections are in the list shown.
THEOREM TypeCorrect == Spec => []TypeOK
  BY Inductive, PTL DEF IInv

\* Back in the event loop, the statistics tables belong to the interfaces of the handles:
\* startNetwork cannot return early to startNetworkThread, and an exception between the
\* replacements ends the process.
THEOREM TablesBelongToHandles == Spec => []ViewsFollowHandles
<1>1. IInv => ViewsFollowHandles
  BY DEF IInv, ReplacedInOrder, ViewsFollowHandles
<1> QED BY <1>1, Inductive, PTL

\* The two capturing threads never work on one and the same interface, although the boxes
\* choose by index and the list behind them is replaced.
THEOREM TwoInterfaces == Spec => []RunsOnTwo
  BY Inductive, PTL DEF IInv

\* A start takes the interfaces the boxes show, whatever the polling timer did to the list
\* before.
THEOREM StartsRight == Spec => StartsWhatIsShown
<1>1. IInv /\ [Next]_vars =>
        [ \A b \in Box : handles'[b] # handles[b] =>
            index[b] # -1 /\ handles'[b] = items[index[b] + 1] ]_vars
  <2> SUFFICES ASSUME IInv, Next, NEW b \in Box, handles'[b] # handles[b]
               PROVE  index[b] # -1 /\ handles'[b] = items[index[b] + 1]
    BY DEF vars
  <2>1. ~ended /\ (resetFirst \/ resetSecond)
    BY DEF Next, User, Poll, GuiStep, Change, Select, onStartStopButtonClicked,
           startNetworkThread, updateInterfaces, startNetwork, setModels, refreshUi, Drained
  <2>2. PICK c \in Box : pc \in {"resetFirst", "resetSecond"}
                          /\ handles' = [handles EXCEPT ![c] = Chosen(c)]
    BY <2>1 DEF resetFirst, resetSecond, ResetHandle, Box
  <2>3. handles \in [Box -> NetworkInterface \cup {NoInterface}]
    BY DEF IInv, TypeOK
  <2>4. handles'[b] = Chosen(b)
    BY <2>2, <2>3
  <2>5. Startable
    BY <2>1, <2>2 DEF IInv, ChoiceStays, Starting
  <2> QED BY <2>1, <2>2, <2>4, <2>5, ChosenIsShown
<1> QED BY <1>1, Inductive, PTL DEF Spec, StartsWhatIsShown

==============================================================================
