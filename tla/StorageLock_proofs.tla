--------------------------- MODULE StorageLock_proofs ---------------------------
(***************************************************************************)
(* For any number of network threads, of requests at a time and of threads *)
(* that serve them, the only circle of waiting is that of two handlers of  *)
(* one thread, and it is for ever.  The argument needs who can be where    *)
(* (Places), that exactly the owner of the mutex is inside (OwnerIsInside) *)
(* and what the answers of state() mean for the joins (JoinsTheStopped).   *)
(***************************************************************************)
EXTENDS StorageLock, TLAPS

OwnerIsInside == \A a \in Actor : Inside(a) <=> owner = a

Places ==
  /\ pc[Gui] \in {"outside", "wants", "holds", "joinNet", "joinRest"}
  /\ \A a \in NetThread \cup {Rest} : pc[a] \in {"outside", "wants", "holds", "ended"}
  /\ \A h \in Handler : pc[h] \in {"outside", "reading", "wants", "holds", "body"}

\* The network threads have ended before startNetwork joins them, and the server
\* was told to stop before startRest does: what state() answered still holds.
JoinsTheStopped ==
  /\ pc[Gui] = "joinNet" => Unfinished = {}
  /\ pc[Gui] = "joinRest" => Rest \in asked

IInv == TypeOK /\ OwnerIsInside /\ Places /\ JoinsTheStopped

\* Only threads that have ended are started.
StartsTheEnded ==
  /\ \A n \in toStart : pc[n] = "ended"
  /\ job[Gui] = "reset" => Unfinished = {}
  /\ job[Gui] = "startRest" /\ pc[Gui] \in {"wants", "holds"} => pc[Rest] = "ended"

\* Where an actor can be, and where it can be without the mutex.
Allowed(a, place) ==
  /\ place \in Place
  /\ a = Gui => place \in {"outside", "wants", "holds", "joinNet", "joinRest"}
  /\ a \in NetThread \cup {Rest} => place \in {"outside", "wants", "holds", "ended"}
  /\ a \in Handler => place \in {"outside", "reading", "wants", "holds", "body"}

Out(a, place) == Allowed(a, place) /\ place \notin {"holds", "body"}

\* What becomes of the mutex when a goes to place.
Passed(a, place) ==
  /\ owner' \in Actor \cup {Nobody}
  /\ owner' = a <=> place \in {"holds", "body"}
  /\ \A b \in Actor \ {a} : owner' = b <=> owner = b

OtherTypes ==
  /\ job' \in [Actor -> Job]
  /\ asked' \subseteq NetThread \cup {Rest}
  /\ toStart' \subseteq NetThread
  /\ arrived' \subseteq Handler

USE DEF Gui, Rest

------------------------------------------------------------------------------
(* What a step does to the places *)

\* The inductive invariant after a step that moves one actor.
LEMMA MoveOne ==
  ASSUME IInv, NEW a \in Actor, NEW place, Allowed(a, place), Passed(a, place),
         pc' = [pc EXCEPT ![a] = place], OtherTypes, JoinsTheStopped'
  PROVE  IInv'
<1>1. pc \in [Actor -> Place] /\ place \in Place
  BY DEF IInv, TypeOK, Allowed
<1>2. pc' \in [Actor -> Place] /\ pc'[a] = place /\ \A b \in Actor : b # a => pc'[b] = pc[b]
  BY <1>1
<1>3. TypeOK'
  BY <1>2 DEF TypeOK, OtherTypes, Passed
<1>4. ASSUME NEW b \in Actor PROVE (Inside(b) <=> owner = b)'
  <2>1. CASE b = a
    BY <2>1, <1>2 DEF Inside, Passed
  <2>2. CASE b # a
    <3>1. Inside(b) <=> owner = b
      BY DEF IInv, OwnerIsInside
    <3> QED BY <3>1, <2>2, <1>2 DEF Inside, Passed
  <2> QED BY <2>1, <2>2
<1>5. Places'
  BY <1>2, ActorAssumption DEF Places, IInv, Actor, Allowed
<1> QED BY <1>3, <1>4, <1>5 DEF IInv, OwnerIsInside

\* Two ways to be out of the mutex after the step.
LEMMA LeaveOne ==
  ASSUME IInv, NEW a \in Actor, NEW place, Out(a, place),
         pc' = [pc EXCEPT ![a] = place], OtherTypes, JoinsTheStopped',
         pc[a] = "holds", owner' = Nobody
  PROVE  IInv'
<1>1. owner = a /\ Nobody \notin Actor
  BY ActorAssumption DEF IInv, OwnerIsInside, Inside
<1>2. Passed(a, place) /\ Allowed(a, place)
  BY <1>1 DEF Passed, Out
<1> QED BY <1>2, MoveOne

LEMMA StayOut ==
  ASSUME IInv, NEW a \in Actor, NEW place, Out(a, place),
         pc' = [pc EXCEPT ![a] = place], OtherTypes, JoinsTheStopped',
         ~Inside(a), owner' = owner
  PROVE  IInv'
<1>1. owner # a /\ owner \in Actor \cup {Nobody}
  BY DEF IInv, OwnerIsInside, TypeOK
<1>2. Passed(a, place) /\ Allowed(a, place)
  BY <1>1 DEF Passed, Out
<1> QED BY <1>2, MoveOne

\* The moves of the others leave true what the window asked for.
LEMMA MoveOther ==
  ASSUME IInv, NEW a \in Actor \ {Gui}, pc[a] # "ended", NEW place,
         pc' = [pc EXCEPT ![a] = place], asked' = asked
  PROVE  JoinsTheStopped'
<1>1. pc \in [Actor -> Place] /\ Gui \in Actor /\ NetThread \subseteq Actor
  BY DEF IInv, TypeOK, Actor
<1>2. pc'["gui"] = pc["gui"] /\ \A b \in Actor : b # a => pc'[b] = pc[b]
  BY <1>1
<1>3. pc'["gui"] = "joinNet" => Unfinished' = {}
  BY <1>1, <1>2 DEF IInv, JoinsTheStopped, Unfinished
<1>4. pc'["gui"] = "joinRest" => "rest" \in asked
  BY <1>2 DEF IInv, JoinsTheStopped
<1> QED BY <1>3, <1>4 DEF JoinsTheStopped

\* The GUI's own moves, except into a join.
LEMMA MoveGui ==
  ASSUME IInv, NEW place \in {"outside", "wants", "holds"}, pc' = [pc EXCEPT ![Gui] = place]
  PROVE  JoinsTheStopped'
<1>1. pc \in [Actor -> Place] /\ Gui \in Actor
  BY DEF IInv, TypeOK, Actor
<1> QED BY <1>1 DEF JoinsTheStopped

LEMMA InitInv == Init => IInv
<1> SUFFICES ASSUME Init PROVE IInv
  OBVIOUS
<1>1. TypeOK
  BY DEF Init, TypeOK, Place, Job
<1>2. OwnerIsInside
  BY ActorAssumption DEF Init, OwnerIsInside, Inside
<1>3. Places
  BY ActorAssumption DEF Init, Places, Actor
<1>4. JoinsTheStopped
  BY DEF Init, JoinsTheStopped, Actor
<1> QED BY <1>1, <1>2, <1>3, <1>4 DEF IInv

LEMMA LockInv ==
  ASSUME IInv, NEW a \in Actor, lock(a) PROVE IInv'
<1>1. JoinsTheStopped'
  <2>1. CASE a = Gui
    BY <2>1, MoveGui DEF lock
  <2>2. CASE a # Gui
    BY <2>2, MoveOther DEF lock
  <2> QED BY <2>1, <2>2
<1>2. OtherTypes /\ pc' = [pc EXCEPT ![a] = "holds"]
  BY DEF lock, OtherTypes, IInv, TypeOK
<1>3. Passed(a, "holds") /\ Allowed(a, "holds")
  BY ActorAssumption DEF lock, Passed, Allowed, Place
<1> QED BY <1>1, <1>2, <1>3, MoveOne

------------------------------------------------------------------------------
(* The GUI thread *)

LEMMA GuiFacts ==
  ASSUME IInv PROVE Gui \in Actor /\ job \in [Actor -> Job] /\ pc \in [Actor -> Place]
                    /\ Gui \notin NetThread \cup {Rest} /\ Gui \notin Handler
                    /\ Rest \in Actor /\ Nobody \notin Actor /\ NetThread \subseteq Actor
                    /\ arrived \subseteq Handler
  BY ActorAssumption DEF IInv, TypeOK, Actor

LEMMA OutGui ==
  ASSUME NEW place \in {"outside", "wants", "joinNet", "joinRest"} PROVE Out(Gui, place)
  BY ActorAssumption DEF Out, Allowed, Place

LEMMA SameTypes ==
  ASSUME IInv, NEW a \in Actor, NEW place, NEW next \in Job, Goto(a, place, next),
         UNCHANGED <<asked, toStart>>, arrived' \subseteq Handler
  PROVE  OtherTypes /\ pc' = [pc EXCEPT ![a] = place]
  BY DEF Goto, OtherTypes, IInv, TypeOK

\* The GUI thread leaves a section, or the event loop, for another or for the loop.
LEMMA GuiGoes ==
  ASSUME IInv, NEW place \in {"outside", "wants"}, NEW next \in Job, Goto(Gui, place, next),
         asked' \subseteq NetThread \cup {Rest}, toStart' \subseteq NetThread, arrived' = arrived,
         \/ pc[Gui] = "holds" /\ owner' = Nobody
         \/ ~Inside(Gui) /\ owner' = owner
  PROVE  IInv'
<1>1. JoinsTheStopped'
  BY MoveGui DEF Goto
<1>2. OtherTypes /\ pc' = [pc EXCEPT ![Gui] = place]
  BY GuiFacts DEF Goto, OtherTypes
<1>3. CASE pc[Gui] = "holds" /\ owner' = Nobody
  BY <1>1, <1>2, <1>3, GuiFacts, OutGui, LeaveOne
<1>4. CASE ~Inside(Gui) /\ owner' = owner
  BY <1>1, <1>2, <1>4, GuiFacts, OutGui, StayOut
<1> QED BY <1>3, <1>4

LEMMA Types ==
  ASSUME IInv PROVE asked \subseteq NetThread \cup {Rest} /\ toStart \subseteq NetThread
  BY DEF IInv, TypeOK

LEMMA SlotInv == ASSUME IInv, slot PROVE IInv'
<1>1. PICK next \in Job : Goto(Gui, "wants", next)
  BY DEF slot, NextSection, GuiSection, Job
<1>2. ~Inside(Gui) /\ UNCHANGED <<owner, asked, toStart, arrived>>
  BY DEF slot, Inside
<1> QED BY <1>1, <1>2, GuiGoes, Types

\* What an answer of state() means.
LEMMA IdleMeansEnded == ASSUME "Idle" \in State PROVE Unfinished = {}
  BY DEF State
LEMMA NetworkMeansNoRest == ASSUME "RunningNetwork" \in State PROVE Rest \in asked
  BY DEF State

LEMMA StateInv == ASSUME IInv, state PROVE IInv'
<1>1. pc[Gui] = "holds" /\ owner' = Nobody /\ UNCHANGED <<asked, toStart, arrived>>
  BY DEF state, Leave
<1>2. ASSUME NEW place \in {"joinNet", "joinRest"}, NEW next \in Job,
             Goto(Gui, place, next), JoinsTheStopped'
      PROVE  IInv'
  <2>1. OtherTypes /\ pc' = [pc EXCEPT ![Gui] = place]
    BY <1>1, <1>2, GuiFacts, SameTypes
  <2> QED BY <1>1, <1>2, <2>1, GuiFacts, OutGui, LeaveOne
<1>3. CASE Goto(Gui, "outside", "none") \/ NextSection
  <2>1. PICK place \in {"outside", "wants"}, next \in Job : Goto(Gui, place, next)
    BY <1>3 DEF NextSection, GuiSection, Job
  <2> QED BY <1>1, <2>1, GuiGoes, Types
<1>4. CASE "Idle" \in State /\ Goto(Gui, "joinNet", "reset")
  <2>1. pc'["gui"] = "joinNet" /\ Unfinished' = {}
    BY <1>4, IdleMeansEnded, GuiFacts DEF Goto, Unfinished
  <2>2. JoinsTheStopped'
    BY <2>1 DEF JoinsTheStopped
  <2> QED BY <1>2, <1>4, <2>2 DEF Job
<1>5. CASE "RunningNetwork" \in State /\ Goto(Gui, "joinRest", "startRest")
  <2>1. pc'["gui"] = "joinRest" /\ "rest" \in asked'
    BY <1>1, <1>5, NetworkMeansNoRest, GuiFacts DEF Goto
  <2>2. JoinsTheStopped'
    BY <2>1 DEF JoinsTheStopped
  <2> QED BY <1>2, <1>5, <2>2 DEF Job
<1> QED BY <1>3, <1>4, <1>5 DEF state

LEMMA SectionInv == ASSUME IInv, other \/ signalStop \/ reset PROVE IInv'
<1>1. PICK place \in {"outside", "wants"}, next \in Job : Goto(Gui, place, next)
  BY DEF other, signalStop, reset, NextSection, GuiSection, Job
<1>2. pc[Gui] = "holds" /\ owner' = Nobody /\ arrived' = arrived
  BY DEF other, signalStop, reset, Leave
<1>3. asked' \subseteq NetThread \cup {Rest} /\ toStart' \subseteq NetThread
  BY Types DEF other, signalStop, reset
<1> QED BY <1>1, <1>2, <1>3, GuiGoes

LEMMA JoinInv == ASSUME IInv, joinNet \/ joinRest PROVE IInv'
<1>1. PICK next \in Job : Goto(Gui, "wants", next)
  BY DEF joinNet, joinRest, Enter, Job
<1>2. ~Inside(Gui) /\ UNCHANGED <<owner, asked, toStart, arrived>>
  BY DEF joinNet, joinRest, Enter, Inside
<1> QED BY <1>1, <1>2, GuiGoes, Types

\* start and startRest move two actors: the GUI thread, and b, which had ended.
LEMMA MoveTwo ==
  ASSUME IInv, NEW place \in {"outside", "wants"}, NEW b \in NetThread \cup {Rest},
         pc[b] = "ended", pc[Gui] = "holds", owner' = Nobody,
         pc' = [pc EXCEPT ![b] = "outside", ![Gui] = place], OtherTypes
  PROVE  IInv'
<1>1. pc \in [Actor -> Place] /\ b \in Actor /\ b # "gui"
  BY GuiFacts, ActorAssumption DEF Actor
<1>2. pc' \in [Actor -> Place] /\ pc'["gui"] = place /\ pc'[b] = "outside"
      /\ \A a \in Actor : a # "gui" /\ a # b => pc'[a] = pc[a]
  BY <1>1, GuiFacts DEF Place
<1>3. TypeOK'
  BY <1>2 DEF TypeOK, OtherTypes
<1>4. owner = "gui" /\ owner' \notin Actor
  BY GuiFacts DEF IInv, OwnerIsInside, Inside
<1>5. ASSUME NEW a \in Actor PROVE ~Inside(a)'
  <2>1. CASE a = "gui" \/ a = b
    BY <2>1, <1>2 DEF Inside
  <2>2. CASE a # "gui" /\ a # b
    <3>1. ~Inside(a)
      BY <2>2, <1>4 DEF IInv, OwnerIsInside
    <3> QED BY <3>1, <2>2, <1>2 DEF Inside
  <2> QED BY <2>1, <2>2
<1>6. OwnerIsInside'
  BY <1>4, <1>5 DEF OwnerIsInside
<1>7. Places'
  BY <1>1, <1>2, ActorAssumption DEF Places, IInv, Actor
<1>8. JoinsTheStopped'
  BY <1>2 DEF JoinsTheStopped
<1> QED BY <1>3, <1>6, <1>7, <1>8 DEF IInv

LEMMA StartInv == ASSUME IInv, StartsTheEnded, start PROVE IInv'
<1>1. PICK n \in toStart :
        /\ pc' = [pc EXCEPT ![n] = "outside",
                            ![Gui] = IF toStart = {n} THEN "outside" ELSE "wants"]
        /\ job' = [job EXCEPT ![Gui] = IF toStart = {n} THEN "none" ELSE "start"]
        /\ asked' = asked \ {n}
        /\ toStart' = toStart \ {n}
  BY DEF start
<1>2. pc[Gui] = "holds" /\ owner' = Nobody /\ arrived' = arrived
  BY DEF start, Leave
<1>3. n \in NetThread \cup {Rest} /\ pc[n] = "ended"
  BY DEF StartsTheEnded, IInv, TypeOK
<1>4. job' \in [Actor -> Job]
  BY <1>1, GuiFacts DEF Job
<1>5. OtherTypes
  BY <1>1, <1>2, <1>4 DEF OtherTypes, IInv, TypeOK
<1>6. PICK place \in {"outside", "wants"} :
        pc' = [pc EXCEPT ![n] = "outside", ![Gui] = place]
  BY <1>1
<1> QED BY <1>2, <1>3, <1>5, <1>6, MoveTwo

LEMMA StartRestInv == ASSUME IInv, StartsTheEnded, startRest PROVE IInv'
<1>1. pc[Gui] = "holds" /\ job[Gui] = "startRest" /\ owner' = Nobody
      /\ job' = [job EXCEPT ![Gui] = "none"] /\ UNCHANGED <<toStart, arrived>>
      /\ pc' = [pc EXCEPT ![Rest] = "outside", ![Gui] = "outside"]
      /\ asked' = asked \ {Rest}
  BY DEF startRest, Leave
<1>2. pc[Rest] = "ended"
  BY <1>1 DEF StartsTheEnded
<1>3. job' \in [Actor -> Job]
  BY <1>1, GuiFacts DEF Job
<1>4. OtherTypes
  BY <1>1, <1>3 DEF OtherTypes, IInv, TypeOK
<1> QED BY <1>1, <1>2, <1>4, MoveTwo

------------------------------------------------------------------------------
(* The other threads and the handlers *)

\* Any of them goes to a place without the mutex, having held it or not.
LEMMA OtherGoes ==
  ASSUME IInv, NEW a \in Actor \ {Gui}, NEW place, NEW next \in Job,
         Goto(a, place, next), Out(a, place), pc[a] # "ended",
         UNCHANGED <<asked, toStart>>, arrived' \subseteq Handler,
         \/ pc[a] = "holds" /\ owner' = Nobody
         \/ ~Inside(a) /\ owner' = owner
  PROVE  IInv'
<1>1. OtherTypes /\ pc' = [pc EXCEPT ![a] = place]
  BY SameTypes
<1>2. JoinsTheStopped'
  BY <1>1, MoveOther
<1>3. CASE pc[a] = "holds" /\ owner' = Nobody
  BY <1>1, <1>2, <1>3, LeaveOne
<1>4. CASE ~Inside(a) /\ owner' = owner
  BY <1>1, <1>2, <1>4, StayOut
<1> QED BY <1>3, <1>4

\* A handler goes on inside.
LEMMA StaysInside ==
  ASSUME IInv, NEW h \in Handler, NEW place \in {"holds", "body"}, NEW next \in Job,
         Goto(h, place, next), Inside(h), UNCHANGED <<owner, asked, toStart>>,
         arrived' \subseteq Handler
  PROVE  IInv'
<1>1. h \in Actor \ {Gui} /\ h \notin NetThread \cup {Rest}
  BY ActorAssumption DEF Actor
<1>2. OtherTypes /\ pc' = [pc EXCEPT ![h] = place]
  BY <1>1, SameTypes
<1>3. pc[h] # "ended"
  BY DEF Inside
<1>4. JoinsTheStopped'
  BY <1>1, <1>2, <1>3, MoveOther
<1>5. owner = h /\ owner \in Actor \cup {Nobody}
  BY <1>1 DEF IInv, OwnerIsInside, TypeOK
<1>6. Passed(h, place) /\ Allowed(h, place)
  BY <1>1, <1>5 DEF Passed, Allowed, Place
<1> QED BY <1>1, <1>2, <1>4, <1>6, MoveOne

LEMMA OutNet ==
  ASSUME NEW n \in NetThread \cup {Rest}, NEW place \in {"outside", "wants", "ended"}
  PROVE  Out(n, place) /\ n \in Actor \ {Gui}
  BY ActorAssumption DEF Out, Allowed, Place, Actor

LEMMA OutHandler ==
  ASSUME NEW h \in Handler, NEW place \in {"outside", "reading", "wants"}
  PROVE  Out(h, place) /\ h \in Actor \ {Gui}
  BY ActorAssumption DEF Out, Allowed, Place, Actor

LEMMA NetStepInv == ASSUME IInv, NEW n \in NetThread, NetStep(n) PROVE IInv'
<1>1. UNCHANGED <<asked, toStart>> /\ arrived' \subseteq Handler
  BY GuiFacts DEF NetStep, packet, callback, captureFails, finish, Enter
<1>2. CASE packet(n) \/ captureFails(n)
  <2>1. PICK next \in Job : Goto(n, "wants", next)
    BY <1>2 DEF packet, captureFails, Enter, Job
  <2>2. pc[n] = "outside" /\ owner' = owner
    BY <1>2 DEF packet, captureFails, Enter
  <2> QED BY <1>1, <2>1, <2>2, OutNet, OtherGoes DEF Inside
<1>3. CASE callback(n) \/ finish(n)
  <2>1. PICK place \in {"outside", "wants", "ended"}, next \in Job : Goto(n, place, next)
    BY <1>3 DEF callback, finish, Job
  <2>2. pc[n] = "holds" /\ owner' = Nobody
    BY <1>3 DEF callback, finish, Leave
  <2> QED BY <1>1, <2>1, <2>2, OutNet, OtherGoes
<1> QED BY <1>2, <1>3 DEF NetStep

LEMMA RestThreadInv == ASSUME IInv, serveReturns \/ finish(Rest) PROVE IInv'
<1>1. UNCHANGED <<asked, toStart>> /\ arrived' \subseteq Handler
  BY GuiFacts DEF serveReturns, finish, Enter
<1>2. CASE serveReturns
  <2>1. pc[Rest] = "outside" /\ Goto(Rest, "wants", "finish") /\ owner' = owner
    BY <1>2 DEF serveReturns, Enter
  <2> QED BY <1>1, <2>1, OutNet, OtherGoes DEF Job, Inside
<1>3. CASE finish(Rest)
  <2>1. pc[Rest] = "holds" /\ owner' = Nobody /\ Goto(Rest, "ended", "none")
    BY <1>3 DEF finish, Leave
  <2> QED BY <1>1, <2>1, OutNet, OtherGoes DEF Job
<1> QED BY <1>2, <1>3

\* The unwound handlers let go of the mutex, if one of them had it.
LEMMA WorkerEndsInv == ASSUME IInv, NEW w \in Worker, workerEnds(w) PROVE IInv'
<1> DEFINE D == {h \in Handler : WorkerOf[h] = w /\ Suspended(h)}
<1>1. pc' = [a \in Actor |-> IF a \in D THEN "outside" ELSE pc[a]]
      /\ job' = [a \in Actor |-> IF a \in D THEN "none" ELSE job[a]]
      /\ owner' = (IF owner \in D THEN Nobody ELSE owner)
      /\ arrived' = arrived \ D /\ UNCHANGED <<asked, toStart>>
  BY DEF workerEnds
<1>2. D \subseteq Handler /\ D \subseteq Actor /\ "gui" \notin D /\ "rest" \notin D
      /\ D \cap NetThread = {}
  BY ActorAssumption DEF Actor
<1> HIDE DEF D
<1>3. pc' \in [Actor -> Place] /\ job' \in [Actor -> Job]
  BY <1>1, GuiFacts DEF Place, Job
<1>4. TypeOK'
  BY <1>1, <1>3 DEF IInv, TypeOK
<1>5. ASSUME NEW a \in Actor PROVE (Inside(a) <=> owner = a)'
  <2>1. Inside(a) <=> owner = a
    BY DEF IInv, OwnerIsInside
  <2>2. Nobody # a
    BY ActorAssumption
  <2>3. CASE a \in D
    BY <1>1, <2>2, <2>3 DEF Inside
  <2>4. CASE a \notin D
    <3>1. pc'[a] = pc[a]
      BY <1>1, <2>4
    <3>2. owner' = a <=> owner = a
      BY <1>1, <2>2, <2>4
    <3> QED BY <2>1, <3>1, <3>2 DEF Inside
  <2> QED BY <2>3, <2>4
<1>6. Places'
  BY <1>1, <1>2 DEF Places, IInv, Actor
<1>7. \A a \in {Gui} \cup NetThread : pc'[a] = pc[a]
  BY <1>1, <1>2 DEF Actor
<1>8. JoinsTheStopped'
  BY <1>1, <1>7 DEF IInv, JoinsTheStopped, Unfinished
<1> QED BY <1>4, <1>5, <1>6, <1>8 DEF IInv, OwnerIsInside

LEMMA RestStepInv == ASSUME IInv, RestStep PROVE IInv'
  BY RestThreadInv, WorkerEndsInv DEF RestStep

LEMMA HandlerStepInv == ASSUME IInv, NEW h \in Handler, HandlerStep(h) PROVE IInv'
<1>1. UNCHANGED <<asked, toStart>>
  BY DEF HandlerStep, request, loginRead, route, edit, editRead, bodyArrives, Enter
<1>2. arrived' \subseteq Handler
  BY GuiFacts DEF HandlerStep, request, loginRead, route, edit, editRead, bodyArrives
<1>3. CASE request(h) \/ loginRead(h)
  <2>1. PICK place \in {"outside", "reading", "wants"}, next \in Job : Goto(h, place, next)
    BY <1>3 DEF request, loginRead, Enter, Job
  <2>2. pc[h] \in {"outside", "reading"} /\ owner' = owner
    BY <1>3 DEF request, loginRead, Enter, Idle
  <2> QED BY <1>1, <1>2, <2>1, <2>2, OutHandler, OtherGoes DEF Inside
<1>4. CASE route(h)
  <2>1. pc[h] = "holds" /\ owner' = Nobody /\ Goto(h, "outside", "none")
    BY <1>4 DEF route, Leave
  <2> QED BY <1>1, <1>2, <2>1, OutHandler, OtherGoes DEF Job
<1>5. CASE edit(h)
  <2>1. pc[h] = "holds"
    BY <1>5 DEF edit
  <2>2. CASE owner' = Nobody /\ Goto(h, "outside", "none")
    BY <1>1, <1>2, <2>1, <2>2, OutHandler, OtherGoes DEF Job
  <2>3. CASE UNCHANGED owner /\ Goto(h, "body", "edit")
    BY <1>1, <1>2, <2>1, <2>3, StaysInside DEF Job, Inside
  <2> QED BY <1>5, <2>2, <2>3 DEF edit
<1>6. CASE editRead(h)
  <2>1. pc[h] = "body" /\ Goto(h, "holds", "route") /\ owner' = owner
    BY <1>6 DEF editRead
  <2> QED BY <1>1, <1>2, <2>1, StaysInside DEF Job, Inside
<1>7. CASE bodyArrives(h)
  <2>1. UNCHANGED <<owner, pc, job>>
    BY <1>7 DEF bodyArrives
  <2> QED BY <1>1, <1>2, <2>1 DEF IInv, TypeOK, OwnerIsInside, Inside, Places, JoinsTheStopped,
                                  Unfinished
<1> QED BY <1>3, <1>4, <1>5, <1>6, <1>7 DEF HandlerStep

------------------------------------------------------------------------------
(* Only threads that have ended are started *)

\* Whatever moves but the GUI thread and threads that have ended.
LEMMA OthersKeepStarts ==
  ASSUME IInv, StartsTheEnded, toStart' = toStart, job'[Gui] = job[Gui], pc'[Gui] = pc[Gui],
         \A n \in NetThread \cup {Rest} : pc[n] = "ended" => pc'[n] = "ended"
  PROVE  StartsTheEnded'
<1>1. toStart \subseteq NetThread
  BY DEF IInv, TypeOK
<1>2. Unfinished = {} => Unfinished' = {}
  BY DEF Unfinished
<1> QED BY <1>1, <1>2 DEF StartsTheEnded

LEMMA OneKeepsStarts ==
  ASSUME IInv, StartsTheEnded, NEW a \in Actor \ {Gui}, pc[a] # "ended", NEW place, NEW next,
         pc' = [pc EXCEPT ![a] = place],
         job' = job \/ job' = [job EXCEPT ![a] = next], toStart' = toStart
  PROVE  StartsTheEnded'
<1>1. pc'["gui"] = pc["gui"] /\ job'["gui"] = job["gui"]
  BY GuiFacts
<1>2. \A n \in NetThread \cup {Rest} : pc[n] = "ended" => pc'[n] = "ended"
  BY GuiFacts
<1> QED BY <1>1, <1>2, OthersKeepStarts

LEMMA GuiKeepsStarts ==
  ASSUME IInv, StartsTheEnded, NEW place, NEW next, Goto(Gui, place, next), toStart' = toStart,
         next = "reset" => Unfinished = {},
         next = "startRest" /\ place \in {"wants", "holds"} => pc[Rest] = "ended"
  PROVE  StartsTheEnded'
<1>1. \A b \in Actor : b # "gui" => pc'[b] = pc[b]
  BY GuiFacts DEF Goto
<1>2. pc'["gui"] = place /\ job'["gui"] = next
  BY GuiFacts DEF Goto
<1>3. Unfinished' = Unfinished /\ pc'["rest"] = pc["rest"]
  BY <1>1, GuiFacts DEF Unfinished
<1>4. \A n \in toStart' : pc'[n] = "ended"
  BY <1>1, GuiFacts, Types DEF StartsTheEnded
<1> QED BY <1>2, <1>3, <1>4 DEF StartsTheEnded

LEMMA LockKeepsStarts ==
  ASSUME IInv, StartsTheEnded, NEW a \in Actor, lock(a) PROVE StartsTheEnded'
<1>1. CASE a # Gui
  BY <1>1, OneKeepsStarts DEF lock
<1>2. CASE a = Gui
  <2>1. Goto(Gui, "holds", job[Gui])
    BY <1>2 DEF lock, Goto, IInv, TypeOK
  <2>2. (job[Gui] = "startRest" => pc[Rest] = "ended") /\ (job[Gui] = "reset" => Unfinished = {})
    BY <1>2 DEF lock, StartsTheEnded
  <2> QED BY <2>1, <2>2, GuiKeepsStarts DEF lock
<1> QED BY <1>1, <1>2

LEMMA GuiStepKeepsStarts == ASSUME IInv, StartsTheEnded, slot \/ guiStep PROVE StartsTheEnded'
<1>1. CASE slot \/ state \/ other \/ signalStop
  <2>1. PICK place \in {"outside", "wants", "joinNet", "joinRest"}, next \in Job :
          /\ Goto(Gui, place, next)
          /\ next = "startRest" => place = "joinRest"
          /\ next = "reset" => Unfinished = {}
    BY <1>1, IdleMeansEnded DEF slot, state, other, signalStop, NextSection, GuiSection, Job
  <2>2. toStart' = toStart
    BY <1>1 DEF slot, state, other, signalStop
  <2> QED BY <2>1, <2>2, GuiKeepsStarts
<1>2. CASE joinNet \/ joinRest
  <2>1. PICK next \in {"reset", "startRest"} :
          /\ Goto(Gui, "wants", next) /\ toStart' = toStart
          /\ next = "reset" => Unfinished = {}
          /\ next = "startRest" => pc[Rest] = "ended"
    BY <1>2 DEF joinNet, joinRest, Enter
  <2> QED BY <2>1, GuiKeepsStarts
<1>3. CASE reset
  <2>1. toStart' = NetThread /\ job[Gui] = "reset" /\ Goto(Gui, "wants", "start")
    BY <1>3 DEF reset, Leave
  <2>2. Unfinished = {}
    BY <2>1 DEF StartsTheEnded
  <2>3. \A n \in NetThread : pc'[n] = "ended"
    BY <2>1, <2>2, GuiFacts DEF Goto, Unfinished
  <2>4. job'["gui"] = "start"
    BY <2>1, GuiFacts DEF Goto
  <2> QED BY <2>1, <2>3, <2>4 DEF StartsTheEnded
<1>4. CASE start
  <2>1. PICK n \in toStart :
          /\ pc' = [pc EXCEPT ![n] = "outside",
                              ![Gui] = IF toStart = {n} THEN "outside" ELSE "wants"]
          /\ job' = [job EXCEPT ![Gui] = IF toStart = {n} THEN "none" ELSE "start"]
          /\ toStart' = toStart \ {n}
    BY <1>4 DEF start
  <2>2. job'["gui"] \in {"none", "start"}
    BY <2>1, GuiFacts
  <2>3. \A b \in NetThread : b # n => pc'[b] = pc[b]
    BY <2>1, GuiFacts
  <2> QED BY <2>1, <2>2, <2>3 DEF StartsTheEnded, IInv, TypeOK
<1>5. CASE startRest
  <2>1. /\ pc' = [pc EXCEPT ![Rest] = "outside", ![Gui] = "outside"]
        /\ job' = [job EXCEPT ![Gui] = "none"] /\ toStart' = toStart
    BY <1>5 DEF startRest
  <2>2. job'["gui"] = "none" /\ \A b \in NetThread : pc'[b] = pc[b]
    BY <2>1, GuiFacts, ActorAssumption
  <2> QED BY <2>1, <2>2 DEF StartsTheEnded, IInv, TypeOK
<1> QED BY <1>1, <1>2, <1>3, <1>4, <1>5 DEF guiStep

LEMMA OthersStepKeepsStarts ==
  ASSUME IInv, StartsTheEnded,
         RestStep \/ (\E n \in NetThread : NetStep(n)) \/ (\E h \in Handler : HandlerStep(h))
  PROVE  StartsTheEnded'
<1>1. toStart' = toStart
  BY DEF RestStep, NetStep, HandlerStep, serveReturns, workerEnds, packet, captureFails, callback,
         finish, request, loginRead, route, edit, editRead, bodyArrives, Enter
<1>2. CASE \E a \in Actor \ {Gui}, place \in Place, next \in Job :
             pc[a] # "ended" /\ Goto(a, place, next)
  BY <1>1, <1>2, OneKeepsStarts DEF Goto
<1>3. CASE \E h \in Handler : bodyArrives(h)
  BY <1>1, <1>3, OthersKeepStarts DEF bodyArrives
<1>4. CASE \E w \in Worker : workerEnds(w)
  <2>1. PICK D \in SUBSET Handler :
          /\ pc' = [a \in Actor |-> IF a \in D THEN "outside" ELSE pc[a]]
          /\ job' = [a \in Actor |-> IF a \in D THEN "none" ELSE job[a]]
    BY <1>4 DEF workerEnds
  <2>2. D \cap ({"gui", "rest"} \cup NetThread) = {}
    BY ActorAssumption
  <2>3. pc'["gui"] = pc["gui"] /\ job'["gui"] = job["gui"]
    BY <2>1, <2>2, GuiFacts
  <2>4. \A n \in NetThread \cup {"rest"} : pc'[n] = pc[n]
    BY <2>1, <2>2, GuiFacts
  <2> QED BY <1>1, <2>3, <2>4, OthersKeepStarts
<1>5. NetThread \cup Handler \cup {"rest"} \subseteq Actor \ {"gui"}
  BY ActorAssumption DEF Actor
<1>6. CASE serveReturns \/ finish(Rest)
  <2>1. \E place \in Place, next \in Job : pc["rest"] # "ended" /\ Goto("rest", place, next)
    BY <1>6 DEF serveReturns, finish, Enter, Leave, Place, Job
  <2> QED BY <1>2, <1>5, <2>1
<1>7. ASSUME NEW n \in NetThread, NetStep(n)
      PROVE  \E place \in Place, next \in Job : pc[n] # "ended" /\ Goto(n, place, next)
  BY <1>7 DEF NetStep, packet, captureFails, callback, finish, Enter, Leave, Place, Job
<1>8. ASSUME NEW h \in Handler, HandlerStep(h), ~bodyArrives(h)
      PROVE  \E place \in Place, next \in Job : pc[h] # "ended" /\ Goto(h, place, next)
  BY <1>8 DEF HandlerStep, request, loginRead, route, edit, editRead, Idle, Enter, Leave,
              Place, Job
<1> QED BY <1>2, <1>3, <1>4, <1>5, <1>6, <1>7, <1>8 DEF RestStep

------------------------------------------------------------------------------
(* Who is stuck stays stuck *)

\* Somebody else moves, from a place that is neither of the two.
LEMMA MovesElsewhere ==
  ASSUME IInv, NEW h \in Handler, NEW k \in Handler, WorkerOf[h] = WorkerOf[k],
         pc[h] = "body", pc[k] = "wants",
         NEW a \in Actor, NEW place, pc[a] \notin {"body", "wants"}, pc' = [pc EXCEPT ![a] = place]
  PROVE  Stuck'
<1>1. pc'[h] = pc[h] /\ pc'[k] = pc[k]
  BY GuiFacts DEF Actor
<1> QED BY <1>1 DEF Stuck

LEMMA StuckStep ==
  ASSUME IInv, Stuck, Next PROVE Stuck' /\ owner' = owner
<1>1. PICK h \in Handler, k \in Handler :
        WorkerOf[h] = WorkerOf[k] /\ pc[h] = "body" /\ pc[k] = "wants"
  BY DEF Stuck
<1>2. h \in Actor /\ k \in Actor /\ Busy(WorkerOf[h])
  BY <1>1 DEF Actor, Busy
<1>3. owner = h /\ h # Nobody
  BY <1>1, <1>2, ActorAssumption DEF IInv, OwnerIsInside, Inside
<1>4. \A a \in Actor : pc[a] # "holds"
  BY <1>1, <1>3 DEF IInv, OwnerIsInside, Inside
<1>5. \A a \in Actor : ~lock(a)
  BY <1>3 DEF lock
<1>6. CASE slot \/ guiStep
  <2>1. PICK place \in Place : pc' = [pc EXCEPT ![Gui] = place] /\ owner' = owner
                              /\ pc[Gui] \notin {"body", "wants"}
    BY <1>4, <1>6, GuiFacts DEF slot, guiStep, state, other, signalStop, joinNet, joinRest, reset,
         start, startRest, NextSection, Goto, Enter, Leave, Place
  <2> QED BY <1>1, <2>1, GuiFacts, MovesElsewhere
<1>7. CASE serveReturns \/ finish(Rest)
  <2>1. pc' = [pc EXCEPT ![Rest] = "wants"] /\ owner' = owner /\ pc[Rest] = "outside"
    BY <1>4, <1>7, GuiFacts DEF serveReturns, finish, Enter, Leave, Goto
  <2> QED BY <1>1, <2>1, GuiFacts, MovesElsewhere
<1>8. ASSUME NEW n \in NetThread, NetStep(n) PROVE Stuck' /\ owner' = owner
  <2>1. pc' = [pc EXCEPT ![n] = "wants"] /\ owner' = owner /\ pc[n] = "outside"
    BY <1>4, <1>8, GuiFacts DEF NetStep, packet, captureFails, callback, finish, Enter, Leave, Goto
  <2> QED BY <1>1, <2>1, GuiFacts, MovesElsewhere
<1>9. ASSUME NEW w \in Worker, workerEnds(w) PROVE Stuck' /\ owner' = owner
  <2>1. WorkerOf[h] # w /\ WorkerOf[k] # w
    BY <1>1, <1>2, <1>9 DEF workerEnds
  <2>2. pc'[h] = pc[h] /\ pc'[k] = pc[k] /\ owner' = owner
    BY <1>2, <1>3, <1>9, <2>1 DEF workerEnds
  <2> QED BY <1>1, <2>2 DEF Stuck
<1>10. ASSUME NEW g \in Handler, HandlerStep(g) PROVE Stuck' /\ owner' = owner
  <2>0. g \in Actor
    BY DEF Actor
  <2>1. CASE request(g) \/ loginRead(g)
    <3>1. PICK place : pc' = [pc EXCEPT ![g] = place]
      BY <2>1 DEF request, loginRead, Enter, Goto
    <3>2. owner' = owner /\ pc[g] \in {"outside", "reading"}
      BY <2>1 DEF request, loginRead, Enter, Idle
    <3> QED BY <1>1, <2>0, <3>1, <3>2, MovesElsewhere
  <2>2. ~route(g) /\ ~edit(g)
    BY <1>4, <2>0 DEF route, edit, Leave
  <2>3. ~editRead(g)
    <3>1. pc[g] = "body" => g = h
      BY <1>3, <2>0 DEF IInv, OwnerIsInside, Inside
    <3> QED BY <1>2, <3>1 DEF editRead, Resumable
  <2>4. CASE bodyArrives(g)
    BY <1>1, <2>4 DEF bodyArrives, Stuck
  <2> QED BY <1>10, <2>1, <2>2, <2>3, <2>4 DEF HandlerStep
<1> QED BY <1>5, <1>6, <1>7, <1>8, <1>9, <1>10 DEF Next, RestStep

------------------------------------------------------------------------------
(* The theorems *)

\* Every step of every actor keeps the whole of it.
THEOREM Inductive == Spec => [](IInv /\ StartsTheEnded)
<1>1. Init => IInv /\ StartsTheEnded
  <2>1. Init => StartsTheEnded
    BY DEF Init, StartsTheEnded, Actor
  <2> QED BY <2>1, InitInv
<1>2. IInv /\ StartsTheEnded /\ [Next]_vars => (IInv /\ StartsTheEnded)'
  <2> SUFFICES ASSUME IInv, StartsTheEnded, [Next]_vars PROVE (IInv /\ StartsTheEnded)'
    OBVIOUS
  <2>1. CASE slot \/ guiStep
    BY <2>1, SlotInv, StateInv, SectionInv, JoinInv, StartInv, StartRestInv,
       GuiStepKeepsStarts DEF guiStep
  <2>2. CASE RestStep
    BY <2>2, RestStepInv, OthersStepKeepsStarts
  <2>3. CASE \E a \in Actor : lock(a)
    BY <2>3, LockInv, LockKeepsStarts
  <2>4. CASE \E n \in NetThread : NetStep(n)
    BY <2>4, NetStepInv, OthersStepKeepsStarts
  <2>5. CASE \E h \in Handler : HandlerStep(h)
    BY <2>5, HandlerStepInv, OthersStepKeepsStarts
  <2>6. CASE UNCHANGED vars
    BY <2>6 DEF vars, IInv, StartsTheEnded, TypeOK, OwnerIsInside, Inside, Places,
                JoinsTheStopped, Unfinished
  <2> QED BY <2>1, <2>2, <2>3, <2>4, <2>5, <2>6 DEF Next
<1> QED BY <1>1, <1>2, PTL DEF Spec

\* Actors are only where their code has a place, whoever moves.
THEOREM TypeCorrect == Spec => []TypeOK
<1>1. IInv => TypeOK
  BY DEF IInv
<1> QED BY <1>1, Inductive, PTL

\* Never two in the storage, however many requests are handled at a time.
THEOREM OneInside == Spec => []MutualExclusion
<1>1. IInv => MutualExclusion
  BY DEF IInv, OwnerIsInside, MutualExclusion
<1> QED BY <1>1, Inductive, PTL

\* Whoever is inside runs, waits for a client, or is a fiber that can be resumed
\* unless a handler of its own thread waits for it.  With nobody inside somebody
\* can enter, or the window waits for a server whose threads can end.
THEOREM NoWaitingInACircle == Spec => []NoCircle
<1>1. IInv => NoCircle
  <2> SUFFICES ASSUME IInv, NEW a \in Actor, Blocked(a), ~Stuck,
                      \A h \in Handler : ~WaitsForClient(h)
               PROVE  \E b \in Actor : Runs(b)
    BY DEF NoCircle
  <2>1. CASE owner # Nobody
    <3>1. owner \in Actor /\ Inside(owner)
      BY <2>1 DEF IInv, TypeOK, OwnerIsInside
    <3>2. CASE pc[owner] = "holds"
      BY <3>1, <3>2 DEF Runs
    <3>3. CASE pc[owner] = "body"
      <4>1. owner \in Handler
        BY <3>1, <3>3 DEF IInv, Places, Actor
      <4>2. Suspended(owner) /\ owner \in arrived
        BY <3>3, <4>1 DEF WaitsForClient, Suspended
      <4>3. ASSUME NEW k \in Handler, WorkerOf[k] = WorkerOf[owner]
            PROVE  pc[k] \notin {"wants", "holds"}
        <5>1. pc[k] # "wants"
          BY <3>3, <4>1, <4>3 DEF Stuck
        <5>2. pc[k] = "holds" => k = owner
          BY DEF IInv, OwnerIsInside, Inside, Actor
        <5> QED BY <3>3, <5>1, <5>2
      <4> QED BY <3>1, <4>1, <4>2, <4>3 DEF Runs, Busy
    <3> QED BY <3>1, <3>2, <3>3 DEF Inside
  <2>2. CASE owner = Nobody
    <3>1. \A b \in Actor : pc[b] \notin {"holds", "body"}
      BY <2>2, ActorAssumption DEF IInv, OwnerIsInside, Inside
    <3>2. CASE \E b \in Actor : pc[b] = "wants"
      BY <3>2, <2>2 DEF Runs
    <3>3. CASE \A b \in Actor : pc[b] # "wants"
      <4>1. \A b \in Actor : pc[b] \in {"joinNet", "joinRest"} => b = Gui
        BY DEF IInv, Places, Actor
      <4>2. pc[a] = "joinRest" /\ pc["rest"] # "ended" /\ a = Gui
        BY <2>2, <4>1 DEF IInv, JoinsTheStopped, Blocked
      <4>3. "rest" \in Actor /\ pc["rest"] = "outside" /\ "rest" \in asked
        BY <3>1, <3>3, <4>2 DEF IInv, Places, JoinsTheStopped, Actor
      <4>4. CASE \A h \in Handler : Idle(h)
        BY <4>3, <4>4 DEF Runs
      <4>5. CASE \E h \in Handler : ~Idle(h)
        <5>1. PICK h \in Handler : pc[h] = "reading"
          BY <3>1, <3>3, <4>5 DEF IInv, Places, Idle, Actor
        <5>2. ~Busy(WorkerOf[h])
          BY <3>1, <3>3 DEF Busy, Actor
        <5>3. h \in Actor /\ Runs(h)
          BY <4>3, <5>1, <5>2 DEF Runs, Suspended, Actor
        <5> QED BY <5>3
      <4> QED BY <4>4, <4>5
    <3> QED BY <3>2, <3>3
  <2> QED BY <2>1, <2>2
<1> QED BY <1>1, Inductive, PTL

\* Two handlers of a thread, one with the mutex and one waiting for it, never get
\* on: not when the body is there, not when the server is told to stop.
THEOREM NoWayOut == Spec => StuckForEver
<1>1. IInv /\ [Next]_vars => [Stuck => Stuck' /\ owner' = owner]_vars
  BY StuckStep
<1> QED BY <1>1, Inductive, PTL DEF Spec, StuckForEver

==============================================================================
