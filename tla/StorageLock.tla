------------------------------ MODULE StorageLock ------------------------------
(***************************************************************************)
(* storageMutex_m and all who take it: the GUI thread through lock_guard   *)
(* in NetworkSwitch, the network threads, the thread of the REST server    *)
(* and its handlers through SharedStorageHandle::guard().  The other       *)
(* modules take a critical section as one step; here it is seen what can   *)
(* happen while somebody is inside, and who waits for whom.                *)
(*                                                                         *)
(* A handler is a fiber: it lives on one of the web server's worker        *)
(* threads, gives the thread back only while it waits for its client, and  *)
(* goes on when the thread is in its event loop again.  A handler that     *)
(* waits for the mutex keeps its thread: guard() locks a std::mutex.  If   *)
(* the mutex is held by a fiber of the same thread, what the standard      *)
(* leaves undefined is, in the build, waiting without an end.              *)
(*                                                                         *)
(* What a section does is left out, except that it may tell a thread to    *)
(* stop.  The chains of sections in the GUI's slots are left open: after   *)
(* one may come another, a join the answer of state() allows, or the event *)
(* loop.                                                                   *)
(*                                                                         *)
(* Slip... definitions are mistakes to try the properties on (see          *)
(* SwitchLifecycle).                                                       *)
(***************************************************************************)

CONSTANTS
  NetThread,   \* the two network threads
  Handler,     \* requests the web server handles at a time
  Worker,      \* its threads
  WorkerOf,    \* the thread a handler runs on
  Nobody

Gui   == "gui"
Rest  == "rest"
Actor == {Gui, Rest} \cup NetThread \cup Handler

ASSUME ActorAssumption ==
  /\ Gui \notin NetThread \cup Handler
  /\ Rest \notin NetThread \cup Handler
  /\ NetThread \cap Handler = {}
  /\ Nobody \notin Actor

ASSUME WorkerAssumption == WorkerOf \in [Handler -> Worker]

VARIABLES
  owner,     \* who holds storageMutex_m
  pc,        \* where each actor is
  job,       \* the critical section it is about to enter, or in
  asked,     \* threads whose flag running is false
  toStart,   \* network threads startNetwork has still to start
  arrived    \* suspended handlers whose client has sent all, or has gone

vars == <<owner, pc, job, asked, toStart, arrived>>

------------------------------------------------------------------------------

Place == {"outside", "reading", "wants", "holds", "body", "joinNet", "joinRest", "ended"}
Job   == {"none", "state", "other", "stop", "reset", "start", "startRest",
          "callback", "finish", "route", "edit"}

Inside(a) == pc[a] \in {"holds", "body"}

Idle(h)      == pc[h] = "outside"
Suspended(h) == pc[h] \in {"reading", "body"}

\* Only the other end of the connection can make such a handler go on.
WaitsForClient(h) == Suspended(h) /\ h \notin arrived

\* Slip: a handler that waits for the mutex gives its thread back.
SlipBusyYields(w) == \E h \in Handler : WorkerOf[h] = w /\ pc[h] = "holds"

Busy(w) == \E h \in Handler : WorkerOf[h] = w /\ pc[h] \in {"wants", "holds"}

Init ==
  /\ owner = Nobody
  /\ pc = [a \in Actor |-> IF a \in {Rest} \cup NetThread THEN "ended" ELSE "outside"]
  /\ job = [a \in Actor |-> "none"]
  /\ asked = {Rest}
  /\ toStart = {}
  /\ arrived = {}

Goto(a, place, next) ==
  /\ pc' = [pc EXCEPT ![a] = place]
  /\ job' = [job EXCEPT ![a] = next]

Enter(a, next) == Goto(a, "wants", next) /\ UNCHANGED <<owner, asked, toStart>>

lock(a) ==
  /\ pc[a] = "wants"
  /\ owner = Nobody /\ owner' = a
  /\ pc' = [pc EXCEPT ![a] = "holds"]
  /\ UNCHANGED <<job, asked, toStart, arrived>>

\* The end of the scope of the guard, by return or by exception.
Leave(a, section) ==
  /\ pc[a] = "holds" /\ job[a] = section
  /\ owner' = Nobody

------------------------------------------------------------------------------
(* The GUI thread *)

\* A button, a menu or a timer: its first section; or the next one of a slot.
GuiSection == {"state", "other", "stop"}
NextSection == \E next \in GuiSection : Goto(Gui, "wants", next)

slot == pc[Gui] = "outside" /\ NextSection /\ UNCHANGED <<owner, asked, toStart, arrived>>

Unfinished == {n \in NetThread : pc[n] # "ended"}

\* What state() returns, from the flags of the threads.  Of the network threads
\* the first that has not finished decides, and either may be the first.
State ==
  IF Rest \notin asked THEN {"RunningRest"}
  ELSE IF Unfinished # {}
    THEN {IF n \in asked THEN "Stopping" ELSE "RunningNetwork" : n \in Unfinished}
  ELSE IF pc[Rest] # "ended" THEN {"Stopping"}
  ELSE {"Idle"}

\* Slip: startRest holds the mutex while it replaces the handle.
SlipStateKeepsLock ==
  /\ pc[Gui] = "holds" /\ job[Gui] = "state"
  /\ \E answer \in State :
       \/ owner' = Nobody /\ Goto(Gui, "outside", "none")
       \/ answer = "Idle" /\ owner' = Nobody /\ Goto(Gui, "joinNet", "reset")
       \/ answer = "RunningNetwork" /\ UNCHANGED owner /\ Goto(Gui, "joinRest", "startRest")
  /\ UNCHANGED <<asked, toStart, arrived>>

\* Slip: startRest goes on when the old server runs.
SlipStateJoinsRunning ==
  /\ Leave(Gui, "state")
  /\ \E answer \in State :
       \/ Goto(Gui, "outside", "none")
       \/ NextSection
       \/ answer = "Idle" /\ Goto(Gui, "joinNet", "reset")
       \/ answer \in {"RunningNetwork", "RunningRest"} /\ Goto(Gui, "joinRest", "startRest")
  /\ UNCHANGED <<asked, toStart, arrived>>

\* state(), and what a slot does with the answer: startNetwork and startRest
\* replace handles only when the answer was the right one.
state ==
  /\ Leave(Gui, "state")
  /\ \E answer \in State :
       \/ Goto(Gui, "outside", "none")
       \/ NextSection
       \/ answer = "Idle" /\ Goto(Gui, "joinNet", "reset")
       \/ answer = "RunningNetwork" /\ Goto(Gui, "joinRest", "startRest")
  /\ UNCHANGED <<asked, toStart, arrived>>

\* interfaces(), the purges, the clears.
other ==
  /\ Leave(Gui, "other")
  /\ Goto(Gui, "outside", "none") \/ NextSection
  /\ UNCHANGED <<asked, toStart, arrived>>

\* signalStop of one handle.
signalStop ==
  /\ Leave(Gui, "stop")
  /\ \E a \in NetThread \cup {Rest} : asked' = asked \cup {a}
  /\ Goto(Gui, "outside", "none") \/ NextSection
  /\ UNCHANGED <<toStart, arrived>>

\* The destructors of the handles: thread_m.join().
joinNet  == pc[Gui] = "joinNet" /\ Unfinished = {} /\ Enter(Gui, "reset") /\ UNCHANGED arrived
joinRest == pc[Gui] = "joinRest" /\ pc[Rest] = "ended" /\ Enter(Gui, "startRest") /\ UNCHANGED arrived

\* SharedStorage::reset, in startNetwork.
reset ==
  /\ Leave(Gui, "reset")
  /\ Goto(Gui, "wants", "start")
  /\ toStart' = NetThread
  /\ UNCHANGED <<asked, arrived>>

\* NetworkThreadHandle::start, for one thread after the other.
start ==
  /\ Leave(Gui, "start")
  /\ \E n \in toStart :
       /\ pc' = [pc EXCEPT ![n] = "outside",
                           ![Gui] = IF toStart = {n} THEN "outside" ELSE "wants"]
       /\ job' = [job EXCEPT ![Gui] = IF toStart = {n} THEN "none" ELSE "start"]
       /\ asked' = asked \ {n}
       /\ toStart' = toStart \ {n}
  /\ UNCHANGED arrived

\* RestThreadHandle::start
startRest ==
  /\ Leave(Gui, "startRest")
  /\ pc' = [pc EXCEPT ![Rest] = "outside", ![Gui] = "outside"]
  /\ job' = [job EXCEPT ![Gui] = "none"]
  /\ asked' = asked \ {Rest}
  /\ UNCHANGED <<toStart, arrived>>

guiStep ==
  state \/ other \/ signalStop \/ joinNet \/ joinRest \/ reset \/ start \/ startRest

------------------------------------------------------------------------------
(* The network threads *)

packet(n) == pc[n] = "outside" /\ Enter(n, "callback") /\ UNCHANGED arrived

\* Slip: frames are handled under one guard until the thread is stopped.
SlipCallbackHandlesAll(n) ==
  /\ pc[n] = "holds" /\ job[n] = "callback"
  /\ IF n \in asked THEN Goto(n, "wants", "finish") /\ owner' = Nobody
                     ELSE UNCHANGED <<pc, job, owner>>
  /\ UNCHANGED <<asked, toStart, arrived>>

\* The callback returns running; if that is false, or the capture fails, the
\* thread goes on to its last section.
callback(n) ==
  /\ Leave(n, "callback")
  /\ IF n \in asked THEN Goto(n, "wants", "finish") ELSE Goto(n, "outside", "none")
  /\ UNCHANGED <<asked, toStart, arrived>>

captureFails(n) == pc[n] = "outside" /\ Enter(n, "finish") /\ UNCHANGED arrived

finish(a) ==
  /\ Leave(a, "finish")
  /\ Goto(a, "ended", "none")
  /\ UNCHANGED <<asked, toStart, arrived>>

------------------------------------------------------------------------------
(* The web server *)

\* http_serve returns when no handler is running any more.
serveReturns ==
  /\ pc[Rest] = "outside" /\ \A h \in Handler : Idle(h)
  /\ Enter(Rest, "finish") /\ UNCHANGED arrived

\* The event loop of a thread sees that it shall quit: what is suspended there is
\* unwound, its guard with it.
workerEnds(w) ==
  LET dropped == {h \in Handler : WorkerOf[h] = w /\ Suspended(h)}
  IN  /\ pc[Rest] = "outside" /\ Rest \in asked /\ ~Busy(w)
      /\ dropped # {}
      /\ pc' = [a \in Actor |-> IF a \in dropped THEN "outside" ELSE pc[a]]
      /\ job' = [a \in Actor |-> IF a \in dropped THEN "none" ELSE job[a]]
      /\ owner' = IF owner \in dropped THEN Nobody ELSE owner
      /\ arrived' = arrived \ dropped
      /\ UNCHANGED <<asked, toStart>>

\* A request for a route.  POST /login reads its body before it takes the guard.
request(h) ==
  /\ pc[Rest] = "outside" /\ Rest \notin asked
  /\ Idle(h) /\ ~Busy(WorkerOf[h])
  /\ \/ \E next \in {"route", "edit"} : Enter(h, next)
     \/ Goto(h, "reading", "none") /\ UNCHANGED <<owner, asked, toStart>>
  /\ UNCHANGED arrived

\* The client has sent the body, or closed the connection.
bodyArrives(h) ==
  /\ WaitsForClient(h)
  /\ arrived' = arrived \cup {h}
  /\ UNCHANGED <<owner, pc, job, asked, toStart>>

\* The event loop of its thread resumes a suspended handler.
Resumable(h) == h \in arrived /\ ~Busy(WorkerOf[h])

\* POST /login has its body; or the password is wrong.
loginRead(h) ==
  /\ pc[h] = "reading" /\ Resumable(h)
  /\ \/ Enter(h, "route")
     \/ Goto(h, "outside", "none") /\ UNCHANGED <<owner, asked, toStart>>
  /\ arrived' = arrived \ {h}

route(h) ==
  /\ Leave(h, "route")
  /\ Goto(h, "outside", "none")
  /\ UNCHANGED <<asked, toStart, arrived>>

\* The PUT routes: "Invalid auth token.", or post_parameters under the guard.
edit(h) ==
  /\ pc[h] = "holds" /\ job[h] = "edit"
  /\ \/ owner' = Nobody /\ Goto(h, "outside", "none")
     \/ UNCHANGED owner /\ Goto(h, "body", "edit")
  /\ UNCHANGED <<asked, toStart, arrived>>

\* post_parameters returns, or throws.
editRead(h) ==
  /\ pc[h] = "body" /\ Resumable(h)
  /\ Goto(h, "holds", "route")
  /\ arrived' = arrived \ {h}
  /\ UNCHANGED <<owner, asked, toStart>>

------------------------------------------------------------------------------

NetStep(n) == packet(n) \/ callback(n) \/ captureFails(n) \/ finish(n)
RestStep   == serveReturns \/ finish(Rest) \/ \E w \in Worker : workerEnds(w)
HandlerStep(h) ==
  request(h) \/ loginRead(h) \/ route(h) \/ edit(h) \/ editRead(h) \/ bodyArrives(h)

Next ==
  \/ slot \/ guiStep \/ RestStep
  \/ \E a \in Actor : lock(a)
  \/ \E n \in NetThread : NetStep(n)
  \/ \E h \in Handler : HandlerStep(h)

\* A thread that can run does, an event loop comes to every handler it can
\* resume, and waiting for the mutex is not for ever as long as others let go of
\* it.  Nothing is assumed of clients, packets and buttons.
Fairness ==
  /\ WF_vars(guiStep)
  /\ WF_vars(Rest \in asked /\ serveReturns) /\ WF_vars(finish(Rest))
  /\ \A n \in NetThread : WF_vars(callback(n)) /\ WF_vars(finish(n))
  /\ \A h \in Handler : /\ WF_vars(route(h)) /\ WF_vars(edit(h))
                        /\ SF_vars(loginRead(h)) /\ SF_vars(editRead(h))
  /\ \A w \in Worker : WF_vars(workerEnds(w))
  /\ \A a \in Actor : SF_vars(lock(a))

Spec == Init /\ [][Next]_vars /\ Fairness

------------------------------------------------------------------------------
(* Properties *)

TypeOK ==
  /\ owner \in Actor \cup {Nobody}
  /\ pc \in [Actor -> Place]
  /\ job \in [Actor -> Job]
  /\ asked \subseteq NetThread \cup {Rest}
  /\ toStart \subseteq NetThread
  /\ arrived \subseteq Handler

\* Never two in the storage, on any way into a section and out of it.
MutualExclusion == \A a \in Actor : Inside(a) => owner = a

\* A PUT waits for its body with the mutex, and another handler of the same
\* thread waits for the mutex.
Stuck ==
  \E h, k \in Handler : WorkerOf[h] = WorkerOf[k] /\ pc[h] = "body" /\ pc[k] = "wants"

Blocked(a) ==
  \/ pc[a] = "wants" /\ owner # Nobody
  \/ pc[a] = "joinRest" /\ pc[Rest] # "ended"
  \/ pc[a] = "joinNet" /\ Unfinished # {}
Runs(a) ==
  \/ pc[a] = "holds"
  \/ pc[a] = "wants" /\ owner = Nobody
  \/ a \in Handler /\ Suspended(a) /\ ~Busy(WorkerOf[a]) /\ (a \in arrived \/ Rest \in asked)
  \/ a = Rest /\ pc[Rest] = "outside" /\ \A h \in Handler : Idle(h)

\* Whoever waits, for the mutex or in a join, waits in the end for somebody
\* who can run, or for a client; the one circle there is, is Stuck.
NoCircle ==
  (\E a \in Actor : Blocked(a)) =>
    \/ \E a \in Actor : Runs(a)
    \/ \E h \in Handler : WaitsForClient(h)
    \/ Stuck

\* Stuck is for ever, though all clients send what they have to and the server
\* was told to stop: nobody gets the mutex again, the window neither.
StuckForEver == [][Stuck => Stuck' /\ owner' = owner]_vars

\* The mutex is always let go of, except by a PUT whose body is awaited.
HeldOnlyForABody ==
  \A a \in Actor : owner = a ~> (owner # a \/ pc[a] = "body")

\* If clients finish what they send, and no two handlers of a thread come to be
\* stuck, everybody gets the mutex, and the window gets past its joins.
ClientsFinish == \A h \in Handler : []<>~WaitsForClient(h)

EverybodyGetsOn ==
  ClientsFinish /\ []~Stuck =>
    /\ \A a \in Actor : pc[a] = "wants" ~> owner = a
    /\ pc[Gui] \in {"joinNet", "joinRest"} ~> pc[Gui] = "wants"

==============================================================================
