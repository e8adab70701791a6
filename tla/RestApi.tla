-------------------------------- MODULE RestApi --------------------------------
(***************************************************************************)
(* The routes of the REST server (RestThreadHandle::thread) and the part   *)
(* of the storage they work on: the sessions, the names and states of the  *)
(* interfaces and the device's settings.                                   *)
(*                                                                         *)
(* A handler takes the storage mutex once, finds the token of the request  *)
(* among the sessions and acts before it lets go of the mutex.  That is    *)
(* one step, but for the PUT routes: these read the body of the request    *)
(* with the mutex in hand, which may take the client any time, and store   *)
(* one parameter after the other.  Lithium's workers run handlers in any   *)
(* order.                                                                  *)
(*                                                                         *)
(* Tokens are 32 random characters; here the n-th login gets token n, and  *)
(* 0 is a token nobody was given.  storage.sessions is kept as a table     *)
(* from token to the age of the session.                                   *)
(*                                                                         *)
(* Slip... definitions are mistakes to try the properties on (see          *)
(* SwitchLifecycle).                                                       *)
(***************************************************************************)
EXTENDS Integers, Tables

CONSTANTS
  Interface,        \* ids of the machine's network interfaces
  Id, Device,       \* ids a request can name; and what PUT /device/edit is about
  Name, NoName,     \* names an interface can be given, and the empty one
  Hostname, DefaultHostname,
  MacTimeout, DefaultMacTimeout,
  SessionTimeout,   \* DEFAULT_SESSION_TIMEOUT, in ticks
  PurgeEvery,       \* SESSION_UPDATE_TIMER, and the delays of a busy GUI thread
  MaxDenied,        \* bound: time between two purges in which a PUT holds the mutex
  MaxLogins         \* bound: logins in a behaviour

ASSUME RestAssumption ==
  /\ Device \notin Interface \cup Id
  /\ NoName \in Name
  /\ DefaultHostname \in Hostname
  /\ DefaultMacTimeout \in MacTimeout
  /\ SessionTimeout \in Nat
  /\ PurgeEvery \in Nat \ {0}
  /\ MaxDenied \in Nat
  /\ MaxLogins \in Nat

VARIABLES
  sessions,     \* storage.sessions: the age of each, by token
  interfaces,   \* storage.interfaces: name and up of the entries in use
  deviceInfo,   \* storage.deviceInfo
  serving,      \* li::http_serve is running
  edit,         \* the PUT that holds the mutex between two steps
  sincePurge,   \* time since sessionTimer_m fired that the mutex could be had
  denied,       \* time since then that a PUT waited for its body, the mutex in hand
  answer,       \* the response sent in this step and the token it was for
  logins,       \* history: how many logins succeeded
  given,        \* history: the tokens that were sent to clients
  before        \* history: the logins before this run of the switch

storage == <<sessions, interfaces, deviceInfo>>
clock   == <<sincePurge, denied>>
history == <<logins, given, before>>
vars    == <<storage, serving, edit, clock, answer, history>>

------------------------------------------------------------------------------

NoToken  == 0
Token    == 1..MaxLogins
Refusal  == {"forbidden", "notFound", "badRequest", "error"}
Response == {"none", "token", "ok", "no"} \cup Refusal

Answer(status, token) == answer' = [status |-> status, token |-> token]
Silence == Answer("none", NoToken)

DefaultDevice == [hostname |-> DefaultHostname, timeout |-> DefaultMacTimeout]

\* std::optional: a parameter of a PUT may be left out.
Optional(S) == {{}} \cup {{v} : v \in S}
Given(parameter, old) == IF parameter = {} THEN old ELSE CHOOSE v \in parameter : TRUE

\* found is history: what the handler found when it took the mutex.
NoEdit == [stage |-> "none"]
Reading == edit # NoEdit /\ edit.stage = "reading"
Storing == edit # NoEdit /\ edit.stage = "storing"

Init ==
  /\ sessions = Empty
  /\ interfaces = Empty
  /\ deviceInfo = DefaultDevice
  /\ serving = FALSE
  /\ edit = NoEdit
  /\ sincePurge = 0 /\ denied = 0
  /\ answer = [status |-> "none", token |-> NoToken]
  /\ logins = 0
  /\ given = {}
  /\ before = 0

------------------------------------------------------------------------------
(* The routes *)

\* Slip: the answer is taken from the other end of the vector.
SlipFront(tokens) == CHOOSE t \in tokens : \A u \in tokens : t <= u

\* Slip: one before the end.
SlipBeforeBack(tokens) == (CHOOSE t \in tokens : \A u \in tokens : u <= t) - 1

\* sessions.back()
Back(tokens) == CHOOSE t \in tokens : \A u \in tokens : u <= t

\* POST /login
login ==
  /\ serving /\ edit = NoEdit
  /\ logins < MaxLogins
  /\ sessions' = Insert(sessions, logins + 1, 0)
  /\ logins' = logins + 1
  /\ LET token == Back(DOMAIN sessions') IN
       /\ given' = given \cup {token}
       /\ Answer("token", token)
  /\ UNCHANGED <<interfaces, deviceInfo, serving, edit, clock, before>>

\* A handler that ends before it takes the mutex.
RefusedAtOnce(status) ==
  /\ serving
  /\ Answer(status, NoToken)
  /\ UNCHANGED <<storage, serving, edit, clock, history>>

\* A wrong password, or parameters that cannot be read.
loginRefused == \E status \in {"forbidden", "badRequest"} : RefusedAtOnce(status)

\* Every other route: a header that does not begin with "Bearer" is forbidden; one that
\* ends there has no substr(7), and what comes of std::out_of_range is lithium's affair.
headerRefused == \E status \in {"forbidden", "error"} : RefusedAtOnce(status)

\* Slip: a token is accepted for ever.
SlipAuthorisedOnce(token) == token \in given

Authorised(token) == token \in DOMAIN sessions

\* A handler that is done when it lets go of the mutex for the first time.
Reply(status, token) ==
  /\ serving /\ edit = NoEdit
  /\ Answer(status, token)
  /\ UNCHANGED <<serving, edit, clock, history>>

\* Slip: using a session renews it.
SlipAuthRenews(token) ==
  /\ Reply(IF Authorised(token) THEN "ok" ELSE "no", token)
  /\ sessions' = IF Authorised(token) THEN Insert(sessions, token, 0) ELSE sessions
  /\ UNCHANGED <<interfaces, deviceInfo>>

\* GET /auth
auth(token) ==
  /\ Reply(IF Authorised(token) THEN "ok" ELSE "no", token)
  /\ UNCHANGED storage

\* POST /logout
logout(token) ==
  /\ Authorised(token)
  /\ Reply("ok", token)
  /\ sessions' = Without(sessions, token)
  /\ UNCHANGED <<interfaces, deviceInfo>>

\* No session has the token: "Invalid auth token." of every route but /auth, which says no.
forbidden(token) ==
  /\ ~Authorised(token)
  /\ Reply("forbidden", token)
  /\ UNCHANGED storage

\* GET /interface and GET /device
read(token) == Authorised(token) /\ Reply("ok", token) /\ UNCHANGED storage

\* GET /interface/{{id}}; the id may be none.
getInterface(token, i) ==
  /\ Authorised(token)
  /\ Reply(IF i \in DOMAIN interfaces THEN "ok" ELSE "notFound", token)
  /\ UNCHANGED storage

\* An {{id}} that is no number, in GET and in PUT.
badRequest(token) ==
  /\ Authorised(token)
  /\ Reply("badRequest", token)
  /\ UNCHANGED storage

\* PUT /interface/{{id}}/edit and PUT /device/edit, up to the reading of the body.
put(token, target) ==
  /\ serving /\ edit = NoEdit
  /\ Authorised(token)
  /\ edit' = [token |-> token, target |-> target, stage |-> "reading", second |-> {},
              found |-> <<interfaces, deviceInfo>>]
  /\ Silence
  /\ UNCHANGED <<storage, serving, clock, history>>

EditEnds(status) ==
  /\ edit' = NoEdit
  /\ Answer(status, edit.token)
  /\ UNCHANGED <<serving, clock, history>>

FirstStored(second) ==
  /\ edit' = [edit EXCEPT !.stage = "storing", !.second = second]
  /\ Silence
  /\ UNCHANGED <<serving, clock, history>>

\* Slip: every parameter is read where it is stored.
SlipBodyUnreadable ==
  /\ Reading \/ Storing
  /\ EditEnds("badRequest")
  /\ UNCHANGED storage

\* post_parameters throws.
bodyUnreadable ==
  /\ Reading
  /\ EditEnds("badRequest")
  /\ UNCHANGED storage

\* The body has arrived, but the switch does not run on the interface.
noSuchInterface ==
  /\ Reading /\ edit.target \notin DOMAIN interfaces \cup {Device}
  /\ EditEnds("notFound")
  /\ UNCHANGED storage

storeName(name, up) ==
  /\ Reading /\ edit.target \in DOMAIN interfaces
  /\ interfaces' = [interfaces EXCEPT ![edit.target].name = Given(name, @)]
  /\ FirstStored(up)
  /\ UNCHANGED <<sessions, deviceInfo>>

storeUp ==
  /\ Storing /\ edit.target # Device
  /\ interfaces' = [interfaces EXCEPT ![edit.target].up = Given(edit.second, @)]
  /\ EditEnds("ok")
  /\ UNCHANGED <<sessions, deviceInfo>>

storeHostname(hostname, timeout) ==
  /\ Reading /\ edit.target = Device
  /\ deviceInfo' = [deviceInfo EXCEPT !.hostname = Given(hostname, @)]
  /\ FirstStored(timeout)
  /\ UNCHANGED <<sessions, interfaces>>

storeTimeout ==
  /\ Storing /\ edit.target = Device
  /\ deviceInfo' = [deviceInfo EXCEPT !.timeout = Given(edit.second, @)]
  /\ EditEnds("ok")
  /\ UNCHANGED <<sessions, interfaces>>

------------------------------------------------------------------------------
(* The GUI thread, the server's life and time.                              *)

\* Slip: reset() leaves the sessions.
SlipStartNetworkKeepsSessions ==
  /\ ~serving
  /\ \E a, b \in Interface :
       a # b /\ interfaces' = [i \in {a, b} |-> [name |-> NoName, up |-> TRUE]]
  /\ deviceInfo' = DefaultDevice
  /\ before' = logins
  /\ Silence
  /\ UNCHANGED <<sessions, serving, edit, clock, logins, given>>

\* NetworkSwitch::startNetwork: reset() and both start().  No server runs then
\* (IdleMeansNoThread of SwitchLifecycle).
startNetwork ==
  /\ ~serving
  /\ \E a, b \in Interface :
       a # b /\ interfaces' = [i \in {a, b} |-> [name |-> NoName, up |-> TRUE]]
  /\ sessions' = Empty
  /\ deviceInfo' = DefaultDevice
  /\ before' = logins
  /\ Silence
  /\ UNCHANGED <<serving, edit, clock, logins, given>>

\* The server comes up on a running switch; the sessions outlive it.
startRest ==
  /\ ~serving /\ interfaces # Empty
  /\ serving' = TRUE
  /\ Silence
  /\ UNCHANGED <<storage, edit, clock, history>>

\* It may end at any moment: a handler that waits for a body is unwound, one that runs
\* is waited for.
serveEnds ==
  /\ serving /\ ~Storing
  /\ serving' = FALSE
  /\ edit' = NoEdit
  /\ Silence
  /\ UNCHANGED <<storage, clock, history>>

expired(age) == age > SessionTimeout

\* Slip: after an erase the iterator is advanced once more.
SlipUpdateSessionsSkips ==
  /\ edit = NoEdit
  /\ sessions' = Keep(sessions, LAMBDA t :
       \/ ~expired(sessions[t])
       \/ \E u \in DOMAIN sessions : u < t /\ expired(sessions[u]) /\ \A v \in (u + 1)..(t - 1) : v \notin DOMAIN sessions)
  /\ sincePurge' = 0 /\ denied' = 0
  /\ Silence
  /\ UNCHANGED <<interfaces, deviceInfo, serving, edit, history>>

updateSessions ==
  /\ edit = NoEdit
  /\ sessions' = Keep(sessions, LAMBDA t : ~expired(sessions[t]))
  /\ sincePurge' = 0 /\ denied' = 0
  /\ Silence
  /\ UNCHANGED <<interfaces, deviceInfo, serving, edit, history>>

clearSessions ==
  /\ edit = NoEdit
  /\ sessions' = Empty
  /\ Silence
  /\ UNCHANGED <<interfaces, deviceInfo, serving, edit, clock, history>>

setMacTimeout(d) ==
  /\ edit = NoEdit
  /\ deviceInfo' = [deviceInfo EXCEPT !.timeout = d]
  /\ Silence
  /\ UNCHANGED <<sessions, interfaces, serving, edit, clock, history>>

\* The purge is due every PurgeEvery, but a PUT that waits for its body keeps the GUI thread
\* from the mutex.
Tick ==
  /\ \/ /\ edit = NoEdit /\ sincePurge < PurgeEvery
        /\ sincePurge' = sincePurge + 1 /\ UNCHANGED denied
     \/ /\ Reading /\ denied < MaxDenied
        /\ denied' = denied + 1 /\ UNCHANGED sincePurge
  /\ sessions' = [t \in DOMAIN sessions |-> sessions[t] + 1]
  /\ Silence
  /\ UNCHANGED <<interfaces, deviceInfo, serving, edit, history>>

------------------------------------------------------------------------------

\* A PUT that has begun.
Edit ==
  \/ bodyUnreadable \/ noSuchInterface
  \/ \E name \in Optional(Name), up \in Optional(BOOLEAN) : storeName(name, up)
  \/ \E hostname \in Optional(Hostname), timeout \in Optional(MacTimeout) :
       storeHostname(hostname, timeout)
  \/ storeUp \/ storeTimeout

\* Clients may present any token that was ever handed out, or a wrong one.
Request ==
  \/ login \/ loginRefused \/ headerRefused
  \/ \E token \in 0..logins :
       \/ auth(token) \/ logout(token) \/ forbidden(token)
       \/ read(token) \/ badRequest(token)
       \/ \E i \in Id : getInterface(token, i)
       \/ \E target \in Id \cup {Device} : put(token, target)

Gui ==
  \/ startNetwork
  \/ startRest
  \/ clearSessions
  \/ \E d \in MacTimeout : setMacTimeout(d)

Next == Request \/ Edit \/ Gui \/ serveEnds \/ updateSessions \/ Tick

\* Time passes, a handler that has its body goes on, and the purge timer of the GUI gets the
\* mutex in the end if it is let go of again and again.
Fairness == SF_vars(Tick) /\ WF_vars(storeUp \/ storeTimeout) /\ SF_vars(updateSessions)

Spec == Init /\ [][Next]_vars /\ Fairness

------------------------------------------------------------------------------
(* Properties *)

Setting       == [name : Name, up : BOOLEAN]
DeviceSetting == [hostname : Hostname, timeout : MacTimeout]
Edits(n) ==
  [token : 1..n, target : Id \cup {Device}, stage : {"reading", "storing"},
   second : Optional(BOOLEAN) \cup Optional(MacTimeout),
   found : (UNION {[used -> Setting] : used \in SUBSET Interface}) \X DeviceSetting]

TypeOK ==
  /\ IsTable(sessions, 1..logins, Nat)
  /\ IsTable(interfaces, Interface, Setting)
  /\ deviceInfo \in DeviceSetting
  /\ serving \in BOOLEAN
  /\ edit \in {NoEdit} \cup Edits(logins)
  /\ sincePurge \in 0..PurgeEvery /\ denied \in 0..MaxDenied
  /\ answer \in [status : Response, token : Nat]
  /\ logins \in 0..MaxLogins
  /\ given \subseteq Token
  /\ before \in 0..logins

\* Every login is answered with the token of its own session: push_back and
\* back() are under one lock, and nothing else appends to the vector.
EachLoginItsOwn == given = 1..logins

\* The routes never look at the expiration: that a session ends is up to the
\* GUI's timer alone.  It outlives its timeout by no more than the timer's
\* period and the time that PUTs without a body took, whoever uses it and
\* however the server is stopped and started.
OverdueIsShort ==
  \A t \in DOMAIN sessions : sessions[t] <= SessionTimeout + PurgeEvery + denied

\* A new run of the switch knows none of the sessions of the run before, while
\* a new server in the same run knows them all.
NoSessionFromBefore == \A t \in DOMAIN sessions : t > before

\* A PUT that is answered with an error leaves the interfaces and the device as they were when
\* it took the mutex, however late its body comes: it stores nothing before it knows the id and
\* both parameters, and nobody else stores anything meanwhile.  No other refusal changes anything.
RefusedChangesNothing ==
  [][ answer'.status \in Refusal =>
        IF edit # NoEdit /\ edit' = NoEdit
        THEN <<interfaces', deviceInfo'>> = edit.found
        ELSE UNCHANGED storage ]_vars

\* No session lasts for ever, however much it is used, if the bodies of PUTs arrive.
SessionsEnd ==
  []<>~Reading => \A t \in Token : t \in DOMAIN sessions ~> t \notin DOMAIN sessions

------------------------------------------------------------------------------
(* Refinement: the sessions as tokens that are fresh or overdue.            *)

OpenTokens  == [t \in DOMAIN sessions |-> IF expired(sessions[t]) THEN "overdue" ELSE "fresh"]
SpentTokens == 1..logins
ServedToken == IF answer.status = "ok" THEN answer.token ELSE NoToken

Tokens == INSTANCE Authorisation
            WITH open <- OpenTokens, spent <- SpentTokens, served <- ServedToken

\* A token serves only from its own login to its own logout, its purge, a clear
\* or the next run of the switch.
ImplementsAuthorisation == Tokens!Spec

==============================================================================
