---------------------------- MODULE RestApi_proofs ----------------------------
(***************************************************************************)
(* Safety of the sessions and of the edits made through REST, for any      *)
(* number of logins, interfaces and ticks, and that the routes implement   *)
(* Authorisation.                                                          *)
(***************************************************************************)
EXTENDS RestApi, TLAPS

\* Only the time since the last purge may be added to the timeout.
OverdueSincePurge ==
  \A t \in DOMAIN sessions : sessions[t] <= SessionTimeout + sincePurge + denied

\* What a handler between two steps of a PUT relies on, because it holds the mutex: its
\* session is still there, and before it stores anything, all is as it found it.
EditHolds ==
  edit # NoEdit =>
    /\ serving
    /\ edit.token \in DOMAIN sessions
    /\ edit.stage = "reading" => edit.found = <<interfaces, deviceInfo>>
    /\ edit.stage = "storing" /\ edit.target = Device => edit.second \in Optional(MacTimeout)
    /\ edit.stage = "storing" /\ edit.target # Device =>
         edit.target \in DOMAIN interfaces /\ edit.second \in Optional(BOOLEAN)

IInv ==
  /\ TypeOK
  /\ EachLoginItsOwn
  /\ OverdueSincePurge
  /\ NoSessionFromBefore
  /\ EditHolds

------------------------------------------------------------------------------
(* Lemmas *)

LEMMA EmptyLemma ==
  ASSUME NEW K, NEW E PROVE IsTable(Empty, K, E) /\ DOMAIN Empty = {}
  BY DEF IsTable, Empty

LEMMA BackLemma ==
  ASSUME NEW n \in Nat, NEW S \in SUBSET (1..n)
  PROVE  Back(S \cup {n + 1}) = n + 1
<1> DEFINE T == S \cup {n + 1}
           P(t) == t \in T /\ \A u \in T : u <= t
<1>1. P(n + 1)
  OBVIOUS
<1>2. \A t : P(t) => t = n + 1
  OBVIOUS
<1> QED BY <1>1, <1>2 DEF Back

LEMMA GivenLemma ==
  ASSUME NEW S, NEW parameter \in Optional(S), NEW old \in S
  PROVE  Given(parameter, old) \in S
  BY DEF Optional, Given

LEMMA EditShape ==
  ASSUME TypeOK, edit # NoEdit
  PROVE  /\ edit \in Edits(logins)
         /\ edit.token \in 1..logins /\ edit.target \in Id \cup {Device}
         /\ edit.stage \in {"reading", "storing"}
  BY DEF TypeOK, Edits

LEMMA FoundLemma ==
  ASSUME TypeOK
  PROVE  <<interfaces, deviceInfo>> \in
           (UNION {[used -> Setting] : used \in SUBSET Interface}) \X DeviceSetting
<1>1. DOMAIN interfaces \in SUBSET Interface /\ interfaces \in [DOMAIN interfaces -> Setting]
  BY DEF TypeOK, IsTable
<1>2. interfaces \in UNION {[used -> Setting] : used \in SUBSET Interface}
  BY <1>1
<1> QED BY <1>2 DEF TypeOK

LEMMA InitInv == Init => IInv
<1> SUFFICES ASSUME Init PROVE IInv
  OBVIOUS
<1>1. DOMAIN Empty = {}
  BY DEF Empty
<1>2. IsTable(Empty, 1..0, Nat) /\ IsTable(Empty, Interface, Setting)
  BY EmptyLemma
<1>3. IsTable(sessions, 1..logins, Nat) /\ IsTable(interfaces, Interface, Setting)
  BY <1>2 DEF Init
<1>4. deviceInfo \in DeviceSetting /\ answer \in [status : Response, token : Nat]
  BY RestAssumption DEF Init, DefaultDevice, DeviceSetting, Response, NoToken
<1>5. serving \in BOOLEAN /\ edit = NoEdit
  BY DEF Init
<1>6. /\ sincePurge \in 0..PurgeEvery /\ denied \in 0..MaxDenied
      /\ logins \in 0..MaxLogins /\ given \subseteq Token /\ before \in 0..logins
  BY RestAssumption DEF Init
<1>7. TypeOK
  BY <1>3, <1>4, <1>5, <1>6 DEF TypeOK
<1> QED
  BY <1>1, <1>5, <1>7 DEF Init, IInv, EachLoginItsOwn, OverdueSincePurge, NoSessionFromBefore, EditHolds

------------------------------------------------------------------------------
(* The steps, by what they do to the sessions.                              *)

\* The sessions are left alone.
LEMMA QuietStep ==
  ASSUME IInv, UNCHANGED <<sessions, sincePurge, denied, logins, given, before>>,
         IsTable(interfaces', Interface, Setting),
         deviceInfo' \in DeviceSetting,
         serving' \in BOOLEAN,
         answer' \in [status : Response, token : Nat],
         edit' \in {NoEdit} \cup Edits(logins), EditHolds'
  PROVE  IInv'
<1>1. TypeOK'
  BY DEF IInv, TypeOK
<1> QED BY <1>1 DEF IInv, EachLoginItsOwn, OverdueSincePurge, NoSessionFromBefore

\* Nothing but the answer changes.
LEMMA AnswerStep ==
  ASSUME IInv, UNCHANGED <<storage, serving, edit, clock, history>>,
         answer' \in [status : Response, token : Nat]
  PROVE  IInv'
<1>1. UNCHANGED <<sessions, interfaces, deviceInfo, serving, edit, sincePurge, denied, logins, given, before>>
  BY DEF storage, clock, history
<1>2. EditHolds'
  BY <1>1 DEF IInv, EditHolds
<1> QED BY <1>1, <1>2, QuietStep DEF IInv, TypeOK

\* Some of the sessions are left, at the age they have.
LEMMA EraseStep ==
  ASSUME IInv, edit = NoEdit, UNCHANGED <<interfaces, deviceInfo, serving, edit, history>>,
         answer' \in [status : Response, token : Nat],
         NEW S \in SUBSET DOMAIN sessions,
         sessions' = [t \in S |-> sessions[t]],
         \/ UNCHANGED clock
         \/ sincePurge' = 0 /\ denied' = 0 /\ \A t \in S : sessions[t] <= SessionTimeout
  PROVE  IInv'
<1>1. DOMAIN sessions' = S /\ \A t \in S : sessions'[t] = sessions[t]
  OBVIOUS
<1>2. IsTable(sessions', 1..logins, Nat)
  BY <1>1 DEF IInv, TypeOK, IsTable
<1>3. TypeOK'
  BY <1>2, RestAssumption DEF IInv, TypeOK, history, clock
<1>4. OverdueSincePurge'
  <2>1. CASE UNCHANGED clock
    BY <1>1, <2>1 DEF IInv, OverdueSincePurge, clock
  <2>2. CASE sincePurge' = 0 /\ denied' = 0 /\ \A t \in S : sessions[t] <= SessionTimeout
    BY <1>1, <2>2, RestAssumption DEF OverdueSincePurge
  <2> QED BY <2>1, <2>2
<1>5. NoSessionFromBefore' /\ EditHolds'
  BY <1>1 DEF IInv, NoSessionFromBefore, EditHolds, history
<1> QED BY <1>3, <1>4, <1>5 DEF IInv, EachLoginItsOwn, history

LEMMA LoginStep == IInv /\ login => IInv'
<1> SUFFICES ASSUME IInv, login PROVE IInv'
  OBVIOUS
<1> USE DEF login, history
<1>1. /\ logins \in Nat /\ logins' = logins + 1
      /\ DOMAIN sessions \in SUBSET (1..logins)
      /\ \A t \in DOMAIN sessions : sessions[t] \in Nat
      /\ sincePurge \in Nat /\ denied \in Nat /\ UNCHANGED <<sincePurge, denied>>
  BY RestAssumption DEF IInv, TypeOK, IsTable, clock
<1>2. /\ DOMAIN sessions' = DOMAIN sessions \cup {logins + 1}
      /\ sessions'[logins + 1] = 0
      /\ \A t \in DOMAIN sessions : sessions'[t] = sessions[t]
      /\ sessions' = [t \in DOMAIN sessions' |-> sessions'[t]]
  BY <1>1 DEF Insert
<1>3. Back(DOMAIN sessions') = logins + 1
  BY <1>1, <1>2, BackLemma
<1>4. given' = given \cup {logins + 1} /\ answer' = [status |-> "token", token |-> logins + 1]
  BY <1>3 DEF Answer
<1>5. EachLoginItsOwn'
  BY <1>1, <1>4 DEF IInv, EachLoginItsOwn
<1>6. IsTable(sessions', 1..logins', Nat)
  BY <1>1, <1>2 DEF IsTable
<1>7. TypeOK'
  <2>1. given' \subseteq Token /\ logins' \in 0..MaxLogins /\ before' \in 0..logins'
    <3>1. given \subseteq Token /\ before \in 0..logins
      BY DEF IInv, TypeOK
    <3>2. logins < MaxLogins /\ UNCHANGED before
      OBVIOUS
    <3> HIDE DEF login
    <3> QED BY <1>1, <1>4, <3>1, <3>2, RestAssumption DEF Token
  <2>2. answer' \in [status : Response, token : Nat]
    BY <1>1, <1>4 DEF Response
  <2>3. UNCHANGED <<interfaces, deviceInfo, serving, edit>> /\ edit = NoEdit
    OBVIOUS
  <2> HIDE DEF login
  <2> QED BY <1>1, <1>6, <2>1, <2>2, <2>3 DEF IInv, TypeOK
<1>8. OverdueSincePurge'
  <2>1. \A t \in DOMAIN sessions : sessions[t] <= SessionTimeout + sincePurge + denied
    BY DEF IInv, OverdueSincePurge
  <2> HIDE DEF login
  <2> QED BY <1>1, <1>2, <2>1, RestAssumption DEF OverdueSincePurge
<1>9. NoSessionFromBefore' /\ EditHolds'
  BY <1>1, <1>2 DEF IInv, TypeOK, NoSessionFromBefore, EditHolds
<1> QED BY <1>5, <1>7, <1>8, <1>9 DEF IInv

LEMMA TickStep == IInv /\ Tick => IInv'
<1> SUFFICES ASSUME IInv, Tick PROVE IInv'
  OBVIOUS
<1>1. /\ DOMAIN sessions \in SUBSET (1..logins)
      /\ \A t \in DOMAIN sessions : sessions[t] \in Nat
      /\ sincePurge \in 0..PurgeEvery /\ denied \in 0..MaxDenied
  BY DEF IInv, TypeOK, IsTable
<1>2. /\ sincePurge' \in 0..PurgeEvery /\ denied' \in 0..MaxDenied
      /\ sincePurge' + denied' = sincePurge + denied + 1
  BY <1>1, RestAssumption DEF Tick
<1>3. /\ DOMAIN sessions' = DOMAIN sessions
      /\ \A t \in DOMAIN sessions : sessions'[t] = sessions[t] + 1
      /\ sessions' = [t \in DOMAIN sessions' |-> sessions'[t]]
  BY DEF Tick
<1>4. UNCHANGED <<interfaces, deviceInfo, serving, edit, logins, given, before>>
  BY DEF Tick, history
<1>5. IsTable(sessions', 1..logins', Nat)
  BY <1>1, <1>3, <1>4 DEF IsTable
<1>6. answer' \in [status : Response, token : Nat]
  BY DEF Tick, Silence, Answer, Response, NoToken
<1>7. TypeOK'
  BY <1>2, <1>4, <1>5, <1>6 DEF IInv, TypeOK
<1>8. OverdueSincePurge'
  <2>1. \A t \in DOMAIN sessions : sessions[t] <= SessionTimeout + sincePurge + denied
    BY DEF IInv, OverdueSincePurge
  <2> QED BY <1>1, <1>2, <1>3, <2>1, RestAssumption DEF OverdueSincePurge
<1>9. NoSessionFromBefore' /\ EditHolds'
  BY <1>3, <1>4 DEF IInv, NoSessionFromBefore, EditHolds
<1> QED BY <1>4, <1>7, <1>8, <1>9 DEF IInv, EachLoginItsOwn

LEMMA StartNetworkStep == IInv /\ startNetwork => IInv'
<1> SUFFICES ASSUME IInv, startNetwork PROVE IInv'
  OBVIOUS
<1> USE DEF startNetwork
<1>1. PICK a, b \in Interface : interfaces' = [i \in {a, b} |-> [name |-> NoName, up |-> TRUE]]
  OBVIOUS
<1>2. IsTable(interfaces', Interface, Setting)
  BY <1>1, RestAssumption DEF IsTable, Setting
<1>3. IsTable(sessions', 1..logins', Nat) /\ DOMAIN sessions' = {}
  BY EmptyLemma
<1>4. edit = NoEdit /\ UNCHANGED <<edit, sincePurge, denied>>
  BY DEF IInv, EditHolds, clock
<1>5. answer' \in [status : Response, token : Nat]
  BY DEF Silence, Answer, Response, NoToken
<1>6. deviceInfo' \in DeviceSetting
  BY RestAssumption DEF DefaultDevice, DeviceSetting
<1>7. before' \in 0..logins' /\ UNCHANGED <<logins, given, serving>>
  BY RestAssumption DEF IInv, TypeOK
<1>8. TypeOK'
  BY <1>2, <1>3, <1>4, <1>5, <1>6, <1>7 DEF IInv, TypeOK
<1> QED BY <1>3, <1>4, <1>8
        DEF IInv, EachLoginItsOwn, OverdueSincePurge, NoSessionFromBefore, EditHolds

\* The routes that are done in one section.
Route(token) ==
  \/ auth(token) \/ logout(token) \/ forbidden(token) \/ read(token) \/ badRequest(token)
  \/ \E i \in Id : getInterface(token, i)

LEMMA RouteStep ==
  ASSUME IInv, NEW token \in 0..logins, Route(token)
  PROVE  IInv'
<1>1. token \in Nat /\ \A status \in Response : [status |-> status, token |-> token] \in [status : Response, token : Nat]
  BY DEF IInv, TypeOK
<1>2. ASSUME NEW status \in Response, Reply(status, token)
      PROVE  answer' \in [status : Response, token : Nat]
  BY <1>1, <1>2 DEF Reply, Answer
<1>3. {"ok", "no", "forbidden", "notFound", "badRequest"} \subseteq Response
  BY DEF Response, Refusal
<1>4. ASSUME UNCHANGED storage, NEW status \in Response, Reply(status, token) PROVE IInv'
  BY <1>2, <1>4, AnswerStep DEF Reply
<1>5. CASE auth(token)
  BY <1>3, <1>4, <1>5 DEF auth
<1>6. CASE logout(token)
  <2>1. answer' \in [status : Response, token : Nat]
    BY <1>2, <1>3, <1>6 DEF logout
  <2>2. sessions' = [t \in DOMAIN sessions \ {token} |-> sessions[t]]
    BY <1>6 DEF logout, Without
  <2> QED BY <1>6, <2>1, <2>2, EraseStep DEF logout, Reply
<1>7. CASE forbidden(token) \/ read(token) \/ badRequest(token)
  BY <1>3, <1>4, <1>7 DEF forbidden, read, badRequest
<1>8. ASSUME NEW i \in Id, getInterface(token, i) PROVE IInv'
  BY <1>3, <1>4, <1>8 DEF getInterface
<1> QED BY <1>5, <1>6, <1>7, <1>8 DEF Route

LEMMA PutStep ==
  ASSUME IInv, NEW token \in 0..logins, NEW target \in Id \cup {Device}, put(token, target)
  PROVE  IInv'
<1>1. token \in DOMAIN sessions /\ token \in 1..logins /\ serving
  BY DEF put, Authorised, IInv, TypeOK, IsTable
<1>2. edit' = [token |-> token, target |-> target, stage |-> "reading", second |-> {},
               found |-> <<interfaces, deviceInfo>>]
  BY DEF put
<1>3. {} \in Optional(BOOLEAN)
  BY DEF Optional
<1>4. <<interfaces, deviceInfo>> \in
        (UNION {[used -> Setting] : used \in SUBSET Interface}) \X DeviceSetting
  BY FoundLemma DEF IInv
<1>5. edit' \in Edits(logins)
  BY <1>1, <1>2, <1>3, <1>4 DEF Edits
<1>6. UNCHANGED <<sessions, interfaces, deviceInfo, serving, sincePurge, denied, logins, given, before>>
  BY DEF put, storage, clock, history
<1>7. EditHolds'
  BY <1>1, <1>2, <1>6 DEF EditHolds
<1>8. answer' \in [status : Response, token : Nat]
  BY DEF put, Silence, Answer, Response, NoToken
<1> QED BY <1>5, <1>6, <1>7, <1>8, QuietStep DEF IInv, TypeOK

\* A PUT that ends, and one that goes on to its second parameter.
LEMMA EditEndsStep ==
  ASSUME IInv, edit # NoEdit, NEW status \in Response, EditEnds(status), UNCHANGED sessions,
         IsTable(interfaces', Interface, Setting), deviceInfo' \in DeviceSetting
  PROVE  IInv'
<1>1. UNCHANGED <<serving, sincePurge, denied, logins, given, before>> /\ edit' = NoEdit
  BY DEF EditEnds, clock, history
<1>2. edit.token \in Nat
  BY EditShape DEF IInv, TypeOK
<1>3. answer' \in [status : Response, token : Nat]
  BY <1>2 DEF EditEnds, Answer
<1>4. EditHolds'
  BY <1>1 DEF EditHolds
<1> QED BY <1>1, <1>3, <1>4, QuietStep DEF IInv, TypeOK

LEMMA FirstStoredStep ==
  ASSUME IInv, Reading, NEW second, FirstStored(second), UNCHANGED sessions,
         \/ edit.target = Device /\ second \in Optional(MacTimeout)
         \/ edit.target # Device /\ edit.target \in DOMAIN interfaces' /\ second \in Optional(BOOLEAN),
         IsTable(interfaces', Interface, Setting), deviceInfo' \in DeviceSetting
  PROVE  IInv'
<1>1. UNCHANGED <<serving, sincePurge, denied, logins, given, before>>
  BY DEF FirstStored, clock, history
<1>2. edit \in Edits(logins)
  BY EditShape DEF IInv, Reading
<1>3. /\ edit' \in Edits(logins) /\ edit'.stage = "storing" /\ edit'.second = second
      /\ edit'.target = edit.target /\ edit'.token = edit.token
  BY <1>2 DEF FirstStored, Edits
<1>4. EditHolds'
  BY <1>1, <1>3 DEF IInv, EditHolds, Reading
<1>5. answer' \in [status : Response, token : Nat]
  BY DEF FirstStored, Silence, Answer, Response, NoToken
<1> QED BY <1>1, <1>3, <1>4, <1>5, QuietStep DEF IInv, TypeOK

LEMMA EditStep == IInv /\ Edit => IInv'
<1> SUFFICES ASSUME IInv, Edit PROVE IInv'
  OBVIOUS
<1>1. /\ IsTable(interfaces, Interface, Setting) /\ deviceInfo \in DeviceSetting
      /\ {"ok", "notFound", "badRequest"} \subseteq Response
  BY DEF IInv, TypeOK, Response, Refusal
<1>2. CASE bodyUnreadable
  BY <1>1, <1>2, EditEndsStep DEF bodyUnreadable, Reading, storage
<1>3. CASE noSuchInterface
  BY <1>1, <1>3, EditEndsStep DEF noSuchInterface, Reading, storage
<1>4. ASSUME NEW name \in Optional(Name), NEW up \in Optional(BOOLEAN), storeName(name, up)
      PROVE  IInv'
  <2>1. /\ edit.target \in DOMAIN interfaces /\ Reading /\ FirstStored(up)
        /\ interfaces' = [interfaces EXCEPT ![edit.target].name = Given(name, interfaces[edit.target].name)]
        /\ UNCHANGED <<sessions, deviceInfo>>
    BY <1>4 DEF storeName
  <2>2. interfaces[edit.target] \in Setting
    BY <1>1, <2>1 DEF IsTable
  <2>3. Given(name, interfaces[edit.target].name) \in Name
    BY <2>2, GivenLemma DEF Setting
  <2>4. IsTable(interfaces', Interface, Setting) /\ DOMAIN interfaces' = DOMAIN interfaces
    BY <1>1, <2>1, <2>2, <2>3 DEF IsTable, Setting
  <2>5. edit.target # Device
    BY <1>1, <2>1, RestAssumption DEF IsTable
  <2> QED BY <1>1, <2>1, <2>4, <2>5, FirstStoredStep
<1>5. ASSUME NEW hostname \in Optional(Hostname), NEW timeout \in Optional(MacTimeout),
             storeHostname(hostname, timeout)
      PROVE  IInv'
  <2>1. /\ edit.target = Device /\ Reading /\ FirstStored(timeout)
        /\ deviceInfo' = [deviceInfo EXCEPT !.hostname = Given(hostname, deviceInfo.hostname)]
        /\ UNCHANGED <<sessions, interfaces>>
    BY <1>5 DEF storeHostname
  <2>2. Given(hostname, deviceInfo.hostname) \in Hostname
    BY <1>1, GivenLemma DEF DeviceSetting
  <2>3. deviceInfo' \in DeviceSetting
    BY <1>1, <2>1, <2>2 DEF DeviceSetting
  <2> QED BY <1>1, <2>1, <2>3, FirstStoredStep
<1>6. CASE storeUp
  <2>1. /\ edit # NoEdit /\ edit.stage = "storing" /\ edit.target # Device /\ EditEnds("ok")
        /\ interfaces' = [interfaces EXCEPT ![edit.target].up = Given(edit.second, interfaces[edit.target].up)]
        /\ UNCHANGED <<sessions, deviceInfo>>
    BY <1>6 DEF storeUp, Storing
  <2>2. edit.target \in DOMAIN interfaces /\ edit.second \in Optional(BOOLEAN)
    BY <2>1 DEF IInv, EditHolds
  <2>3. interfaces[edit.target] \in Setting
    BY <1>1, <2>2 DEF IsTable
  <2>4. Given(edit.second, interfaces[edit.target].up) \in BOOLEAN
    BY <2>2, <2>3, GivenLemma DEF Setting
  <2>5. IsTable(interfaces', Interface, Setting)
    BY <1>1, <2>1, <2>2, <2>3, <2>4 DEF IsTable, Setting
  <2> QED BY <1>1, <2>1, <2>5, EditEndsStep
<1>7. CASE storeTimeout
  <2>1. /\ edit # NoEdit /\ edit.stage = "storing" /\ edit.target = Device /\ EditEnds("ok")
        /\ deviceInfo' = [deviceInfo EXCEPT !.timeout = Given(edit.second, deviceInfo.timeout)]
        /\ UNCHANGED <<sessions, interfaces>>
    BY <1>7 DEF storeTimeout, Storing
  <2>2. edit.second \in Optional(MacTimeout)
    BY <2>1 DEF IInv, EditHolds
  <2>3. Given(edit.second, deviceInfo.timeout) \in MacTimeout
    BY <1>1, <2>2, GivenLemma DEF DeviceSetting
  <2>4. deviceInfo' \in DeviceSetting
    BY <1>1, <2>1, <2>3 DEF DeviceSetting
  <2> QED BY <1>1, <2>1, <2>4, EditEndsStep
<1> QED BY <1>2, <1>3, <1>4, <1>5, <1>6, <1>7 DEF Edit

LEMMA InvStep == IInv /\ [Next]_vars => IInv'
<1> SUFFICES ASSUME IInv, [Next]_vars PROVE IInv'
  OBVIOUS
<1>1. Silence => answer' \in [status : Response, token : Nat]
  BY DEF Silence, Answer, Response, NoToken
<1>2. TypeOK
  BY DEF IInv
<1>3. CASE login
  BY <1>3, LoginStep
<1>4. CASE loginRefused \/ headerRefused
  <2>1. PICK status \in Refusal : RefusedAtOnce(status)
    BY <1>4 DEF loginRefused, headerRefused, Refusal
  <2>2. answer' \in [status : Response, token : Nat]
    BY <2>1 DEF RefusedAtOnce, Answer, Response, NoToken
  <2> QED BY <2>1, <2>2, AnswerStep DEF RefusedAtOnce
<1>5. CASE startRest
  <2>1. edit = NoEdit
    BY <1>5 DEF IInv, EditHolds, startRest
  <2>2. EditHolds'
    BY <1>5, <2>1 DEF startRest, EditHolds
  <2> QED BY <1>1, <1>2, <1>5, <2>2, QuietStep DEF TypeOK, startRest, storage, clock, history
<1>6. CASE serveEnds
  <2>1. edit' = NoEdit
    BY <1>6 DEF serveEnds
  <2>2. EditHolds'
    BY <2>1 DEF EditHolds
  <2> QED BY <1>1, <1>2, <1>6, <2>1, <2>2, QuietStep DEF TypeOK, serveEnds, storage, clock, history
<1>7. CASE clearSessions
  <2>1. sessions' = [t \in {} |-> sessions[t]]
    BY <1>7 DEF clearSessions, Empty
  <2> QED BY <1>1, <1>7, <2>1, EraseStep DEF clearSessions
<1>8. CASE updateSessions
  <2>1. sessions' = [t \in {u \in DOMAIN sessions : ~expired(sessions[u])} |-> sessions[t]]
    BY <1>8 DEF updateSessions, Keep
  <2>2. \A t \in DOMAIN sessions : ~expired(sessions[t]) => sessions[t] <= SessionTimeout
    BY <1>2, RestAssumption DEF TypeOK, IsTable, expired
  <2> QED BY <1>1, <1>8, <2>1, <2>2, EraseStep DEF updateSessions
<1>9. ASSUME NEW d \in MacTimeout, setMacTimeout(d) PROVE IInv'
  <2>1. EditHolds'
    BY <1>9 DEF setMacTimeout, EditHolds
  <2>2. deviceInfo' \in DeviceSetting
    BY <1>2, <1>9 DEF setMacTimeout, TypeOK, DeviceSetting
  <2> QED BY <1>1, <1>2, <1>9, <2>1, <2>2, QuietStep DEF TypeOK, setMacTimeout, clock, history
<1>10. CASE UNCHANGED vars
  BY <1>2, <1>10, AnswerStep DEF TypeOK, vars
<1> QED
  BY <1>3, <1>4, <1>5, <1>6, <1>7, <1>8, <1>9, <1>10, RouteStep, PutStep, EditStep, TickStep,
     StartNetworkStep
  DEF Next, Request, Gui, Route

------------------------------------------------------------------------------
(* Theorems *)

\* The invariant above holds in every reachable state.
THEOREM Inductive == Spec => []IInv
<1>1. Init => IInv
  BY InitInv
<1>2. IInv /\ [Next]_vars => IInv'
  BY InvStep
<1> QED BY <1>1, <1>2, PTL DEF Spec

\* The storage keeps its types, whatever is edited.
THEOREM TypeCorrect == Spec => []TypeOK
<1>1. IInv => TypeOK
  BY DEF IInv
<1> QED BY <1>1, Inductive, PTL

\* POST /login answers every client with the token of its own session.
THEOREM LoginsAreApart == Spec => []EachLoginItsOwn
<1>1. IInv => EachLoginItsOwn
  BY DEF IInv
<1> QED BY <1>1, Inductive, PTL

\* An expired session lives on no longer than the period of the purge and the time that
\* PUTs waited for their bodies.
THEOREM NotLongOverdue == Spec => []OverdueIsShort
<1>1. IInv => OverdueIsShort
  <2> SUFFICES ASSUME IInv, NEW t \in DOMAIN sessions
               PROVE  sessions[t] <= SessionTimeout + PurgeEvery + denied
    BY DEF OverdueIsShort
  <2>1. sessions[t] \in Nat /\ sincePurge \in 0..PurgeEvery /\ denied \in 0..MaxDenied
    BY DEF IInv, TypeOK, IsTable
  <2>2. sessions[t] <= SessionTimeout + sincePurge + denied
    BY DEF IInv, OverdueSincePurge
  <2> QED BY <2>1, <2>2, RestAssumption
<1> QED BY <1>1, Inductive, PTL

\* No session outlives the run of the switch it was opened in.
THEOREM RunsAreApart == Spec => []NoSessionFromBefore
<1>1. IInv => NoSessionFromBefore
  BY DEF IInv
<1> QED BY <1>1, Inductive, PTL

\* However late the body of a PUT comes, and whatever else the clients, the timers and the
\* window do meanwhile: if it is refused, everything is as it was when its handler began.
THEOREM RefusalIsHarmless == Spec => RefusedChangesNothing
<1> DEFINE R == answer'.status \in Refusal =>
                  IF edit # NoEdit /\ edit' = NoEdit
                  THEN <<interfaces', deviceInfo'>> = edit.found
                  ELSE UNCHANGED storage
<1>1. ASSUME IInv, [Next]_vars PROVE R \/ UNCHANGED vars
  <2>1. Silence => R
    BY DEF Silence, Answer, Refusal
  <2>2. ASSUME NEW status, NEW token, Reply(status, token), status \notin Refusal \/ UNCHANGED storage
        PROVE  R
    BY <2>2 DEF Reply, Answer
  <2>3. {"ok", "no", "token"} \cap Refusal = {}
    BY DEF Refusal
  <2>4. login => R
    BY <2>3 DEF login, Answer
  <2>5. ASSUME NEW status, RefusedAtOnce(status) PROVE R
    BY <2>5 DEF RefusedAtOnce
  <2>6. ASSUME NEW token PROVE Route(token) => R
    BY <2>2, <2>3 DEF Route, auth, logout, forbidden, read, badRequest, getInterface
  <2>7. bodyUnreadable \/ noSuchInterface => R
    BY <1>1 DEF bodyUnreadable, noSuchInterface, Reading, IInv, EditHolds, storage
  <2>8. storeUp \/ storeTimeout => R
    BY <2>3 DEF storeUp, storeTimeout, EditEnds, Answer
  <2>9. ASSUME NEW name, NEW up PROVE storeName(name, up) \/ storeHostname(name, up) => R
    BY <2>1 DEF storeName, storeHostname, FirstStored
  <2>10. ASSUME NEW token, NEW target PROVE put(token, target) => R
    BY <2>1 DEF put
  <2> HIDE DEF R
  <2> QED
    BY <1>1, <2>1, <2>4, <2>5, <2>6, <2>7, <2>8, <2>9, <2>10
    DEF Next, Request, Edit, Route, Gui, loginRefused, headerRefused, startNetwork, startRest, serveEnds,
        updateSessions, clearSessions, setMacTimeout, Tick
<1>2. IInv /\ [Next]_vars => [R]_vars
  BY <1>1
<1> QED BY <1>2, Inductive, PTL DEF Spec, RefusedChangesNothing

------------------------------------------------------------------------------
(* The refinement *)

LEMMA ServedLemma ==
  ASSUME NEW status \in Response, NEW token \in Nat, Answer(status, token)
  PROVE  ServedToken' = IF status = "ok" THEN token ELSE NoToken
  BY DEF Answer, ServedToken

LEMMA SilenceLemma == Silence => ServedToken' = NoToken
  BY DEF Silence, Answer, ServedToken

LEMMA SameSessions ==
  ASSUME UNCHANGED <<sessions, logins>>
  PROVE  UNCHANGED <<OpenTokens, SpentTokens>>
  BY DEF OpenTokens, SpentTokens, expired

LEMMA Refused ==
  ASSUME UNCHANGED <<sessions, logins>>, ServedToken' = NoToken
  PROVE  Tokens!Next
  BY SameSessions DEF Tokens!Next, Tokens!Refuse, Tokens!Nobody

LEMMA Cleared ==
  ASSUME sessions' = Empty, Silence, UNCHANGED logins
  PROVE  Tokens!Next
<1>1. OpenTokens' = [t \in {} |-> OpenTokens[t]]
  BY DEF OpenTokens, Empty
<1>2. UNCHANGED SpentTokens
  BY DEF SpentTokens
<1> QED BY <1>1, <1>2, SilenceLemma DEF Tokens!Next, Tokens!Clear, Tokens!Left, Tokens!Nobody

LEMMA LoginOpens == IInv /\ login => Tokens!Next
<1> SUFFICES ASSUME IInv, login PROVE Tokens!Open
  BY DEF Tokens!Next
<1>1. /\ logins \in Nat /\ logins < MaxLogins /\ logins' = logins + 1
      /\ DOMAIN sessions \in SUBSET (1..logins)
  BY RestAssumption DEF IInv, TypeOK, IsTable, login
<1>2. logins + 1 \in Token \ SpentTokens /\ SpentTokens' = SpentTokens \cup {logins + 1}
  BY <1>1, RestAssumption DEF Token, SpentTokens
<1>3. /\ DOMAIN sessions' = DOMAIN sessions \cup {logins + 1}
      /\ sessions'[logins + 1] = 0
      /\ \A t \in DOMAIN sessions : sessions'[t] = sessions[t]
  BY <1>1 DEF Insert, login
<1>4. ~expired(0)
  BY RestAssumption DEF expired
<1>5. OpenTokens' = [u \in DOMAIN OpenTokens \cup {logins + 1} |->
                       IF u = logins + 1 THEN "fresh" ELSE OpenTokens[u]]
  BY <1>1, <1>3, <1>4 DEF OpenTokens, expired
<1>6. ServedToken' = NoToken
  BY DEF login, Answer, ServedToken
<1> QED BY <1>2, <1>5, <1>6 DEF Tokens!Open, Tokens!Nobody

LEMMA TickGrows == IInv /\ Tick => Tokens!Next
<1> SUFFICES ASSUME IInv, Tick PROVE Tokens!Grow
  BY DEF Tokens!Next
<1> DEFINE S == {t \in DOMAIN sessions : expired(sessions[t] + 1)}
<1>1. \A t \in DOMAIN sessions : sessions[t] \in Nat
  BY DEF IInv, TypeOK, IsTable
<1>2. \A t \in DOMAIN sessions : expired(sessions[t]) => expired(sessions[t] + 1)
  BY <1>1, RestAssumption DEF expired
<1>3. sessions' = [t \in DOMAIN sessions |-> sessions[t] + 1]
  BY DEF Tick
<1>4. OpenTokens' = [t \in DOMAIN OpenTokens |-> IF t \in S THEN "overdue" ELSE OpenTokens[t]]
  BY <1>2, <1>3 DEF OpenTokens, expired
<1>5. UNCHANGED SpentTokens /\ ServedToken' = NoToken
  BY SilenceLemma DEF Tick, history, SpentTokens
<1>6. S \in SUBSET DOMAIN OpenTokens
  BY DEF OpenTokens
<1> QED BY <1>4, <1>5, <1>6 DEF Tokens!Grow, Tokens!Nobody

LEMMA PurgePurges == IInv /\ updateSessions => Tokens!Next
<1> SUFFICES ASSUME IInv, updateSessions PROVE Tokens!Purge
  BY DEF Tokens!Next
<1>1. sessions' = [t \in {u \in DOMAIN sessions : ~expired(sessions[u])} |-> sessions[t]]
  BY DEF updateSessions, Keep
<1>2. {t \in DOMAIN OpenTokens : OpenTokens[t] = "fresh"} = {u \in DOMAIN sessions : ~expired(sessions[u])}
  BY DEF OpenTokens
<1>3. OpenTokens' = [t \in {u \in DOMAIN sessions : ~expired(sessions[u])} |-> OpenTokens[t]]
  BY <1>1 DEF OpenTokens, expired
<1>4. UNCHANGED SpentTokens /\ ServedToken' = NoToken
  BY SilenceLemma DEF updateSessions, history, SpentTokens
<1> QED BY <1>2, <1>3, <1>4 DEF Tokens!Purge, Tokens!Left, Tokens!Nobody

\* An answer that leaves the sessions alone.
LEMMA AnswerServes ==
  ASSUME NEW status \in Response, NEW token \in Nat, Answer(status, token),
         UNCHANGED <<sessions, logins>>, status = "ok" => token \in DOMAIN sessions
  PROVE  Tokens!Next
<1>1. ServedToken' = IF status = "ok" THEN token ELSE NoToken
  BY ServedLemma
<1>2. CASE status # "ok"
  BY <1>1, <1>2, Refused
<1>3. CASE status = "ok"
  BY <1>1, <1>3, SameSessions DEF Tokens!Next, Tokens!Serve, OpenTokens
<1> QED BY <1>2, <1>3

LEMMA RouteServes ==
  ASSUME IInv, NEW token \in 0..logins, Route(token)
  PROVE  Tokens!Next
<1>1. token \in Nat
  BY DEF IInv, TypeOK
<1>2. ASSUME NEW status \in Response, Reply(status, token), UNCHANGED sessions,
             status = "ok" => Authorised(token)
      PROVE  Tokens!Next
  BY <1>1, <1>2, AnswerServes DEF Reply, history, Authorised
<1>3. CASE logout(token)
  <2>1. ServedToken' = token
    BY <1>1, <1>3, ServedLemma DEF logout, Reply, Response
  <2>2. sessions' = [t \in DOMAIN sessions \ {token} |-> sessions[t]]
    BY <1>3 DEF logout, Without
  <2>3. OpenTokens' = [t \in DOMAIN OpenTokens \ {token} |-> OpenTokens[t]]
    BY <2>2 DEF OpenTokens, expired
  <2>4. token \in DOMAIN OpenTokens /\ UNCHANGED SpentTokens
    BY <1>3 DEF logout, Authorised, OpenTokens, Reply, history, SpentTokens
  <2> QED BY <2>1, <2>3, <2>4 DEF Tokens!Next, Tokens!Close, Tokens!Left
<1>4. {"ok", "no", "forbidden", "notFound", "badRequest"} \subseteq Response
  BY DEF Response, Refusal
<1>5. CASE auth(token)
  BY <1>2, <1>4, <1>5 DEF auth, storage
<1>6. CASE forbidden(token) \/ read(token) \/ badRequest(token)
  BY <1>2, <1>4, <1>6 DEF forbidden, read, badRequest, storage
<1>7. ASSUME NEW i \in Id, getInterface(token, i) PROVE Tokens!Next
  BY <1>2, <1>4, <1>7 DEF getInterface, storage
<1> QED BY <1>3, <1>5, <1>6, <1>7 DEF Route

\* A PUT serves the token it began with, whose session cannot go while it holds the mutex.
LEMMA EditServes == IInv /\ Edit => Tokens!Next
<1> SUFFICES ASSUME IInv, Edit PROVE Tokens!Next
  OBVIOUS
<1>1. ASSUME NEW status \in Response, edit # NoEdit, EditEnds(status), UNCHANGED sessions
      PROVE  Tokens!Next
  <2>1. edit.token \in Nat /\ edit.token \in DOMAIN sessions
    BY <1>1, EditShape DEF IInv, EditHolds, TypeOK
  <2> QED BY <1>1, <2>1, AnswerServes DEF EditEnds, history
<1>2. {"ok", "notFound", "badRequest"} \subseteq Response
  BY DEF Response, Refusal
<1>3. CASE bodyUnreadable \/ noSuchInterface
  BY <1>1, <1>2, <1>3 DEF bodyUnreadable, noSuchInterface, Reading, storage
<1>4. CASE storeUp \/ storeTimeout
  BY <1>1, <1>2, <1>4 DEF storeUp, storeTimeout, Storing
<1>5. ASSUME NEW second, FirstStored(second), UNCHANGED sessions PROVE Tokens!Next
  BY <1>5, Refused, SilenceLemma DEF FirstStored, history
<1>6. ASSUME NEW name, NEW up, storeName(name, up) \/ storeHostname(name, up) PROVE Tokens!Next
  BY <1>5, <1>6 DEF storeName, storeHostname
<1> QED BY <1>3, <1>4, <1>6 DEF Edit

LEMMA StepRefines == IInv /\ [Next]_vars => [Tokens!Next]_(Tokens!vars)
<1> SUFFICES ASSUME IInv, [Next]_vars PROVE Tokens!Next \/ UNCHANGED Tokens!vars
  OBVIOUS
<1>1. CASE loginRefused \/ headerRefused
  <2>1. PICK status \in Refusal : RefusedAtOnce(status)
    BY <1>1 DEF loginRefused, headerRefused, Refusal
  <2>2. ServedToken' = NoToken
    BY <2>1 DEF RefusedAtOnce, Answer, ServedToken, Refusal
  <2> QED BY <2>1, <2>2, Refused DEF RefusedAtOnce, storage, history
<1>2. CASE startRest
  BY <1>2, Refused, SilenceLemma DEF startRest, storage, history
<1>3. CASE serveEnds
  BY <1>3, Refused, SilenceLemma DEF serveEnds, storage, history
<1>4. CASE clearSessions
  BY <1>4, Cleared DEF clearSessions, history
<1>5. CASE startNetwork
  BY <1>5, Cleared DEF startNetwork
<1>6. ASSUME NEW d \in MacTimeout, setMacTimeout(d) PROVE Tokens!Next
  BY <1>6, Refused, SilenceLemma DEF setMacTimeout, history
<1>7. ASSUME NEW token, NEW target, put(token, target) PROVE Tokens!Next
  BY <1>7, Refused, SilenceLemma DEF put, storage, history
<1>8. CASE UNCHANGED vars
  BY <1>8, SameSessions DEF Tokens!vars, vars, storage, history, ServedToken
<1> QED
  BY <1>1, <1>2, <1>3, <1>4, <1>5, <1>6, <1>7, <1>8, LoginOpens, TickGrows, PurgePurges,
     RouteServes, EditServes
  DEF Next, Request, Gui, Route

\* A token serves from its own login to its own logout, purge or clear, and
\* is never handed out again: the routes and the GUI's purge implement the
\* abstract authorisation.
THEOREM ServesOnlyTheOpen == Spec => ImplementsAuthorisation
<1>1. Init => Tokens!Init
  BY DEF Init, Tokens!Init, OpenTokens, SpentTokens, ServedToken, Empty
<1>2. IInv /\ [Next]_vars => [Tokens!Next]_(Tokens!vars)
  BY StepRefines
<1> QED BY <1>1, <1>2, Inductive, PTL DEF Spec, ImplementsAuthorisation, Tokens!Spec

------------------------------------------------------------------------------
(* What the refinement does not see: the ages, and a step that serves the   *)
(* token that was served last, which may pass for a stutter.                *)

\* Whoever is answered "ok" holds the token of a session that is in the
\* vector when the handler looks, also right after the logout that closed it.
ServesTheAuthorised ==
  [][answer'.status = "ok" => answer'.token \in DOMAIN sessions]_vars

\* A session that was closed, purged, cleared or left behind by a restart does
\* not come back: no later login, edit or start gives its token a session.
ClosedForGood ==
  [][\A t \in 1..logins : t \notin DOMAIN sessions => t \notin DOMAIN sessions']_vars

\* No request makes a session younger, and every tick makes it older.  With
\* OverdueIsShort it is open for at most SessionTimeout + PurgeEvery + MaxDenied ticks.
NeverRenewed ==
  [][\A t \in DOMAIN sessions \cap DOMAIN sessions' :
       sessions'[t] = sessions[t] + (IF Tick THEN 1 ELSE 0)]_vars

\* No route serves a request without a session, whatever was served before.
THEOREM NobodySlipsIn == Spec => ServesTheAuthorised
<1> DEFINE A == answer'.status = "ok" => answer'.token \in DOMAIN sessions
<1>1. ASSUME IInv, [Next]_vars PROVE A \/ UNCHANGED vars
  <2>1. Silence => A
    BY DEF Silence, Answer
  <2>2. ASSUME NEW status, NEW token, Reply(status, token), status = "ok" => Authorised(token)
        PROVE  A
    BY <2>2 DEF Reply, Answer, Authorised
  <2>3. login \/ loginRefused \/ headerRefused => A
    BY DEF login, loginRefused, headerRefused, RefusedAtOnce, Answer
  <2>4. ASSUME NEW token PROVE Route(token) => A
    BY <2>2 DEF Route, auth, logout, forbidden, read, badRequest, getInterface
  <2>5. ASSUME NEW status, edit # NoEdit, EditEnds(status) PROVE A
    BY <1>1, <2>5 DEF EditEnds, Answer, IInv, EditHolds
  <2>6. ASSUME NEW second, FirstStored(second) PROVE A
    BY <2>1, <2>6 DEF FirstStored
  <2>7. Edit => A
    BY <2>5, <2>6
    DEF Edit, bodyUnreadable, noSuchInterface, storeName, storeHostname, storeUp, storeTimeout,
        Reading, Storing
  <2>8. ASSUME NEW token, NEW target PROVE put(token, target) => A
    BY <2>1 DEF put
  <2> HIDE DEF A
  <2> QED
    BY <1>1, <2>1, <2>3, <2>4, <2>7, <2>8
    DEF Next, Request, Route, Gui, startNetwork, startRest, serveEnds, updateSessions, clearSessions,
        setMacTimeout, Tick
<1>2. IInv /\ [Next]_vars => [A]_vars
  BY <1>1
<1> QED BY <1>2, Inductive, PTL DEF Spec, ServesTheAuthorised

\* A token that has lost its session has lost it for ever.
THEOREM TokensStayClosed == Spec => ClosedForGood
<1> DEFINE C == \A t \in 1..logins : t \notin DOMAIN sessions => t \notin DOMAIN sessions'
<1>1. ASSUME TypeOK, [Next]_vars PROVE C
  <2>1. DOMAIN sessions' \subseteq DOMAIN sessions => C
    OBVIOUS
  <2>2. CASE login
    <3>1. logins \in Nat /\ DOMAIN sessions' = DOMAIN sessions \cup {logins + 1}
      BY <2>2, <1>1, RestAssumption DEF TypeOK, login, Insert
    <3> QED BY <3>1
  <2>3. CASE startNetwork \/ clearSessions
    BY <2>1, <2>3 DEF startNetwork, clearSessions, Empty
  <2>4. CASE updateSessions
    BY <2>1, <2>4 DEF updateSessions, Keep
  <2>5. CASE Tick
    BY <2>1, <2>5 DEF Tick
  <2>6. ASSUME NEW token, logout(token) PROVE C
    BY <2>1, <2>6 DEF logout, Without
  <2>7. UNCHANGED sessions => C
    BY <2>1
  <2> HIDE DEF C
  <2> QED
    BY <1>1, <2>2, <2>3, <2>4, <2>5, <2>6, <2>7
    DEF Next, Request, Edit, Gui, loginRefused, headerRefused, RefusedAtOnce, auth, forbidden, read,
        getInterface, badRequest, put, bodyUnreadable, noSuchInterface, storeName, storeUp,
        storeHostname, storeTimeout, startRest, serveEnds, setMacTimeout, storage, vars
<1>2. TypeOK /\ [Next]_vars => [C]_vars
  BY <1>1
<1> QED BY <1>2, TypeCorrect, PTL DEF Spec, ClosedForGood

\* A session's age is the time since its login, however much it is used.
THEOREM UseDoesNotRenew == Spec => NeverRenewed
<1> DEFINE N == \A t \in DOMAIN sessions \cap DOMAIN sessions' :
                  sessions'[t] = sessions[t] + (IF Tick THEN 1 ELSE 0)
<1>1. ASSUME TypeOK, [Next]_vars, ~ UNCHANGED vars PROVE N
  <2>1. CASE Tick
    BY <2>1 DEF Tick
  <2>2. ASSUME ~Tick, \A t \in DOMAIN sessions \cap DOMAIN sessions' : sessions'[t] = sessions[t]
        PROVE  N
    BY <1>1, <2>2 DEF TypeOK, IsTable
  <2>3. CASE login /\ ~Tick
    <3>1. logins + 1 \notin DOMAIN sessions
      BY <1>1, RestAssumption DEF TypeOK, IsTable
    <3> QED BY <2>2, <2>3, <3>1 DEF login, Insert
  <2>4. CASE (startNetwork \/ clearSessions) /\ ~Tick
    BY <2>4 DEF startNetwork, clearSessions, Empty
  <2>5. CASE updateSessions /\ ~Tick
    BY <2>2, <2>5 DEF updateSessions, Keep
  <2>6. ASSUME NEW token, logout(token), ~Tick PROVE N
    BY <2>2, <2>6 DEF logout, Without
  <2>7. CASE UNCHANGED sessions /\ ~Tick
    BY <2>2, <2>7
  <2> HIDE DEF N
  <2> QED
    BY <1>1, <2>1, <2>3, <2>4, <2>5, <2>6, <2>7
    DEF Next, Request, Edit, Gui, loginRefused, headerRefused, RefusedAtOnce, auth, forbidden, read,
        getInterface, badRequest, put, bodyUnreadable, noSuchInterface, storeName, storeUp,
        storeHostname, storeTimeout, startRest, serveEnds, setMacTimeout, storage
<1>2. TypeOK /\ [Next]_vars => [N]_vars
  BY <1>1
<1> QED BY <1>2, TypeCorrect, PTL DEF Spec, NeverRenewed

==============================================================================
