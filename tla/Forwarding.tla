------------------------------ MODULE Forwarding ------------------------------
(***************************************************************************)
(* The data plane: what the sniffer callbacks of the two network threads   *)
(* (NetworkThreadHandle::thread) do with the frames they capture, and the  *)
(* MAC table and the table of sent packets that they share with the GUI    *)
(* timers and the REST server under the storage mutex.                     *)
(*                                                                         *)
(* A sniffer captures everything on its interface: what a station puts on  *)
(* the segment, and also every frame the switch itself sends there (the    *)
(* echo).  A frame is recognised as the switch's own only by its bytes.    *)
(*                                                                         *)
(* Time passes in ticks.  A captured frame waits for its callback at most  *)
(* MaxLag ticks; the order in which waiting frames are handled is free.    *)
(*                                                                         *)
(* Slip... definitions are mistakes to try the properties on (see          *)
(* SwitchLifecycle).                                                       *)
(***************************************************************************)
EXTENDS Integers, Tables

CONSTANTS
  Port,          \* network interfaces
  Station,       \* unicast addresses: hosts, and the interfaces' own
  Group,         \* multicast addresses and the broadcast address
  Hw,            \* Hw[p]: the hardware address of interface p
  Wifi,          \* interfaces whose name contains "wlo"
  Tx,            \* the transmissions stations make
  Origin,        \* Origin[t]: the interface on whose segment t is made
  FrameOf,       \* the bytes of each: [src, dst, jumbo, body]
  Body,          \* what else tells two frames apart
  MacTimeout,    \* values of deviceInfo.defaultMacTimeout
  DefaultMacTimeout,
  SentTimeout,   \* DEFAULT_SENT_PACKET_TIMEOUT
  MaxLag         \* how long a captured frame waits for its callback

Frame == [src : Station, dst : Station \cup Group, jumbo : BOOLEAN, body : Body]

ASSUME TopologyAssumption ==
  /\ Hw \in [Port -> Station]
  /\ \A p, q \in Port : Hw[p] = Hw[q] => p = q
  /\ Origin \in [Tx -> Port]
  /\ Station \cap Group = {}
  /\ Wifi \subseteq Port
  /\ FrameOf \in [Tx -> Frame]

\* MaxLag <= SentTimeout: a callback is not delayed by five minutes.
ASSUME TimeAssumption ==
  /\ MacTimeout \subseteq Int
  /\ DefaultMacTimeout \in MacTimeout
  /\ SentTimeout \in Nat
  /\ MaxLag \in Nat
  /\ MaxLag <= SentTimeout

VARIABLES
  interfaces,        \* storage.interfaces: up, and the thread's sniffer
  macTable,          \* storage.macTable
  sentPackets,       \* storage.sentPackets: the age of each frame in it
  defaultMacTimeout, \* storage.deviceInfo.defaultMacTimeout
  captured,          \* captured by a sniffer and not handled yet
  transmitted,       \* history: the transmissions made so far
  emitted            \* history: how often the switch sent each to each port

tables == <<macTable, sentPackets, defaultMacTimeout>>
vars   == <<interfaces, tables, captured, transmitted, emitted>>

------------------------------------------------------------------------------

SnifferState == {"starting", "open", "closed"}
Attached == DOMAIN interfaces
Sniffing == {p \in Attached : interfaces[p].sniffer = "open"}

Captured(t, p, isEcho) == [tx |-> t, port |-> p, echo |-> isEcho, age |-> 0]

Init ==
  /\ interfaces = Empty
  /\ macTable = Empty
  /\ sentPackets = Empty
  /\ defaultMacTimeout = DefaultMacTimeout
  /\ captured = {}
  /\ transmitted = {}
  /\ emitted = [t \in Tx |-> [p \in Port |-> 0]]

------------------------------------------------------------------------------
(* The threads' life, as far as it matters here.  It is assumed, not shown: *)
(* reset, start and closeSniffer have the guards of SnifferLife, which      *)
(* SwitchLifecycle implements, and no others; what happens between them is  *)
(* left open.                                                               *)

\* startNetwork: every thread has returned, then storage_m.reset().
reset ==
  /\ \A p \in Attached : interfaces[p].sniffer = "closed"
  /\ interfaces' = Empty
  /\ macTable' = Empty
  /\ sentPackets' = Empty
  /\ defaultMacTimeout' = DefaultMacTimeout
  /\ UNCHANGED <<captured, transmitted, emitted>>

\* NetworkThreadHandle::start, for the first and then for the second handle:
\* the first thread may run before the second interface is in the table.
start(p) ==
  /\ p \notin Attached
  /\ \A q, r \in Attached : q = r
  /\ interfaces' = Insert(interfaces, p, [up |-> TRUE, sniffer |-> "starting"])
  /\ UNCHANGED <<tables, captured, transmitted, emitted>>

SetSniffer(p, from, to) ==
  /\ p \in Attached
  /\ interfaces[p].sniffer = from
  /\ interfaces' = [interfaces EXCEPT ![p].sniffer = to]
  /\ UNCHANGED <<tables, transmitted, emitted>>

openSniffer(p) == SetSniffer(p, "starting", "open") /\ UNCHANGED captured

\* The callback's result was false or the capture failed: sniff_loop returns, and
\* what the sniffer had captured is lost with it.
closeSniffer(p) ==
  /\ SetSniffer(p, "open", "closed")
  /\ captured' = {c \in captured : c.port # p}

------------------------------------------------------------------------------
(* The segments *)

\* A host, or the machine's own network stack, sends a frame.  A station may
\* be on another segment each time it does.
transmit(t) ==
  /\ t \notin transmitted
  /\ transmitted' = transmitted \cup {t}
  /\ LET p == Origin[t] IN
       captured' = captured \cup
                     (IF p \in Sniffing THEN {Captured(t, p, FALSE)} ELSE {})
  /\ UNCHANGED <<interfaces, tables, emitted>>

\* The switch is done with c; it put the frame on the ports of out, where the
\* open sniffers capture it.
Emit(c, out) ==
  /\ captured' = (captured \ {c}) \cup {Captured(c.tx, q, TRUE) : q \in out \cap Sniffing}
  /\ emitted' = [emitted EXCEPT ![c.tx] =
                   [p \in Port |-> IF p \in out THEN @[p] + 1 ELSE @[p]]]

------------------------------------------------------------------------------
(* The sniffer callback *)

\* sentPackets.insert does nothing when the frame is already there.
Remember(f) ==
  sentPackets' = IF f \in DOMAIN sentPackets THEN sentPackets ELSE Insert(sentPackets, f, 0)

Ignore(c) == Emit(c, {}) /\ UNCHANGED sentPackets

send(c, destination) ==
  /\ Remember(FrameOf[c.tx])
  /\ Emit(c, IF FrameOf[c.tx].jumbo /\ destination \in Wifi THEN {} ELSE {destination})

\* Slip: the frame is not remembered.
SlipBroadcastForgets(c) == Emit(c, Attached \ {c.port}) /\ UNCHANGED sentPackets

\* Slip: interfaces that are down are skipped, as they are on the way in.
SlipBroadcastToUp(c) ==
  /\ Remember(FrameOf[c.tx])
  /\ Emit(c, {p \in Attached \ {c.port} : interfaces[p].up})

broadcast(c) ==
  /\ Remember(FrameOf[c.tx])
  /\ Emit(c, Attached \ {c.port})

\* Slip: the timeout lands in the wrong field.
SlipLearnSwapped(mac, p) ==
  macTable' = Insert(macTable, mac, [interface |-> p, age |-> defaultMacTimeout, ttl |-> 0])

\* NetworkThreadHandle::updateMac
learn(mac, p) ==
  macTable' = Insert(macTable, mac, [interface |-> p, age |-> 0, ttl |-> defaultMacTimeout])

\* Slip: frames the switch sent are not recognised.
SlipRejectedKeepsEchoes(c) ==
  ~interfaces[c.port].up \/ FrameOf[c.tx].src = Hw[c.port]

\* The early returns in front of the MAC table.
Rejected(c) ==
  LET f == FrameOf[c.tx] IN
  \/ ~interfaces[c.port].up
  \/ f \in DOMAIN sentPackets          \* "did we send this packet?"
  \/ f.src = Hw[c.port]                \* "did our device send this?"

reject(c) == Rejected(c) /\ Ignore(c) /\ UNCHANGED macTable

multicast(c) ==
  /\ ~Rejected(c)
  /\ FrameOf[c.tx].dst \in Group
  /\ broadcast(c) /\ UNCHANGED macTable

\* The destination is looked up after the source was learned; an entry that
\* has expired and was not purged yet still counts.
Local(dst)      == {q \in Attached : Hw[q] = dst}
Known(dst)      == dst \in DOMAIN macTable'

unicast(c) ==
  LET p   == c.port
      dst == FrameOf[c.tx].dst
  IN /\ ~Rejected(c)
     /\ dst \notin Group
     /\ learn(FrameOf[c.tx].src, p)
     /\ \/ dst = Hw[p] /\ Ignore(c)
        \/ dst # Hw[p] /\ \E q \in Local(dst) : send(c, q)
        \/ /\ dst # Hw[p] /\ Local(dst) = {} /\ Known(dst)
           /\ IF macTable'[dst].interface = p THEN Ignore(c)
              ELSE send(c, macTable'[dst].interface)
        \/ dst # Hw[p] /\ Local(dst) = {} /\ ~Known(dst) /\ broadcast(c)

process(c) ==
  /\ reject(c) \/ multicast(c) \/ unicast(c)
  /\ UNCHANGED <<interfaces, defaultMacTimeout, transmitted>>

------------------------------------------------------------------------------
(* Time, the GUI's timers and buttons, the REST server.                     *)

expired(e) == e.age > e.ttl

\* Ages stop growing once they are past their timeout.
Older(age, ttl) == IF age > ttl THEN age ELSE age + 1

Tick ==
  /\ \A c \in captured : c.age < MaxLag
  /\ captured' = {[c EXCEPT !.age = @ + 1] : c \in captured}
  /\ macTable' = [m \in DOMAIN macTable |->
                    [macTable[m] EXCEPT !.age = Older(@, macTable[m].ttl)]]
  /\ sentPackets' = [f \in DOMAIN sentPackets |-> Older(sentPackets[f], SentTimeout)]
  /\ UNCHANGED <<interfaces, defaultMacTimeout, transmitted, emitted>>

outside == <<interfaces, captured, transmitted, emitted>>

updateMac ==
  /\ macTable' = Keep(macTable, LAMBDA m : ~expired(macTable[m]))
  /\ UNCHANGED <<sentPackets, defaultMacTimeout, outside>>

\* Slip: a frame is forgotten as soon as its timeout is reached.
SlipUpdatePacketsEarly ==
  /\ sentPackets' = Keep(sentPackets, LAMBDA f : sentPackets[f] < SentTimeout)
  /\ UNCHANGED <<macTable, defaultMacTimeout, outside>>

\* Slip: the test is the wrong way round.
SlipUpdatePacketsInverted ==
  /\ sentPackets' = Keep(sentPackets, LAMBDA f : sentPackets[f] > SentTimeout)
  /\ UNCHANGED <<macTable, defaultMacTimeout, outside>>

updatePackets ==
  /\ sentPackets' = Keep(sentPackets, LAMBDA f : sentPackets[f] <= SentTimeout)
  /\ UNCHANGED <<macTable, defaultMacTimeout, outside>>

clearMac ==
  /\ macTable' = Empty
  /\ UNCHANGED <<sentPackets, defaultMacTimeout, outside>>

resetMac ==
  /\ macTable' = [m \in DOMAIN macTable |-> [macTable[m] EXCEPT !.age = 0]]
  /\ UNCHANGED <<sentPackets, defaultMacTimeout, outside>>

\* setMacTimeout, applyMac and PUT /device/edit.
setMacTimeout(d) ==
  /\ defaultMacTimeout' = d
  /\ UNCHANGED <<macTable, sentPackets, outside>>

\* PUT /interface/{{id}}/edit
editInterface(p, isUp) ==
  /\ p \in Attached
  /\ interfaces' = [interfaces EXCEPT ![p].up = isUp]
  /\ UNCHANGED <<tables, captured, transmitted, emitted>>

------------------------------------------------------------------------------

Administration ==
  \/ reset
  \/ \E p \in Port : start(p) \/ openSniffer(p) \/ closeSniffer(p)
  \/ clearMac \/ resetMac
  \/ \E d \in MacTimeout : setMacTimeout(d)
  \/ \E p \in Port, isUp \in BOOLEAN : editInterface(p, isUp)

\* The callbacks of the network thread of interface p.
NetworkThread(p) == \E c \in captured : c.port = p /\ process(c)

Next ==
  \/ Administration
  \/ \E t \in Tx : transmit(t)
  \/ \E p \in Port : NetworkThread(p)
  \/ Tick \/ updateMac \/ updatePackets

\* Threads run, time passes and the GUI's purge timers fire.
Fairness ==
  /\ \A p \in Port : WF_vars(NetworkThread(p))
  /\ WF_vars(Tick)
  /\ WF_vars(updateMac)
  /\ WF_vars(updatePackets)

Spec == Init /\ [][Next]_vars /\ Fairness

------------------------------------------------------------------------------
(* Properties *)

MacEntry == [interface : Port, age : Nat, ttl : MacTimeout]

TypeOK ==
  /\ IsTable(interfaces, Port, [up : BOOLEAN, sniffer : SnifferState])
  /\ IsTable(macTable, Station, MacEntry)
  /\ IsTable(sentPackets, Frame, Nat)
  /\ defaultMacTimeout \in MacTimeout
  /\ captured \subseteq [tx : Tx, port : Port, echo : BOOLEAN, age : 0..MaxLag]
  /\ transmitted \subseteq Tx
  /\ emitted \in [Tx -> [Port -> Nat]]

\* Where a station has spoken from so far.
Heard(s) == {Origin[t] : t \in {u \in transmitted : FrameOf[u].src = s}}

\* The MAC table points to attached interfaces only, and a station's entry to
\* one it has spoken from, although every frame that is forwarded is captured
\* again on the segment it was sent to, where its source need not ever have been.
MacPointsWhereHeard ==
  \A m \in DOMAIN macTable : macTable[m].interface \in Attached \cap Heard(m)

\* No forwarding loop: a transmission is sent at most once to a segment and
\* never back to the one it came from, whatever the two threads, the purges
\* and the echoes do.
AtMostOncePerSegment ==
  \A t \in Tx, p \in Port :
    emitted[t][p] <= IF p = Origin[t] THEN 0 ELSE 1

\* As long as the echo of a sent frame waits for its callback, the frame is
\* in sentPackets: updatePackets and reset do not remove it too early.
EchoRemembered ==
  \A c \in captured : c.echo => FrameOf[c.tx] \in DOMAIN sentPackets

\* A frame that the callback takes for new reaches the segment of its
\* destination, or every other one: whether the MAC entry is learned, expired,
\* purged or missing, or the destination is the machine itself.  Of a station
\* that has moved this cannot be said: its entry may be an old one.
Wanted(f, q) ==
  IF f.dst \in Group THEN TRUE
  ELSE /\ ~(f.jumbo /\ q \in Wifi)
       /\ IF \E p \in Port : Hw[p] = f.dst THEN Hw[q] = f.dst ELSE Heard(f.dst) \subseteq {q}

NewFrameArrives ==
  [][ \A c \in captured :
        (process(c) /\ ~Rejected(c)) =>
          \A q \in Attached \ {c.port} :
            Wanted(FrameOf[c.tx], q) => emitted'[c.tx][q] = emitted[c.tx][q] + 1 ]_vars

\* What was sent is forgotten some day, so that a station that repeats itself is
\* heard again.  (For the purge of the MAC table see Timeouts.)
SentPacketsForgotten ==
  \A f \in {FrameOf[t] : t \in Tx} : f \in DOMAIN sentPackets ~> f \notin DOMAIN sentPackets

\* "did we send this packet?": only the echo of a frame the switch has sent is
\* dropped on account of sentPackets.
DropsOnlyItsOwn ==
  [][ \A c \in captured :
        (process(c) /\ interfaces[c.port].up /\ FrameOf[c.tx] \in DOMAIN sentPackets)
        => c.echo ]_vars

==============================================================================
