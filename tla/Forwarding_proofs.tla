-------------------------- MODULE Forwarding_proofs --------------------------
(***************************************************************************)
(* Safety of the data plane, for every topology, traffic and timing that   *)
(* meets the assumptions of Forwarding.                                    *)
(***************************************************************************)
EXTENDS Forwarding, TLAPS

\* A captured frame waits in an open sniffer.
CapturedIsOpen == \A c \in captured : c.port \in Sniffing

\* The echo of a frame is at least as old as the frame's entry.
EchoIsYounger ==
  \A c \in captured : c.echo =>
    /\ FrameOf[c.tx] \in DOMAIN sentPackets
    /\ sentPackets[FrameOf[c.tx]] <= c.age

\* What a station put on its segment waits once, and was not sent on yet.
OriginalIsUnsent ==
  /\ \A c \in captured : ~c.echo =>
       /\ c.tx \in transmitted
       /\ c.port = Origin[c.tx]
       /\ \A p \in Port : emitted[c.tx][p] = 0
  /\ \A c, d \in captured : (~c.echo /\ ~d.echo /\ c.tx = d.tx) => c = d
  /\ \A t \in Tx \ transmitted, p \in Port : emitted[t][p] = 0

IInv ==
  /\ TypeOK
  /\ CapturedIsOpen
  /\ EchoIsYounger
  /\ OriginalIsUnsent
  /\ MacPointsWhereHeard
  /\ AtMostOncePerSegment

------------------------------------------------------------------------------
(* Tables *)

LEMMA InsertLemma ==
  ASSUME NEW t, NEW K, NEW E, IsTable(t, K, E), NEW k \in K, NEW e \in E
  PROVE  /\ IsTable(Insert(t, k, e), K, E)
         /\ DOMAIN Insert(t, k, e) = DOMAIN t \cup {k}
         /\ Insert(t, k, e)[k] = e
         /\ \A x \in DOMAIN t : x # k => Insert(t, k, e)[x] = t[x]
  BY DEF IsTable, Insert

LEMMA EmptyLemma ==
  ASSUME NEW K, NEW E PROVE IsTable(Empty, K, E) /\ DOMAIN Empty = {}
  BY DEF IsTable, Empty

LEMMA OlderLemma ==
  ASSUME NEW age \in Nat, NEW ttl \in Int
  PROVE  Older(age, ttl) \in Nat /\ Older(age, ttl) <= age + 1
  BY DEF Older

LEMMA FrameType ==
  ASSUME NEW t \in Tx
  PROVE  /\ FrameOf[t] \in Frame
         /\ FrameOf[t].src \in Station
         /\ FrameOf[t].dst \in Station \cup Group
         /\ Origin[t] \in Port
  BY TopologyAssumption DEF Frame

------------------------------------------------------------------------------
(* What the callback does to the frame it handles.                          *)

\* Every way through the callback puts the frame on some ports, only when it
\* is an original, and remembers it if so.
LEMMA ProcessCases ==
  ASSUME IInv, NEW c \in captured, process(c)
  PROVE  /\ c.port \in Port /\ c.tx \in Tx /\ c.port \in Attached
         /\ \E out \in SUBSET (Port \ {c.port}) :
              /\ Emit(c, out)
              /\ \/ out = {} /\ UNCHANGED sentPackets
                 \/ ~Rejected(c) /\ Remember(FrameOf[c.tx])
         /\ \/ UNCHANGED macTable
            \/ ~Rejected(c) /\ learn(FrameOf[c.tx].src, c.port)
         /\ UNCHANGED <<interfaces, defaultMacTimeout, transmitted>>
         /\ ~Rejected(c) => ~c.echo
<1>1. c.port \in Port /\ c.tx \in Tx /\ c.port \in Attached
  BY DEF IInv, TypeOK, CapturedIsOpen, Sniffing
<1>2. ~Rejected(c) => ~c.echo
  BY DEF IInv, EchoIsYounger, Rejected
<1>3. Attached \subseteq Port
  BY DEF IInv, TypeOK, IsTable, Attached
<1>4. CASE reject(c)
  BY <1>1, <1>2, <1>4 DEF reject, Ignore, process
<1>5. CASE multicast(c)
  <2>1. Attached \ {c.port} \in SUBSET (Port \ {c.port})
    BY <1>3
  <2> QED BY <1>1, <1>2, <1>5, <2>1 DEF multicast, broadcast, process
<1>6. CASE unicast(c)
  <2> DEFINE f == FrameOf[c.tx]
             p == c.port
             dst == f.dst
  <2>1. ~Rejected(c) /\ learn(f.src, p)
    BY <1>6 DEF unicast
  <2>2. dst \in Station /\ f.src \in Station
    BY <1>1, <1>6, FrameType DEF unicast
  <2>3. macTable' = Insert(macTable, f.src, [interface |-> p, age |-> 0, ttl |-> defaultMacTimeout])
    BY <2>1 DEF learn
  <2>4. Known(dst) => macTable'[dst].interface \in Port
    <3>1. [interface |-> p, age |-> 0, ttl |-> defaultMacTimeout] \in MacEntry
      BY <1>1 DEF IInv, TypeOK, MacEntry
    <3>2. IsTable(macTable', Station, MacEntry)
      BY <2>2, <2>3, <3>1, InsertLemma DEF IInv, TypeOK
    <3> QED BY <3>2 DEF IsTable, MacEntry, Known
  <2>5. \E out \in SUBSET (Port \ {p}) :
          /\ Emit(c, out)
          /\ \/ out = {} /\ UNCHANGED sentPackets
             \/ Remember(f)
    <3>1. CASE Ignore(c)
      BY <3>1 DEF Ignore
    <3>2. ASSUME NEW q \in Port, q # p, send(c, q)
          PROVE  \E out \in SUBSET (Port \ {p}) : Emit(c, out) /\ Remember(f)
      <4>1. {} \in SUBSET (Port \ {p}) /\ {q} \in SUBSET (Port \ {p})
        BY <3>2
      <4> QED BY <3>2, <4>1 DEF send
    <3>3. CASE broadcast(c)
      <4>1. Attached \ {p} \in SUBSET (Port \ {p})
        BY <1>3
      <4> QED BY <3>3, <4>1 DEF broadcast
    <3>4. CASE dst # Hw[p] /\ \E q \in Local(dst) : send(c, q)
      <4>1. PICK q \in Local(dst) : send(c, q)
        BY <3>4
      <4>2. q \in Port /\ q # p
        BY <1>3, <3>4 DEF Local
      <4> QED BY <3>2, <4>1, <4>2
    <3>5. CASE Known(dst) /\ IF macTable'[dst].interface = p THEN Ignore(c)
                             ELSE send(c, macTable'[dst].interface)
      BY <2>4, <3>1, <3>2, <3>5
    <3> QED BY <1>6, <3>1, <3>3, <3>4, <3>5 DEF unicast
  <2> QED BY <1>1, <1>2, <2>1, <2>5 DEF process
<1> QED BY <1>4, <1>5, <1>6 DEF process

\* The frame table after the callback.
LEMMA RememberLemma ==
  ASSUME IsTable(sentPackets, Frame, Nat), NEW f \in Frame, Remember(f)
  PROVE  /\ IsTable(sentPackets', Frame, Nat)
         /\ DOMAIN sentPackets' = DOMAIN sentPackets \cup {f}
         /\ \A g \in DOMAIN sentPackets : sentPackets'[g] = sentPackets[g]
         /\ f \notin DOMAIN sentPackets => sentPackets'[f] = 0
<1>1. CASE f \in DOMAIN sentPackets
  BY <1>1 DEF Remember
<1>2. CASE f \notin DOMAIN sentPackets
  <2>1. sentPackets' = Insert(sentPackets, f, 0)
    BY <1>2 DEF Remember
  <2>2. /\ IsTable(Insert(sentPackets, f, 0), Frame, Nat)
        /\ DOMAIN Insert(sentPackets, f, 0) = DOMAIN sentPackets \cup {f}
        /\ Insert(sentPackets, f, 0)[f] = 0
        /\ \A g \in DOMAIN sentPackets : g # f => Insert(sentPackets, f, 0)[g] = sentPackets[g]
    BY DEF IsTable, Insert
  <2> QED BY <1>2, <2>1, <2>2
<1> QED BY <1>1, <1>2

LEMMA ProcessStep ==
  ASSUME IInv, NEW c \in captured, process(c)
  PROVE  IInv'
<1> DEFINE f == FrameOf[c.tx]
           p == c.port
<1>1. /\ p \in Port /\ c.tx \in Tx /\ p \in Attached
      /\ UNCHANGED <<interfaces, defaultMacTimeout, transmitted>>
      /\ ~Rejected(c) => ~c.echo
  BY ProcessCases
<1>2. PICK out \in SUBSET (Port \ {p}) :
        /\ Emit(c, out)
        /\ \/ out = {} /\ UNCHANGED sentPackets
           \/ ~Rejected(c) /\ Remember(f)
  BY ProcessCases
<1>3. UNCHANGED macTable \/ (~Rejected(c) /\ learn(f.src, p))
  BY ProcessCases
<1>4. f \in Frame /\ f.src \in Station
  BY <1>1, FrameType
<1>5. Sniffing' = Sniffing /\ Sniffing \subseteq Port
  BY <1>1 DEF Sniffing, Attached, IInv, TypeOK, IsTable
<1>6. \A d \in captured' : \/ d \in captured /\ d # c
                           \/ \E q \in out \cap Sniffing : d = Captured(c.tx, q, TRUE)
  BY <1>2 DEF Emit
<1>7. /\ emitted' \in [Tx -> [Port -> Nat]]
      /\ \A t \in Tx, q \in Port :
           emitted'[t][q] = IF t = c.tx /\ q \in out THEN emitted[t][q] + 1 ELSE emitted[t][q]
  BY <1>1, <1>2 DEF Emit, IInv, TypeOK
<1>8. out # {} => /\ ~c.echo
                  /\ c.tx \in transmitted
                  /\ p = Origin[c.tx]
                  /\ \A q \in Port : emitted[c.tx][q] = 0
  BY <1>1, <1>2 DEF IInv, OriginalIsUnsent
<1>9. /\ IsTable(sentPackets', Frame, Nat)
      /\ \A g \in DOMAIN sentPackets : g \in DOMAIN sentPackets' /\ sentPackets'[g] = sentPackets[g]
      /\ out # {} => f \in DOMAIN sentPackets' /\ sentPackets'[f] = 0
  <2>1. CASE out = {} /\ UNCHANGED sentPackets
    BY <2>1 DEF IInv, TypeOK
  <2>2. CASE ~Rejected(c) /\ Remember(f)
    <3>1. IsTable(sentPackets, Frame, Nat) /\ f \notin DOMAIN sentPackets
      BY <2>2 DEF IInv, TypeOK, Rejected
    <3>2. /\ IsTable(sentPackets', Frame, Nat)
          /\ DOMAIN sentPackets' = DOMAIN sentPackets \cup {f}
          /\ \A g \in DOMAIN sentPackets : sentPackets'[g] = sentPackets[g]
          /\ f \notin DOMAIN sentPackets => sentPackets'[f] = 0
      BY <1>4, <2>2, <3>1, RememberLemma
    <3> QED BY <3>1, <3>2
  <2> QED BY <1>2, <2>1, <2>2
<1>10. CASE UNCHANGED macTable \/ (~Rejected(c) /\ learn(f.src, p))
  <2>1. IsTable(macTable', Station, MacEntry) /\ MacPointsWhereHeard'
    <3>1. CASE UNCHANGED macTable
      BY <1>1, <3>1 DEF IInv, TypeOK, MacPointsWhereHeard, Attached, Heard
    <3>2. CASE ~Rejected(c) /\ learn(f.src, p)
      <4>1. p \in Attached \cap Heard(f.src)
        BY <1>1, <3>2 DEF IInv, OriginalIsUnsent, Heard
      <4> DEFINE e == [interface |-> p, age |-> 0, ttl |-> defaultMacTimeout]
      <4>2. e \in MacEntry /\ e.interface = p
        BY <1>1 DEF IInv, TypeOK, MacEntry
      <4> HIDE DEF e
      <4>3. macTable' = Insert(macTable, f.src, e)
        BY <3>2 DEF learn, e
      <4>4. /\ IsTable(macTable', Station, MacEntry)
            /\ DOMAIN macTable' = DOMAIN macTable \cup {f.src}
            /\ macTable'[f.src] = e
            /\ \A x \in DOMAIN macTable : x # f.src => macTable'[x] = macTable[x]
        <5>1. IsTable(macTable, Station, MacEntry)
          BY DEF IInv, TypeOK
        <5>2. /\ IsTable(Insert(macTable, f.src, e), Station, MacEntry)
              /\ DOMAIN Insert(macTable, f.src, e) = DOMAIN macTable \cup {f.src}
              /\ Insert(macTable, f.src, e)[f.src] = e
              /\ \A x \in DOMAIN macTable : x # f.src => Insert(macTable, f.src, e)[x] = macTable[x]
          BY <1>4, <4>2, <5>1 DEF IsTable, Insert
        <5> QED BY <4>3, <5>2
      <4>5. \A m \in DOMAIN macTable' : macTable'[m].interface \in Attached \cap Heard(m)
        BY <4>1, <4>2, <4>4 DEF IInv, MacPointsWhereHeard
      <4> QED BY <1>1, <4>4, <4>5 DEF MacPointsWhereHeard, Attached, Heard
    <3> QED BY <1>10, <3>1, <3>2
  <2>2. captured' \subseteq [tx : Tx, port : Port, echo : BOOLEAN, age : 0..MaxLag]
    <3>1. \A q \in out \cap Sniffing :
            Captured(c.tx, q, TRUE) \in [tx : Tx, port : Port, echo : BOOLEAN, age : 0..MaxLag]
      BY <1>1, <1>5, TimeAssumption DEF Captured
    <3> QED BY <1>6, <3>1 DEF IInv, TypeOK
  <2>3. TypeOK'
    BY <1>1, <1>7, <1>9, <2>1, <2>2 DEF IInv, TypeOK
  <2>4. CapturedIsOpen'
    BY <1>5, <1>6 DEF IInv, CapturedIsOpen, Captured
  <2>5. EchoIsYounger'
    <3> SUFFICES ASSUME NEW d \in captured', d.echo
                 PROVE  /\ FrameOf[d.tx] \in DOMAIN sentPackets'
                        /\ sentPackets'[FrameOf[d.tx]] <= d.age
      BY DEF EchoIsYounger
    <3>1. CASE d \in captured
      BY <1>9, <3>1 DEF IInv, EchoIsYounger
    <3>2. CASE \E q \in out \cap Sniffing : d = Captured(c.tx, q, TRUE)
      BY <1>9, <3>2 DEF Captured
    <3> QED BY <1>6, <3>1, <3>2
  <2>6. OriginalIsUnsent'
    <3>1. \A d \in captured' : ~d.echo => d \in captured /\ d # c
      BY <1>6 DEF Captured
    <3>2. \A d \in captured : d.tx \in Tx
      BY DEF IInv, TypeOK
    <3>3. \A d \in captured' : ~d.echo =>
            /\ d.tx \in transmitted'
            /\ d.port = Origin[d.tx]
            /\ \A q \in Port : emitted'[d.tx][q] = 0
      <4> SUFFICES ASSUME NEW d \in captured', ~d.echo
                   PROVE  /\ d.tx \in transmitted'
                          /\ d.port = Origin[d.tx]
                          /\ \A q \in Port : emitted'[d.tx][q] = 0
        OBVIOUS
      <4>1. d \in captured /\ d # c /\ d.tx \in Tx
        BY <3>1, <3>2
      <4>2. d.tx = c.tx => out = {}
        BY <1>8, <4>1 DEF IInv, OriginalIsUnsent
      <4> QED BY <1>1, <1>7, <4>1, <4>2 DEF IInv, OriginalIsUnsent
    <3>4. \A t \in Tx \ transmitted', q \in Port : emitted'[t][q] = 0
      BY <1>1, <1>7, <1>8 DEF IInv, OriginalIsUnsent
    <3>5. \A d, g \in captured' : (~d.echo /\ ~g.echo /\ d.tx = g.tx) => d = g
      BY <3>1 DEF IInv, OriginalIsUnsent
    <3> QED BY <3>3, <3>4, <3>5 DEF OriginalIsUnsent
  <2>7. AtMostOncePerSegment'
    <3> SUFFICES ASSUME NEW t \in Tx, NEW q \in Port
                 PROVE  emitted'[t][q] <= IF q = Origin[t] THEN 0 ELSE 1
      BY DEF AtMostOncePerSegment
    <3>1. CASE t = c.tx /\ q \in out
      BY <1>7, <1>8, <3>1
    <3>2. CASE ~(t = c.tx /\ q \in out)
      BY <1>7, <3>2 DEF IInv, AtMostOncePerSegment
    <3> QED BY <3>1, <3>2
  <2> QED BY <2>1, <2>3, <2>4, <2>5, <2>6, <2>7 DEF IInv
<1> QED BY <1>3, <1>10

------------------------------------------------------------------------------
(* The other actions *)

\* Entries that only grow older or go away stay right.
LEMMA EntriesStayRight ==
  ASSUME MacPointsWhereHeard, Attached \subseteq Attached', transmitted \subseteq transmitted',
         \A m \in DOMAIN macTable' :
           m \in DOMAIN macTable /\ macTable'[m].interface = macTable[m].interface
  PROVE  MacPointsWhereHeard'
  BY DEF MacPointsWhereHeard, Heard

\* What must be shown of an action that puts no frame on any segment.
LEMMA QuietStep ==
  ASSUME IInv, TypeOK', UNCHANGED emitted, transmitted \subseteq transmitted',
         CapturedIsOpen', EchoIsYounger', MacPointsWhereHeard',
         \A c, d \in captured' : (~c.echo /\ ~d.echo /\ c.tx = d.tx) => c = d,
         \A c \in captured' : ~c.echo =>
           /\ c.tx \in transmitted'
           /\ c.port = Origin[c.tx]
           /\ c.tx \notin transmitted \/ \E d \in captured : ~d.echo /\ d.tx = c.tx
  PROVE  IInv'
<1>1. AtMostOncePerSegment'
  BY DEF IInv, AtMostOncePerSegment
<1>2. \A c \in captured' : ~c.echo => \A p \in Port : emitted'[c.tx][p] = 0
  BY DEF IInv, OriginalIsUnsent, TypeOK
<1>3. OriginalIsUnsent'
  BY <1>2 DEF IInv, OriginalIsUnsent
<1> QED BY <1>1, <1>3 DEF IInv

LEMMA InitInv == Init => IInv
<1> SUFFICES ASSUME Init PROVE IInv
  OBVIOUS
<1>1. TypeOK
  BY EmptyLemma, TimeAssumption DEF Init, TypeOK
<1> QED BY <1>1, EmptyLemma DEF Init, IInv, CapturedIsOpen, EchoIsYounger, OriginalIsUnsent,
      MacPointsWhereHeard, AtMostOncePerSegment

LEMMA ResetStep == IInv /\ reset => IInv'
<1> SUFFICES ASSUME IInv, reset PROVE IInv'
  OBVIOUS
<1>1. captured = {}
  BY DEF IInv, CapturedIsOpen, Sniffing, reset
<1>2. TypeOK'
  BY EmptyLemma, TimeAssumption DEF IInv, TypeOK, reset
<1>3. captured' = {} /\ DOMAIN macTable' = {}
  BY <1>1, EmptyLemma DEF reset
<1> QED BY <1>2, <1>3, QuietStep DEF CapturedIsOpen, EchoIsYounger, MacPointsWhereHeard, reset

LEMMA InterfaceStep ==
  ASSUME IInv, NEW p \in Port,
         \/ start(p) \/ openSniffer(p) \/ closeSniffer(p)
         \/ \E isUp \in BOOLEAN : editInterface(p, isUp)
  PROVE  IInv'
<1> DEFINE E == [up : BOOLEAN, sniffer : SnifferState]
<1>1. /\ UNCHANGED <<tables, transmitted, emitted>>
      /\ captured' \subseteq captured
  BY DEF start, openSniffer, closeSniffer, SetSniffer, editInterface
<1>2. IsTable(interfaces', Port, E) /\ CapturedIsOpen'
  <2>0. IsTable(interfaces, Port, E)
    BY DEF IInv, TypeOK
  <2>1. CASE start(p)
    <3>1. interfaces' = Insert(interfaces, p, [up |-> TRUE, sniffer |-> "starting"])
      BY <2>1 DEF start
    <3>2. /\ IsTable(interfaces', Port, E)
          /\ \A q \in Attached : q \in Attached' /\ (q # p => interfaces'[q] = interfaces[q])
      BY <2>0, <3>1 DEF IsTable, Insert, SnifferState, Attached
    <3> QED BY <2>1, <3>2 DEF start, CapturedIsOpen, Sniffing, IInv
  <2>2. ASSUME NEW from, NEW to \in SnifferState, SetSniffer(p, from, to)
        PROVE  /\ IsTable(interfaces', Port, E)
               /\ Attached' = Attached
               /\ \A q \in Attached : q # p => interfaces'[q] = interfaces[q]
               /\ interfaces'[p].sniffer = to
    BY <2>0, <2>2 DEF SetSniffer, IsTable, Attached
  <2>3. CASE openSniffer(p)
    BY <2>2, <2>3 DEF openSniffer, SnifferState, CapturedIsOpen, Sniffing, IInv
  <2>4. CASE closeSniffer(p)
    BY <2>2, <2>4 DEF closeSniffer, SnifferState, CapturedIsOpen, Sniffing, IInv
  <2>5. ASSUME NEW isUp \in BOOLEAN, editInterface(p, isUp)
        PROVE  IsTable(interfaces', Port, E) /\ CapturedIsOpen'
    <3>1. /\ IsTable(interfaces', Port, E)
          /\ Attached' = Attached
          /\ \A q \in Attached : interfaces'[q].sniffer = interfaces[q].sniffer
      BY <2>0, <2>5 DEF editInterface, IsTable, Attached
    <3> QED BY <2>5, <3>1 DEF editInterface, CapturedIsOpen, Sniffing, IInv
  <2> QED BY <2>1, <2>3, <2>4, <2>5
<1>3. TypeOK'
  BY <1>1, <1>2 DEF IInv, TypeOK, tables
<1>4. EchoIsYounger' /\ MacPointsWhereHeard'
  <2>1. Attached \subseteq Attached'
    BY DEF start, openSniffer, closeSniffer, SetSniffer, editInterface, Attached, Insert
  <2> QED BY <1>1, <2>1, EntriesStayRight DEF IInv, EchoIsYounger, tables
<1> QED BY <1>1, <1>2, <1>3, <1>4, QuietStep DEF IInv, OriginalIsUnsent

LEMMA TransmitStep ==
  ASSUME IInv, NEW t \in Tx, transmit(t) PROVE IInv'
<1> DEFINE p == Origin[t]
<1>1. /\ UNCHANGED <<interfaces, tables, emitted>>
      /\ t \notin transmitted
      /\ transmitted' = transmitted \cup {t}
      /\ \A c \in captured' : c \in captured \/ (c = Captured(t, p, FALSE) /\ p \in Sniffing)
  BY DEF transmit
<1>2. Captured(t, p, FALSE) \in [tx : Tx, port : Port, echo : BOOLEAN, age : 0..MaxLag]
  BY FrameType, TimeAssumption DEF Captured
<1>3. TypeOK'
  BY <1>1, <1>2 DEF IInv, TypeOK, tables
<1>4. CapturedIsOpen'
  BY <1>1 DEF IInv, CapturedIsOpen, Captured, Sniffing, Attached
<1>5. EchoIsYounger' /\ MacPointsWhereHeard'
  BY <1>1, EntriesStayRight DEF IInv, EchoIsYounger, tables, Captured, Attached
<1>6. \A c \in captured : ~c.echo => c.tx \in transmitted /\ c.tx # t
  BY <1>1 DEF IInv, OriginalIsUnsent
<1>7. \A c, d \in captured' : (~c.echo /\ ~d.echo /\ c.tx = d.tx) => c = d
  <2> SUFFICES ASSUME NEW c \in captured', NEW d \in captured', ~c.echo, ~d.echo, c.tx = d.tx
               PROVE  c = d
    OBVIOUS
  <2>1. Captured(t, p, FALSE).tx = t
    BY DEF Captured
  <2>2. CASE c \in captured /\ d \in captured
    BY <2>2 DEF IInv, OriginalIsUnsent
  <2>3. CASE c = Captured(t, p, FALSE) \/ d = Captured(t, p, FALSE)
    BY <1>1, <1>6, <2>1, <2>3
  <2> QED BY <1>1, <2>2, <2>3
<1>8. \A c \in captured' : ~c.echo =>
        /\ c.tx \in transmitted'
        /\ c.port = Origin[c.tx]
        /\ c.tx \notin transmitted \/ \E d \in captured : ~d.echo /\ d.tx = c.tx
  <2> SUFFICES ASSUME NEW c \in captured', ~c.echo
               PROVE  /\ c.tx \in transmitted'
                      /\ c.port = Origin[c.tx]
                      /\ c.tx \notin transmitted \/ \E d \in captured : ~d.echo /\ d.tx = c.tx
    OBVIOUS
  <2>1. CASE c \in captured
    BY <1>1, <2>1 DEF IInv, OriginalIsUnsent
  <2>2. CASE c = Captured(t, p, FALSE)
    BY <1>1, <2>2 DEF Captured
  <2> QED BY <1>1, <2>1, <2>2
<1> QED BY <1>1, <1>3, <1>4, <1>5, <1>7, <1>8, QuietStep

LEMMA TickStep == IInv /\ Tick => IInv'
<1> SUFFICES ASSUME IInv, Tick PROVE IInv'
  OBVIOUS
<1> DEFINE Aged(c) == [c EXCEPT !.age = @ + 1]
<1>1. captured \subseteq [tx : Tx, port : Port, echo : BOOLEAN, age : 0..MaxLag] /\ MaxLag \in Nat
  BY TimeAssumption DEF IInv, TypeOK
<1>2. \A c \in captured : /\ Aged(c) \in [tx : Tx, port : Port, echo : BOOLEAN, age : 0..MaxLag]
                          /\ Aged(c).tx = c.tx /\ Aged(c).port = c.port
                          /\ Aged(c).echo = c.echo /\ Aged(c).age = c.age + 1
  BY <1>1 DEF Tick
<1>3. captured' = {Aged(c) : c \in captured}
  BY DEF Tick
<1>4. UNCHANGED <<interfaces, defaultMacTimeout, transmitted, emitted>>
  BY DEF Tick
<1>5. IsTable(macTable', Station, MacEntry) /\ MacPointsWhereHeard'
  <2>1. IsTable(macTable, Station, MacEntry)
    BY DEF IInv, TypeOK
  <2>2. \A m \in DOMAIN macTable : /\ macTable[m] \in MacEntry
                                   /\ macTable[m].age \in Nat /\ macTable[m].ttl \in Int
    BY <2>1, TimeAssumption DEF IsTable, MacEntry
  <2>3. /\ DOMAIN macTable' = DOMAIN macTable
        /\ \A m \in DOMAIN macTable :
             macTable'[m] = [macTable[m] EXCEPT !.age = Older(macTable[m].age, macTable[m].ttl)]
        /\ macTable' = [m \in DOMAIN macTable |-> macTable'[m]]
    BY DEF Tick
  <2>4. \A m \in DOMAIN macTable : /\ macTable'[m] \in MacEntry
                                   /\ macTable'[m].interface = macTable[m].interface
    BY <2>2, <2>3, OlderLemma DEF MacEntry
  <2>5. MacPointsWhereHeard'
    BY <1>4, <2>3, <2>4, EntriesStayRight DEF IInv, Attached
  <2> QED BY <2>1, <2>3, <2>4, <2>5 DEF IsTable
<1>6. /\ DOMAIN sentPackets' = DOMAIN sentPackets
      /\ \A f \in DOMAIN sentPackets : sentPackets'[f] <= sentPackets[f] + 1
      /\ IsTable(sentPackets', Frame, Nat)
  <2>1. /\ DOMAIN sentPackets \subseteq Frame
        /\ \A f \in DOMAIN sentPackets : sentPackets[f] \in Nat
    BY DEF IInv, TypeOK, IsTable
  <2>2. sentPackets' = [f \in DOMAIN sentPackets |-> Older(sentPackets[f], SentTimeout)]
    BY DEF Tick
  <2> QED BY <2>1, <2>2, OlderLemma, TimeAssumption DEF IsTable
<1>7. TypeOK'
  BY <1>2, <1>3, <1>4, <1>5, <1>6 DEF IInv, TypeOK
<1>8. CapturedIsOpen'
  BY <1>2, <1>3, <1>4 DEF IInv, CapturedIsOpen, Sniffing, Attached
<1>9. EchoIsYounger'
  <2> SUFFICES ASSUME NEW c \in captured, c.echo
               PROVE  /\ FrameOf[c.tx] \in DOMAIN sentPackets'
                      /\ sentPackets'[FrameOf[c.tx]] <= c.age + 1
    BY <1>2, <1>3 DEF EchoIsYounger
  <2>1. sentPackets[FrameOf[c.tx]] <= c.age /\ FrameOf[c.tx] \in DOMAIN sentPackets
    BY DEF IInv, EchoIsYounger
  <2>2. \A f \in DOMAIN sentPackets : sentPackets[f] \in Nat /\ sentPackets'[f] \in Nat
    BY <1>6 DEF IInv, TypeOK, IsTable
  <2>3. c.age \in Nat
    BY <1>1
  <2> QED BY <1>6, <2>1, <2>2, <2>3
<1>10. \A c, d \in captured' : (~c.echo /\ ~d.echo /\ c.tx = d.tx) => c = d
  BY <1>2, <1>3 DEF IInv, OriginalIsUnsent
<1>11. \A c \in captured' : ~c.echo =>
        /\ c.tx \in transmitted'
        /\ c.port = Origin[c.tx]
        /\ \E d \in captured : ~d.echo /\ d.tx = c.tx
  BY <1>2, <1>3, <1>4 DEF IInv, OriginalIsUnsent
<1> QED BY <1>4, <1>5, <1>7, <1>8, <1>9, <1>10, <1>11, QuietStep

\* The GUI's timers and buttons and PUT /device/edit.
LEMMA TableStep ==
  ASSUME IInv,
         \/ updateMac \/ updatePackets \/ clearMac \/ resetMac
         \/ \E d \in MacTimeout : setMacTimeout(d)
  PROVE  IInv'
<1>1. UNCHANGED <<interfaces, captured, transmitted, emitted>>
  BY DEF updateMac, updatePackets, clearMac, resetMac, setMacTimeout, outside
<1>2. defaultMacTimeout' \in MacTimeout
  BY DEF updateMac, updatePackets, clearMac, resetMac, setMacTimeout, IInv, TypeOK
<1>3. IsTable(macTable', Station, MacEntry) /\ MacPointsWhereHeard'
  <2>1. /\ DOMAIN macTable \subseteq Station
        /\ \A m \in DOMAIN macTable : macTable[m] \in MacEntry
        /\ IsTable(macTable, Station, MacEntry)
    BY DEF IInv, TypeOK, IsTable
  <2>2. CASE updateMac
    <3>1. macTable' = [m \in {x \in DOMAIN macTable : ~expired(macTable[x])} |-> macTable[m]]
      BY <2>2 DEF updateMac, Keep
    <3> QED BY <1>1, <2>1, <3>1, EntriesStayRight DEF IsTable, IInv, Attached
  <2>3. CASE clearMac
    BY <2>3, EmptyLemma DEF clearMac, MacPointsWhereHeard
  <2>4. CASE resetMac
    <3>1. /\ macTable' = [m \in DOMAIN macTable |-> [macTable[m] EXCEPT !.age = 0]]
          /\ \A m \in DOMAIN macTable :
               /\ [macTable[m] EXCEPT !.age = 0] \in MacEntry
               /\ [macTable[m] EXCEPT !.age = 0].interface = macTable[m].interface
      BY <2>1, <2>4 DEF resetMac, MacEntry
    <3> QED BY <1>1, <2>1, <3>1, EntriesStayRight DEF IsTable, IInv, Attached
  <2>5. CASE UNCHANGED macTable
    BY <1>1, <2>1, <2>5, EntriesStayRight DEF IInv, Attached
  <2> QED BY <2>2, <2>3, <2>4, <2>5 DEF updatePackets, setMacTimeout
<1>4. IsTable(sentPackets', Frame, Nat) /\ EchoIsYounger'
  <2>1. /\ DOMAIN sentPackets \subseteq Frame
        /\ \A f \in DOMAIN sentPackets : sentPackets[f] \in Nat
        /\ IsTable(sentPackets, Frame, Nat)
    BY DEF IInv, TypeOK, IsTable
  <2>2. CASE updatePackets
    <3>1. sentPackets' = [f \in {x \in DOMAIN sentPackets : sentPackets[x] <= SentTimeout} |-> sentPackets[f]]
      BY <2>2 DEF updatePackets, Keep
    <3>2. IsTable(sentPackets', Frame, Nat)
      BY <2>1, <3>1 DEF IsTable
    <3>3. \A c \in captured : c.age \in 0..MaxLag
      BY DEF IInv, TypeOK
    <3>4. \A c \in captured : c.echo => /\ FrameOf[c.tx] \in DOMAIN sentPackets
                                        /\ sentPackets[FrameOf[c.tx]] <= c.age
                                        /\ sentPackets[FrameOf[c.tx]] <= SentTimeout
      BY <2>1, <3>3, TimeAssumption DEF IInv, EchoIsYounger
    <3> QED BY <1>1, <3>1, <3>2, <3>4 DEF EchoIsYounger
  <2>3. CASE UNCHANGED sentPackets
    BY <1>1, <2>1, <2>3 DEF IInv, EchoIsYounger
  <2> QED BY <2>2, <2>3 DEF updateMac, clearMac, resetMac, setMacTimeout
<1>5. TypeOK'
  BY <1>1, <1>2, <1>3, <1>4 DEF IInv, TypeOK
<1>6. CapturedIsOpen' /\ OriginalIsUnsent' /\ AtMostOncePerSegment'
  BY <1>1 DEF IInv, CapturedIsOpen, Sniffing, Attached, OriginalIsUnsent, AtMostOncePerSegment
<1> QED BY <1>3, <1>4, <1>5, <1>6 DEF IInv

LEMMA InvStep == IInv /\ [Next]_vars => IInv'
<1> SUFFICES ASSUME IInv, [Next]_vars PROVE IInv'
  OBVIOUS
<1>1. CASE Administration
  BY <1>1, ResetStep, InterfaceStep, TableStep DEF Administration
<1>2. CASE \E t \in Tx : transmit(t)
  BY <1>2, TransmitStep
<1>3. CASE \E p \in Port : NetworkThread(p)
  BY <1>3, ProcessStep DEF NetworkThread
<1>4. CASE Tick \/ updateMac \/ updatePackets
  BY <1>4, TickStep, TableStep
<1>5. CASE UNCHANGED vars
  BY <1>5 DEF vars, tables, IInv, TypeOK, CapturedIsOpen, Sniffing, Attached, EchoIsYounger,
     OriginalIsUnsent, MacPointsWhereHeard, Heard, AtMostOncePerSegment
<1> QED BY <1>1, <1>2, <1>3, <1>4, <1>5 DEF Next

\* Every state of the data plane satisfies the strengthened invariant: an echo is
\* younger than its entry in sentPackets, and what is not an echo was never sent.
THEOREM Inductive == Spec => []IInv
  BY InitInv, InvStep, PTL DEF Spec

------------------------------------------------------------------------------
(* The properties *)

\* The tables of the shared storage and the capture queues keep their types.
THEOREM TypeCorrect == Spec => []TypeOK
  BY Inductive, PTL DEF IInv

\* The switch learns stations only on interfaces they have spoken from, moving
\* or not.
THEOREM LearnsRight == Spec => []MacPointsWhereHeard
  BY Inductive, PTL DEF IInv

\* The switch forwards a transmission at most once to a segment and never
\* reflects it.
THEOREM NoLoop == Spec => []AtMostOncePerSegment
  BY Inductive, PTL DEF IInv

\* The callback finds the frame of every echo in sentPackets.
THEOREM EchoIsKnown == Spec => []EchoRemembered
<1>1. IInv => EchoRemembered
  BY DEF IInv, EchoIsYounger, EchoRemembered
<1> QED BY <1>1, Inductive, PTL

\* A frame the callback takes for new is put on the segment of its destination.
THEOREM Delivers == Spec => NewFrameArrives
<1> DEFINE Arrives == \A c \in captured :
             (process(c) /\ ~Rejected(c)) =>
               \A q \in Attached \ {c.port} :
                 Wanted(FrameOf[c.tx], q) => emitted'[c.tx][q] = emitted[c.tx][q] + 1
<1>1. IInv /\ [Next]_vars => Arrives
  <2> SUFFICES ASSUME IInv, NEW c \in captured, process(c), ~Rejected(c),
                      NEW q \in Attached \ {c.port}, Wanted(FrameOf[c.tx], q)
               PROVE  emitted'[c.tx][q] = emitted[c.tx][q] + 1
    OBVIOUS
  <2> DEFINE f == FrameOf[c.tx]
             p == c.port
  <2>1. /\ p \in Port /\ c.tx \in Tx /\ q \in Port /\ q # p
        /\ f.src \in Station /\ f.dst \in Station \cup Group
    BY FrameType DEF IInv, TypeOK, IsTable, Attached
  <2>2. ASSUME NEW out, q \in out, Emit(c, out)
        PROVE  emitted'[c.tx][q] = emitted[c.tx][q] + 1
    BY <2>1, <2>2 DEF Emit, IInv, TypeOK
  <2>3. CASE broadcast(c)
    BY <2>2, <2>3 DEF broadcast
  <2>4. CASE multicast(c)
    BY <2>3, <2>4 DEF multicast
  <2>5. CASE unicast(c)
    <3>1. /\ ~(f.jumbo /\ q \in Wifi)
          /\ IF \E r \in Port : Hw[r] = f.dst THEN Hw[q] = f.dst ELSE Heard(f.dst) \subseteq {q}
      BY <2>5 DEF unicast, Wanted
    <3>2. f.dst # Hw[p]
      BY <2>1, <3>1, TopologyAssumption
    <3>3. CASE send(c, q)
      BY <2>2, <3>1, <3>3 DEF send
    <3>4. CASE \E r \in Local(f.dst) : send(c, r)
      <4>1. \A r \in Local(f.dst) : r = q
        BY <2>1, <3>1, TopologyAssumption DEF Local, IInv, TypeOK, IsTable, Attached
      <4> QED BY <3>3, <3>4, <4>1
    <3>5. CASE /\ Local(f.dst) = {} /\ Known(f.dst)
               /\ IF macTable'[f.dst].interface = p THEN Ignore(c)
                  ELSE send(c, macTable'[f.dst].interface)
      <4>1. Heard(f.dst) \subseteq {q}
        BY <2>1, <3>1, <3>5 DEF Local
      <4>2. MacPointsWhereHeard' /\ UNCHANGED transmitted
        BY ProcessStep DEF IInv, process
      <4>3. macTable'[f.dst].interface = q
        BY <3>5, <4>1, <4>2 DEF MacPointsWhereHeard, Known, Heard
      <4> QED BY <2>1, <3>3, <3>5, <4>3
    <3> QED BY <2>3, <2>5, <3>2, <3>4, <3>5 DEF unicast
  <2> QED BY <2>4, <2>5 DEF process, reject
<1> QED BY <1>1, Inductive, PTL DEF Spec, NewFrameArrives

==============================================================================
