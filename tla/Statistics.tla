------------------------------ MODULE Statistics ------------------------------
(***************************************************************************)
(* The traffic counters: storage.statisticsTable, the network threads that *)
(* count, the buttons that clear, and what StatisticsModel shows of it.    *)
(* The map is ordered by StatisticKey::value() alone, so two keys with the *)
(* same value are one entry, which keeps the key it was made with.         *)
(* Slip... definitions are mistakes to try the properties on (see          *)
(* SwitchLifecycle).                                                       *)
(***************************************************************************)
EXTENDS Integers

CONSTANTS
  Interface,   \* ids of the interfaces in use
  Packet,      \* the packets told apart: [layers : SUBSET Protocol, port : Port]
  MaxCount     \* bound: no counter passes it (INT32_MAX in the program)

Protocol == {"EthernetII", "ARP", "IP", "TCP", "UDP", "ICMP", "HTTP"}
Port     == {80, 443, 0}     \* the source or destination port; 0 is any other

ASSUME StatisticsAssumption ==
  /\ Interface \subseteq Nat
  /\ Packet \subseteq [layers : SUBSET (Protocol \ {"HTTP"}), port : Port]
  /\ MaxCount \in Nat

VARIABLES
  statisticsTable,  \* value() |-> key and counters
  counted           \* history: what was counted since the last clear

vars == <<statisticsTable, counted>>

------------------------------------------------------------------------------

\* The values of enum class Protocol.
Number == [EthernetII |-> 0, ARP |-> 1, IP |-> 2, TCP |-> 3, UDP |-> 4, ICMP |-> 5, HTTP |-> 6]

\* StatisticKey::value()
value(protocol, i) == i + Number[protocol]

\* inputStatistics takes 443 for HTTP as well, outputStatistics does not.
Http(packet, ports) == IF "TCP" \in packet.layers /\ packet.port \in ports THEN {"HTTP"} ELSE {}
InputProtocols(packet)  == packet.layers \cup Http(packet, {80, 443})
OutputProtocols(packet) == packet.layers \cup Http(packet, {80})

NoCount  == [input |-> 0, output |-> 0]
Count    == [input : Nat, output : Nat]
Plus(c, direction) ==
  IF direction = "input" THEN [c EXCEPT !.input = @ + 1] ELSE [c EXCEPT !.output = @ + 1]

Init ==
  /\ statisticsTable = [v \in {} |-> 0]
  /\ counted = [p \in Protocol |-> [i \in Interface |-> NoCount]]

Counters(protocols, i) == {value(p, i) : p \in protocols}

\* Slip: the entry is labelled with the key's value.
SlipNewEntryByValue(protocols, i, v) ==
  LET p == CHOOSE q \in protocols : value(q, i) = v
  IN [protocol |-> p, target |-> v, count |-> NoCount]

NewEntry(protocols, i, v) ==
  LET p == CHOOSE q \in protocols : value(q, i) = v
  IN [protocol |-> p, target |-> i, count |-> NoCount]
Entry(protocols, i, v) ==
  IF v \in DOMAIN statisticsTable THEN statisticsTable[v] ELSE NewEntry(protocols, i, v)

Counted(entry, direction) ==
  [protocol |-> entry.protocol, target |-> entry.target, count |-> Plus(entry.count, direction)]

\* statisticsTable[{protocol, i}].input++ (or .output++), for every protocol.
CountAll(protocols, i, direction) ==
  /\ \A p \in protocols : counted[p][i][direction] < MaxCount
  /\ statisticsTable' =
       [v \in DOMAIN statisticsTable \cup Counters(protocols, i) |->
          IF v \in Counters(protocols, i)
          THEN Counted(Entry(protocols, i, v), direction)
          ELSE statisticsTable[v]]
  /\ counted' = [p \in Protocol |-> [j \in Interface |->
                   IF p \in protocols /\ j = i THEN Plus(counted[p][j], direction)
                   ELSE counted[p][j]]]

inputStatistics(packet, i)  == CountAll(InputProtocols(packet), i, "input")
outputStatistics(packet, i) == CountAll(OutputProtocols(packet), i, "output")

\* NetworkSwitch::clearStats(), and the start of a new run of the switch.
clearStats ==
  /\ statisticsTable' = [v \in {} |-> 0]
  /\ counted' = [p \in Protocol |-> [i \in Interface |-> NoCount]]

\* Slip: the key's value is compared with the interface.
SlipClearByValue(i) ==
  /\ statisticsTable' = [v \in DOMAIN statisticsTable \ {i} |-> statisticsTable[v]]
  /\ counted' = [p \in Protocol |-> [j \in Interface |-> IF j = i THEN NoCount ELSE counted[p][j]]]

\* NetworkSwitch::clearStats(interface)
clearInterfaceStats(i) ==
  /\ statisticsTable' =
       [v \in {w \in DOMAIN statisticsTable : statisticsTable[w].target # i} |-> statisticsTable[v]]
  /\ counted' = [p \in Protocol |-> [j \in Interface |-> IF j = i THEN NoCount ELSE counted[p][j]]]

Next ==
  \/ \E i \in Interface, packet \in Packet : inputStatistics(packet, i) \/ outputStatistics(packet, i)
  \/ clearStats
  \/ \E i \in Interface : clearInterfaceStats(i)

Spec == Init /\ [][Next]_vars

------------------------------------------------------------------------------
(* Properties *)

\* The rows StatisticsModel shows for interface i, without their order.
Rows(i) == {v \in DOMAIN statisticsTable : statisticsTable[v].target = i}

TableEntry == [protocol : Protocol, target : Interface, count : Count]

TypeOK ==
  /\ statisticsTable \in [DOMAIN statisticsTable -> TableEntry]
  /\ counted \in [Protocol -> [Interface -> Count]]

\* The row of a protocol on an interface shows what was counted for them since
\* the last clear; a protocol without a row was not seen.
ShowsWhatWasCounted ==
  \A p \in Protocol, i \in Interface :
    LET rows == {v \in Rows(i) : statisticsTable[v].protocol = p} IN
    /\ \A v \in rows : statisticsTable[v].count = counted[p][i]
    /\ rows = {} => counted[p][i] = NoCount

==============================================================================
