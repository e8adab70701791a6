-------------------------- MODULE Statistics_proofs --------------------------
(***************************************************************************)
(* The traffic counters are right for every set of interfaces whose ids    *)
(* are so far apart that no two keys share a value(): the condition the    *)
(* program relies on and does not check.                                   *)
(***************************************************************************)
EXTENDS Statistics, TLAPS

SpacedIds == \A i, j \in Interface : i < j => i + 7 <= j

\* An entry stands where its key belongs and holds the key's true count; what
\* has no entry was not counted.
TableIsExact ==
  /\ \A v \in DOMAIN statisticsTable :
       LET e == statisticsTable[v] IN
       /\ e.protocol \in Protocol /\ e.target \in Interface
       /\ v = value(e.protocol, e.target)
       /\ e.count = counted[e.protocol][e.target]
  /\ \A p \in Protocol, i \in Interface :
       value(p, i) \notin DOMAIN statisticsTable => counted[p][i] = NoCount

IInv == TypeOK /\ TableIsExact

------------------------------------------------------------------------------

LEMMA NumberBounds ==
  /\ \A p \in Protocol : Number[p] \in 0..6
  /\ \A p, q \in Protocol : Number[p] = Number[q] => p = q
  BY DEF Number, Protocol

\* With the ids far enough apart, value() tells all keys apart.
LEMMA ValueIsInjective ==
  ASSUME SpacedIds, NEW p \in Protocol, NEW q \in Protocol, NEW i \in Interface, NEW j \in Interface,
         value(p, i) = value(q, j)
  PROVE  p = q /\ i = j
<1>1. i \in Nat /\ j \in Nat /\ Number[p] \in 0..6 /\ Number[q] \in 0..6
  BY NumberBounds, StatisticsAssumption
<1>2. i + Number[p] = j + Number[q]
  BY DEF value
<1>3. ~(i < j) /\ ~(j < i)
  <2>1. i < j => i + 7 <= j
    BY DEF SpacedIds
  <2>2. j < i => j + 7 <= i
    BY DEF SpacedIds
  <2> QED BY <1>1, <1>2, <2>1, <2>2
<1> QED BY <1>1, <1>2, <1>3, NumberBounds

LEMMA PlusType ==
  ASSUME NEW c \in Count, NEW d \in {"input", "output"}
  PROVE  Plus(c, d) \in Count
  BY DEF Plus, Count

LEMMA CountStep ==
  ASSUME SpacedIds, IInv, NEW protocols \in SUBSET Protocol, NEW i \in Interface,
         NEW d \in {"input", "output"}, CountAll(protocols, i, d)
  PROVE  IInv'
<1> DEFINE C == Counters(protocols, i)
           E(v) == Counted(Entry(protocols, i, v), d)
<1>1. /\ DOMAIN statisticsTable' = DOMAIN statisticsTable \cup C
      /\ \A v \in C : statisticsTable'[v] = E(v)
      /\ \A v \in DOMAIN statisticsTable \ C : statisticsTable'[v] = statisticsTable[v]
      /\ statisticsTable' = [v \in DOMAIN statisticsTable' |-> statisticsTable'[v]]
  BY DEF CountAll
<1>2. /\ counted' \in [Protocol -> [Interface -> Count]]
      /\ \A p \in Protocol, j \in Interface :
           counted'[p][j] = IF p \in protocols /\ j = i THEN Plus(counted[p][j], d) ELSE counted[p][j]
  <2>1. \A p \in Protocol, j \in Interface : counted[p][j] \in Count
    BY DEF IInv, TypeOK
  <2>2. counted' = [p \in Protocol |-> [j \in Interface |->
                      IF p \in protocols /\ j = i THEN Plus(counted[p][j], d) ELSE counted[p][j]]]
    BY DEF CountAll
  <2> QED BY <2>1, <2>2, PlusType
<1>3. ASSUME NEW p \in protocols
      PROVE  /\ Entry(protocols, i, value(p, i)).protocol = p
             /\ Entry(protocols, i, value(p, i)).target = i
             /\ Entry(protocols, i, value(p, i)).count = counted[p][i]
             /\ Entry(protocols, i, value(p, i)) \in TableEntry
  <2>1. CASE value(p, i) \in DOMAIN statisticsTable
    <3> DEFINE e == statisticsTable[value(p, i)]
    <3>1. e.protocol \in Protocol /\ e.target \in Interface /\ value(p, i) = value(e.protocol, e.target)
          /\ e.count = counted[e.protocol][e.target] /\ e \in TableEntry
      BY <2>1 DEF IInv, TypeOK, TableIsExact
    <3>2. e.protocol = p /\ e.target = i
      BY <3>1, ValueIsInjective
    <3> QED BY <2>1, <3>1, <3>2 DEF Entry
  <2>2. CASE value(p, i) \notin DOMAIN statisticsTable
    <3>1. (CHOOSE q \in protocols : value(q, i) = value(p, i)) = p
      BY ValueIsInjective
    <3>2. Entry(protocols, i, value(p, i)) = [protocol |-> p, target |-> i, count |-> NoCount]
      BY <2>2, <3>1 DEF Entry, NewEntry
    <3>3. counted[p][i] = NoCount
      BY <2>2 DEF IInv, TableIsExact
    <3> QED BY <3>2, <3>3 DEF TableEntry, NoCount, Count
  <2> QED BY <2>1, <2>2
<1>4. ASSUME NEW v \in C
      PROVE  \E p \in protocols : /\ v = value(p, i)
                                  /\ statisticsTable'[v] \in TableEntry
                                  /\ statisticsTable'[v].protocol = p
                                  /\ statisticsTable'[v].target = i
                                  /\ statisticsTable'[v].count = counted'[p][i]
  <2>1. PICK p \in protocols : v = value(p, i)
    BY DEF Counters
  <2> DEFINE e == Entry(protocols, i, v)
  <2>2. e \in TableEntry /\ e.protocol = p /\ e.target = i /\ e.count = counted[p][i]
    BY <1>3, <2>1
  <2> HIDE DEF e
  <2>3. statisticsTable'[v] = Counted(e, d)
    BY <1>1 DEF e
  <2>4. Plus(e.count, d) \in Count
    BY <2>2, PlusType DEF TableEntry
  <2>5. counted'[p][i] = Plus(counted[p][i], d)
    BY <1>2
  <2> QED BY <2>1, <2>2, <2>3, <2>4, <2>5 DEF TableEntry, Counted
<1>5. TypeOK'
  <2>1. \A v \in DOMAIN statisticsTable' : statisticsTable'[v] \in TableEntry
    BY <1>1, <1>4 DEF IInv, TypeOK
  <2> QED BY <1>1, <1>2, <2>1 DEF TypeOK
<1>6. TableIsExact'
  <2>1. ASSUME NEW v \in DOMAIN statisticsTable'
        PROVE  LET e == statisticsTable'[v] IN
               /\ e.protocol \in Protocol /\ e.target \in Interface
               /\ v = value(e.protocol, e.target)
               /\ e.count = counted'[e.protocol][e.target]
    <3>1. CASE v \in C
      BY <1>4, <3>1
    <3>2. CASE v \notin C
      <4> DEFINE e == statisticsTable[v]
      <4>1. /\ v \in DOMAIN statisticsTable /\ statisticsTable'[v] = e
            /\ e.protocol \in Protocol /\ e.target \in Interface
            /\ v = value(e.protocol, e.target) /\ e.count = counted[e.protocol][e.target]
        BY <1>1, <2>1, <3>2 DEF IInv, TableIsExact
      <4>2. ~(e.protocol \in protocols /\ e.target = i)
        BY <3>2, <4>1 DEF Counters
      <4> QED BY <1>2, <4>1, <4>2
    <3> QED BY <3>1, <3>2
  <2>2. ASSUME NEW p \in Protocol, NEW j \in Interface, value(p, j) \notin DOMAIN statisticsTable'
        PROVE  counted'[p][j] = NoCount
    <3>1. value(p, j) \notin C /\ counted[p][j] = NoCount
      BY <1>1, <2>2 DEF IInv, TableIsExact
    <3>2. ~(p \in protocols /\ j = i)
      BY <3>1 DEF Counters
    <3> QED BY <1>2, <3>1, <3>2
  <2> QED BY <2>1, <2>2 DEF TableIsExact
<1> QED BY <1>5, <1>6 DEF IInv

LEMMA ClearOneStep ==
  ASSUME SpacedIds, IInv, NEW i \in Interface, clearInterfaceStats(i)
  PROVE  IInv'
<1>1. /\ \A v \in DOMAIN statisticsTable' : /\ v \in DOMAIN statisticsTable
                                            /\ statisticsTable'[v] = statisticsTable[v]
                                            /\ statisticsTable[v].target # i
      /\ \A v \in DOMAIN statisticsTable : statisticsTable[v].target # i => v \in DOMAIN statisticsTable'
      /\ statisticsTable' = [v \in DOMAIN statisticsTable' |-> statisticsTable'[v]]
  BY DEF clearInterfaceStats
<1>2. counted' = [p \in Protocol |-> [j \in Interface |-> IF j = i THEN NoCount ELSE counted[p][j]]]
  BY DEF clearInterfaceStats
<1>3. NoCount \in Count
  BY DEF NoCount, Count
<1>4. TypeOK'
  BY <1>1, <1>2, <1>3 DEF IInv, TypeOK
<1>5. \A p \in Protocol, j \in Interface :
        value(p, j) \notin DOMAIN statisticsTable' => counted'[p][j] = NoCount
  <2> SUFFICES ASSUME NEW p \in Protocol, NEW j \in Interface, j # i,
                      value(p, j) \in DOMAIN statisticsTable
               PROVE  value(p, j) \in DOMAIN statisticsTable'
    BY <1>2 DEF IInv, TableIsExact
  <2> DEFINE e == statisticsTable[value(p, j)]
  <2>1. e.protocol \in Protocol /\ e.target \in Interface /\ value(p, j) = value(e.protocol, e.target)
    BY DEF IInv, TableIsExact
  <2>2. e.target = j
    BY <2>1, ValueIsInjective
  <2> QED BY <1>1, <2>2
<1>6. TableIsExact'
  BY <1>1, <1>2, <1>5 DEF IInv, TableIsExact
<1> QED BY <1>4, <1>6 DEF IInv

LEMMA EmptyTable ==
  /\ Init => IInv
  /\ clearStats => IInv'
<1>1. NoCount \in Count
  BY DEF NoCount, Count
<1>2. Init => IInv
  BY <1>1 DEF Init, IInv, TypeOK, TableIsExact
<1>3. clearStats => IInv'
  BY <1>1 DEF clearStats, IInv, TypeOK, TableIsExact
<1> QED BY <1>2, <1>3

LEMMA InvStep == SpacedIds /\ IInv /\ [Next]_vars => IInv'
<1> SUFFICES ASSUME SpacedIds, IInv, [Next]_vars PROVE IInv'
  OBVIOUS
<1>1. ASSUME NEW i \in Interface, NEW packet \in Packet,
             inputStatistics(packet, i) \/ outputStatistics(packet, i)
      PROVE  IInv'
  <2>1. InputProtocols(packet) \in SUBSET Protocol /\ OutputProtocols(packet) \in SUBSET Protocol
    BY StatisticsAssumption DEF InputProtocols, OutputProtocols, Http, Protocol
  <2> QED BY <1>1, <2>1, CountStep DEF inputStatistics, outputStatistics
<1>2. CASE clearStats
  BY <1>2, EmptyTable
<1>3. ASSUME NEW i \in Interface, clearInterfaceStats(i) PROVE IInv'
  BY <1>3, ClearOneStep
<1>4. CASE UNCHANGED vars
  BY <1>4 DEF vars, IInv, TypeOK, TableIsExact
<1> QED BY <1>1, <1>2, <1>3, <1>4 DEF Next

LEMMA ExactMeansShown == SpacedIds /\ IInv => ShowsWhatWasCounted
<1> SUFFICES ASSUME SpacedIds, IInv, NEW p \in Protocol, NEW i \in Interface
             PROVE  LET rows == {v \in Rows(i) : statisticsTable[v].protocol = p} IN
                    /\ \A v \in rows : statisticsTable[v].count = counted[p][i]
                    /\ rows = {} => counted[p][i] = NoCount
  BY DEF ShowsWhatWasCounted
<1>1. \A v \in Rows(i) : statisticsTable[v].protocol = p => statisticsTable[v].count = counted[p][i]
  BY DEF Rows, IInv, TableIsExact
<1>2. CASE value(p, i) \in DOMAIN statisticsTable
  <2> DEFINE e == statisticsTable[value(p, i)]
  <2>1. e.protocol \in Protocol /\ e.target \in Interface /\ value(p, i) = value(e.protocol, e.target)
    BY <1>2 DEF IInv, TableIsExact
  <2>2. e.protocol = p /\ e.target = i
    BY <2>1, ValueIsInjective
  <2> QED BY <1>1, <1>2, <2>2 DEF Rows
<1>3. CASE value(p, i) \notin DOMAIN statisticsTable
  BY <1>1, <1>3 DEF IInv, TableIsExact
<1> QED BY <1>2, <1>3

\* Between interfaces whose ids are at least seven apart, every counter that
\* is shown is the number of packets counted since the last clear.
THEOREM CountersAreExact == SpacedIds => (Spec => []ShowsWhatWasCounted)
<1> SUFFICES ASSUME SpacedIds PROVE Spec => []ShowsWhatWasCounted
  OBVIOUS
<1>1. Init => IInv
  BY EmptyTable
<1>2. IInv /\ [Next]_vars => IInv'
  BY InvStep
<1>3. IInv => ShowsWhatWasCounted
  BY ExactMeansShown
<1> QED BY <1>1, <1>2, <1>3, PTL DEF Spec

------------------------------------------------------------------------------
(* Types, whatever the ids                                                  *)

LEMMA CountTypes ==
  ASSUME TypeOK, NEW protocols \in SUBSET Protocol, NEW i \in Interface,
         NEW d \in {"input", "output"}, CountAll(protocols, i, d)
  PROVE  TypeOK'
<1> DEFINE C == Counters(protocols, i)
           E(v) == Counted(Entry(protocols, i, v), d)
<1>1. \A p \in Protocol, j \in Interface : counted[p][j] \in Count
  BY DEF TypeOK
<1>2. counted' \in [Protocol -> [Interface -> Count]]
  <2>1. counted' = [p \in Protocol |-> [j \in Interface |->
                      IF p \in protocols /\ j = i THEN Plus(counted[p][j], d) ELSE counted[p][j]]]
    BY DEF CountAll
  <2> QED BY <1>1, <2>1, PlusType
<1>3. ASSUME NEW v \in C PROVE Entry(protocols, i, v) \in TableEntry
  <2>1. CASE v \in DOMAIN statisticsTable
    BY <2>1 DEF Entry, TypeOK
  <2>2. CASE v \notin DOMAIN statisticsTable
    <3>1. \E p \in protocols : value(p, i) = v
      BY DEF Counters
    <3>2. (CHOOSE q \in protocols : value(q, i) = v) \in Protocol
      BY <3>1
    <3>3. NoCount \in Count
      BY DEF NoCount, Count
    <3> QED BY <2>2, <3>2, <3>3 DEF Entry, NewEntry, TableEntry
  <2> QED BY <2>1, <2>2
<1>4. ASSUME NEW v \in C PROVE E(v) \in TableEntry
  <2>1. Entry(protocols, i, v) \in TableEntry
    BY <1>3
  <2>2. Plus(Entry(protocols, i, v).count, d) \in Count
    BY <2>1, PlusType DEF TableEntry
  <2> QED BY <2>1, <2>2 DEF Counted, TableEntry
<1>5. /\ DOMAIN statisticsTable' = DOMAIN statisticsTable \cup C
      /\ statisticsTable' = [v \in DOMAIN statisticsTable \cup C |->
                              IF v \in C THEN E(v) ELSE statisticsTable[v]]
  BY DEF CountAll
<1>6. \A v \in DOMAIN statisticsTable : statisticsTable[v] \in TableEntry
  BY DEF TypeOK
<1> HIDE DEF E, C
<1>7. statisticsTable' \in [DOMAIN statisticsTable' -> TableEntry]
  BY <1>4, <1>5, <1>6
<1> QED BY <1>2, <1>7 DEF TypeOK

\* The table and the true counts keep their types, also when keys collide.
THEOREM TypeCorrect == Spec => []TypeOK
<1>1. Init => TypeOK
  BY EmptyTable DEF Init, TypeOK, NoCount, Count
<1>2. TypeOK /\ [Next]_vars => TypeOK'
  <2> SUFFICES ASSUME TypeOK, [Next]_vars PROVE TypeOK'
    OBVIOUS
  <2>1. ASSUME NEW i \in Interface, NEW packet \in Packet,
               inputStatistics(packet, i) \/ outputStatistics(packet, i)
        PROVE  TypeOK'
    <3>1. InputProtocols(packet) \in SUBSET Protocol /\ OutputProtocols(packet) \in SUBSET Protocol
      BY StatisticsAssumption DEF InputProtocols, OutputProtocols, Http, Protocol
    <3> QED BY <2>1, <3>1, CountTypes DEF inputStatistics, outputStatistics
  <2>2. CASE clearStats
    BY <2>2 DEF clearStats, TypeOK, NoCount, Count
  <2>3. ASSUME NEW i \in Interface, clearInterfaceStats(i) PROVE TypeOK'
    <3>1. counted' \in [Protocol -> [Interface -> Count]]
      BY <2>3 DEF clearInterfaceStats, TypeOK, NoCount, Count
    <3>2. statisticsTable' \in [DOMAIN statisticsTable' -> TableEntry]
      BY <2>3 DEF clearInterfaceStats, TypeOK
    <3> QED BY <3>1, <3>2 DEF TypeOK
  <2>4. CASE UNCHANGED vars
    BY <2>4 DEF vars, TypeOK
  <2> QED BY <2>1, <2>2, <2>3, <2>4 DEF Next
<1> QED BY <1>1, <1>2, PTL DEF Spec

==============================================================================
