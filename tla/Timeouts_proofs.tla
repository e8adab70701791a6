--------------------------- MODULE Timeouts_proofs ---------------------------
(***************************************************************************)
(* For every width of the integers, every pair of units and every set of   *)
(* timeouts, an entry whose timeout fits expires when it was asked to.     *)
(***************************************************************************)
EXTENDS Timeouts, TLAPS

\* An entry holds what was asked for before it was learned, in milliseconds.
DurationsAsAsked ==
  /\ defaultMacTimeout = Milliseconds(asked)
  /\ \A s \in DOMAIN macTable : macTable[s].duration = Milliseconds(askedFor[s])

NoStartAhead == \A s \in DOMAIN macTable : macTable[s].start <= now

SameEntries == DOMAIN askedFor = DOMAIN macTable

IInv == TypeOK /\ SameEntries /\ DurationsAsAsked /\ NoStartAhead

LEMMA WrapIsRep == ASSUME NEW x \in Int PROVE Wrap(x) \in Rep
<1>1. MaxRep \in Nat
  BY TimeoutAssumption
<1> DEFINE m == 2 * (MaxRep + 1)
<1>2. m \in Nat /\ m > 0
  BY <1>1
<1>3. x + MaxRep + 1 \in Int
  BY <1>1
<1>4. \A y \in Int, k \in Nat : k > 0 => y % k \in 0..(k - 1)
  OBVIOUS
<1>5. (x + MaxRep + 1) % m \in 0..(m - 1)
  BY <1>2, <1>3, <1>4
<1>6. \A r \in 0..(m - 1) : r - (MaxRep + 1) \in -MaxRep - 1 .. MaxRep
  BY <1>1
<1> QED BY <1>5, <1>6 DEF Wrap, Rep

LEMMA MillisecondsIsRep == ASSUME NEW n \in Rep PROVE Milliseconds(n) \in Rep
<1>1. n \in Int /\ PerSecond \in Int
  BY TimeoutAssumption DEF Rep
<1>2. n * PerSecond \in Int
  BY <1>1
<1> QED BY <1>2, WrapIsRep DEF Milliseconds

------------------------------------------------------------------------------

LEMMA InitInv == Init => IInv
<1> SUFFICES ASSUME Init PROVE IInv
  OBVIOUS
<1>1. DefaultTimeout \in Rep /\ 0 \in 0..Uptime
  BY TimeoutAssumption
<1> QED BY <1>1, MillisecondsIsRep
        DEF Init, IInv, TypeOK, SameEntries, DurationsAsAsked, NoStartAhead, IsTable, Empty

LEMMA InvStep == IInv /\ [Next]_vars => IInv'
<1> SUFFICES ASSUME IInv, [Next]_vars PROVE IInv'
  OBVIOUS
<1> DEFINE E == [start : 0..Uptime, duration : Rep]
<1>1. /\ now \in 0..Uptime /\ defaultMacTimeout \in Rep /\ asked \in Rep
      /\ DOMAIN macTable \subseteq Station
      /\ DOMAIN askedFor = DOMAIN macTable
      /\ \A s \in DOMAIN macTable : macTable[s] \in E /\ askedFor[s] \in Rep
      /\ macTable = [s \in DOMAIN macTable |-> macTable[s]]
      /\ askedFor = [s \in DOMAIN askedFor |-> askedFor[s]]
  BY DEF IInv, TypeOK, SameEntries, IsTable
<1>2. CASE onApplyTimeout \/ putDevice
  <2>1. PICK n \in Rep : setTimeout(n)
    BY <1>2, TimeoutAssumption DEF onApplyTimeout, putDevice
  <2>2. Milliseconds(n) \in Rep
    BY MillisecondsIsRep
  <2> QED BY <2>1, <2>2 DEF setTimeout, IInv, TypeOK, SameEntries, DurationsAsAsked, NoStartAhead
<1>3. ASSUME NEW s \in Station, learn(s) PROVE IInv'
  <2>1. /\ macTable' = Insert(macTable, s, [start |-> now, duration |-> defaultMacTimeout])
        /\ askedFor' = Insert(askedFor, s, asked)
        /\ UNCHANGED <<now, defaultMacTimeout, asked>>
    BY <1>3 DEF learn
  <2>2. /\ DOMAIN macTable' = DOMAIN macTable \cup {s} /\ DOMAIN askedFor' = DOMAIN macTable'
        /\ \A x \in DOMAIN macTable' :
             /\ macTable'[x] = IF x = s THEN [start |-> now, duration |-> defaultMacTimeout] ELSE macTable[x]
             /\ askedFor'[x] = IF x = s THEN asked ELSE askedFor[x]
        /\ macTable' = [x \in DOMAIN macTable' |-> macTable'[x]]
        /\ askedFor' = [x \in DOMAIN askedFor' |-> askedFor'[x]]
    BY <1>1, <2>1 DEF Insert
  <2>3. \A x \in DOMAIN macTable' : macTable'[x] \in E /\ askedFor'[x] \in Rep
    BY <1>1, <2>2
  <2>4. TypeOK' /\ SameEntries'
    BY <1>1, <2>1, <2>2, <2>3 DEF TypeOK, SameEntries, IsTable
  <2>5. DurationsAsAsked' /\ NoStartAhead'
    BY <1>1, <2>1, <2>2 DEF IInv, DurationsAsAsked, NoStartAhead
  <2> QED BY <2>4, <2>5 DEF IInv
<1>4. CASE resetMac
  <2>1. /\ DOMAIN macTable' = DOMAIN macTable
        /\ \A s \in DOMAIN macTable : macTable'[s] = [macTable[s] EXCEPT !.start = now]
        /\ macTable' = [s \in DOMAIN macTable |-> macTable'[s]]
        /\ UNCHANGED <<now, defaultMacTimeout, asked, askedFor>>
    BY <1>4 DEF resetMac
  <2>2. \A s \in DOMAIN macTable : /\ macTable'[s] \in E /\ macTable'[s].start = now
                                   /\ macTable'[s].duration = macTable[s].duration
    BY <1>1, <2>1
  <2> QED BY <1>1, <2>1, <2>2
          DEF IInv, TypeOK, SameEntries, DurationsAsAsked, NoStartAhead, IsTable
<1>5. CASE updateMac
  <2> DEFINE K == {s \in DOMAIN macTable : ~expired(macTable[s])}
  <2>1. K \subseteq DOMAIN macTable
    OBVIOUS
  <2>2. /\ macTable' = [s \in K |-> macTable[s]]
        /\ askedFor' = [s \in {x \in DOMAIN askedFor : ~expired(macTable[x])} |-> askedFor[s]]
        /\ UNCHANGED <<now, defaultMacTimeout, asked>>
    BY <1>5 DEF updateMac, Keep
  <2> HIDE DEF K
  <2>3. askedFor' = [s \in K |-> askedFor[s]]
    BY <1>1, <2>2 DEF K
  <2> QED BY <1>1, <2>1, <2>2, <2>3
          DEF IInv, TypeOK, SameEntries, DurationsAsAsked, NoStartAhead, IsTable
<1>6. CASE startNetwork
  <2>1. DefaultTimeout \in Rep
    BY TimeoutAssumption
  <2> QED BY <1>1, <1>6, <2>1, MillisecondsIsRep
          DEF startNetwork, IInv, TypeOK, SameEntries, DurationsAsAsked, NoStartAhead, IsTable, Empty
<1>7. CASE Tick
  <2>1. now' \in 0..Uptime /\ now' > now
    BY <1>1, <1>7, TimeoutAssumption DEF Tick
  <2>2. \A s \in DOMAIN macTable : macTable[s].start <= now'
    BY <1>1, <2>1 DEF IInv, NoStartAhead
  <2> QED BY <1>7, <2>1, <2>2
          DEF Tick, IInv, TypeOK, SameEntries, DurationsAsAsked, NoStartAhead
<1>8. CASE UNCHANGED vars
  BY <1>8 DEF vars, IInv, TypeOK, SameEntries, DurationsAsAsked, NoStartAhead
<1> QED BY <1>2, <1>3, <1>4, <1>5, <1>6, <1>7, <1>8 DEF Next

\* Every reachable state satisfies the strengthened invariant: the timeout of an
\* entry is the one last asked for when it was learned.
THEOREM Inductive == Spec => []IInv
  BY InitInv, InvStep, PTL DEF Spec

\* The clock, the timeout and the table keep their types: what overflows is
\* still a number of milliseconds.
THEOREM TypeCorrect == Spec => []TypeOK
  BY Inductive, PTL DEF IInv

\* Where the timeout fits, no wrap gets in the way of an entry's end.
LEMMA EndsAsAsked ==
  ASSUME IInv, NEW s \in DOMAIN macTable, Fits(askedFor[s])
  PROVE  Ends(macTable[s]) = macTable[s].start + (askedFor[s] * PerSecond) * PerMillisecond
<1> DEFINE n == askedFor[s]
           d == (n * PerSecond) * PerMillisecond
           start == macTable[s].start
<1>1. macTable[s].duration = n * PerSecond
  BY DEF IInv, DurationsAsAsked, Milliseconds, Wrap, Fits
<1>2. Wrap(macTable[s].duration * PerMillisecond) = d
  BY <1>1 DEF Wrap, Fits
<1>3. /\ d \in Int /\ -MaxRep - 1 <= d /\ d + Uptime <= MaxRep
      /\ start \in Int /\ 0 <= start /\ start <= now /\ now \in Int /\ now <= Uptime
      /\ MaxRep \in Int /\ Uptime \in Int
  BY TimeoutAssumption DEF Fits, Rep, IInv, TypeOK, NoStartAhead, IsTable
<1>4. Ends(macTable[s]) = Wrap(start + d)
  BY <1>2 DEF Ends
<1> HIDE DEF d, start, n
<1>5. start + d \in -MaxRep - 1 .. MaxRep
  BY <1>3
<1>6. Ends(macTable[s]) = start + d
  BY <1>4, <1>5 DEF Wrap, Rep
<1> QED BY <1>6 DEF d, start, n

\* An entry whose timeout fits is expired exactly when more time has passed
\* since its start than was asked for.
THEOREM ExpiresOnTime == Spec => []ExpiresAsAsked
<1>1. ASSUME IInv, NEW s \in DOMAIN macTable, Fits(askedFor[s])
      PROVE  expired(macTable[s])
               <=> now - macTable[s].start > (askedFor[s] * PerSecond) * PerMillisecond
  <2> DEFINE d == (askedFor[s] * PerSecond) * PerMillisecond
  <2>1. Ends(macTable[s]) = macTable[s].start + d
    BY <1>1, EndsAsAsked
  <2>2. d \in Int /\ macTable[s].start \in Int /\ now \in Int
    BY <1>1, TimeoutAssumption DEF Fits, Rep, IInv, TypeOK, IsTable
  <2> HIDE DEF d
  <2>3. macTable[s].start + d < now <=> now - macTable[s].start > d
    BY <2>2
  <2> QED BY <2>1, <2>3 DEF expired, d
<1>2. IInv => ExpiresAsAsked
  BY <1>1 DEF ExpiresAsAsked
<1> QED BY <1>2, Inductive, PTL

------------------------------------------------------------------------------
(* The divisions *)

\* Division rounds down: it takes away what the multiplication put there, and
\* a bound on what is divided becomes a bound on the quotient.
LEMMA Quotient ==
  ASSUME NEW a \in Nat, NEW b \in Nat \ {0}, NEW q \in Nat, a <= q * b
  PROVE  /\ a \div b \in Nat /\ a \div b <= q
         /\ a = q * b => a \div b = q
         /\ a \div b > 0 => a > 0
<1> DEFINE k == a \div b
<1>1. k \in Nat
  OBVIOUS
<1>2. b * k <= a /\ a < b * k + b
  OBVIOUS
<1> HIDE DEF k
<1>3. \A p, r \in Nat : p < r => b * p + b <= b * r
  <2> SUFFICES ASSUME NEW p \in Nat, NEW r \in Nat, p < r PROVE b * p + b <= b * r
    OBVIOUS
  <2>1. b * (r - (p + 1)) >= 0
    OBVIOUS
  <2> QED BY <2>1
<1>4. q * b = b * q /\ b * q \in Nat /\ b * k \in Nat
  BY <1>1
<1>5. k <= q
  <2> SUFFICES ASSUME q < k PROVE FALSE
    BY <1>1
  <2>1. b * q + b <= b * k
    BY <1>1, <1>3
  <2> QED BY <1>2, <1>4, <2>1
<1>6. ASSUME a = q * b PROVE k = q
  <2> SUFFICES ASSUME k < q PROVE FALSE
    BY <1>1, <1>5
  <2>1. b * k + b <= b * q
    BY <1>1, <1>3
  <2> QED BY <1>2, <1>4, <1>6, <2>1
<1>7. ASSUME k > 0 PROVE a > 0
  <2>1. b * 0 + b <= b * k
    BY <1>1, <1>3, <1>7
  <2>2. b * 0 = 0 /\ b > 0
    OBVIOUS
  <2> QED BY <1>2, <1>4, <2>1, <2>2
<1> QED BY <1>1, <1>5, <1>6, <1>7 DEF k

\* The same of the division that truncates, for either sign.
LEMMA TruncatedProduct ==
  ASSUME NEW n \in Int, NEW b \in Nat \ {0} PROVE Truncated(n * b, b) = n
<1>1. CASE n >= 0
  <2>1. n \in Nat /\ n * b \in Nat
    BY <1>1
  <2> QED BY <2>1, Quotient DEF Truncated
<1>2. CASE n < 0
  <2>1. -n \in Nat /\ -(n * b) = (-n) * b /\ (-n) * b \in Nat
    BY <1>2
  <2>2. n * b < 0
    <3>1. (-n) * b > 0
      BY <1>2
    <3> QED BY <2>1, <3>1
  <2>3. (-(n * b)) \div b = -n
    BY <2>1, Quotient
  <2>4. n * b \in Int /\ ~(n * b >= 0)
    BY <2>2
  <2> QED BY <2>3, <2>4 DEF Truncated
<1> QED BY <1>1, <1>2

LEMMA TruncatedBound ==
  ASSUME NEW a \in Int, NEW b \in Nat \ {0}, NEW q \in Nat, a <= q * b
  PROVE  /\ Truncated(a, b) \in Int /\ Truncated(a, b) <= q
         /\ Truncated(a, b) > 0 => a > 0
         /\ Truncated(a, b) < 0 => a < 0
<1>1. CASE a >= 0
  <2>1. a \in Nat
    BY <1>1
  <2>2. a \div b \in Nat /\ a \div b <= q /\ (a \div b > 0 => a > 0)
    BY <2>1, Quotient
  <2>3. Truncated(a, b) = a \div b
    BY <1>1 DEF Truncated
  <2> QED BY <2>2, <2>3
<1>2. CASE a < 0
  <2>1. -a \in Nat
    BY <1>2
  <2>2. (-a) \div b \in Nat
    BY <2>1
  <2>3. Truncated(a, b) = -((-a) \div b)
    BY <1>2 DEF Truncated
  <2> QED BY <1>2, <2>2, <2>3
<1> QED BY <1>1, <1>2

\* The timeout shown is the one last asked for, unless it overflows, and the time
\* left of an entry is never more than what it was learned with, nor has the wrong sign.
THEOREM ShowsWhatWasAsked == Spec => []ShownIsAsked
<1>1. IInv => (Fits(asked) => ShownTimeout = asked)
  <2> SUFFICES ASSUME IInv, Fits(asked) PROVE ShownTimeout = asked
    OBVIOUS
  <2>1. defaultMacTimeout = asked * PerSecond
    BY DEF IInv, DurationsAsAsked, Milliseconds, Wrap, Fits
  <2>2. asked \in Int
    BY TimeoutAssumption DEF IInv, TypeOK, Rep
  <2> QED BY <2>1, <2>2, TimeoutAssumption, TruncatedProduct DEF ShownTimeout
<1>2. ASSUME IInv, NEW s \in DOMAIN macTable, Fits(askedFor[s]), askedFor[s] >= 0
      PROVE  /\ ShownLeft(macTable[s]) <= askedFor[s]
             /\ ShownLeft(macTable[s]) > 0 => ~expired(macTable[s])
             /\ ShownLeft(macTable[s]) < 0 => expired(macTable[s])
  <2> DEFINE n == askedFor[s]
             e == macTable[s]
             d == (n * PerSecond) * PerMillisecond
             left == e.start + d - now
  <2>1. n \in Nat /\ n * PerSecond \in Nat /\ d \in Nat /\ d + Uptime <= MaxRep
    <3>1. n \in Nat
      BY <1>2, TimeoutAssumption DEF IInv, TypeOK, IsTable, SameEntries, Rep
    <3>2. n * PerSecond \in Nat
      BY <3>1, TimeoutAssumption
    <3>3. d \in Nat
      BY <3>2, TimeoutAssumption
    <3> QED BY <1>2, <3>1, <3>2, <3>3 DEF Fits
  <2>2. /\ e.start \in Int /\ 0 <= e.start /\ e.start <= now
        /\ now \in Int /\ now <= Uptime /\ MaxRep \in Int /\ Uptime \in Int
    BY <1>2, TimeoutAssumption DEF IInv, TypeOK, NoStartAhead, IsTable
  <2>3. Ends(e) = e.start + d
    BY <1>2, EndsAsAsked
  <2> HIDE DEF n, e, d
  <2>4. left \in -MaxRep - 1 .. MaxRep /\ left \in Int /\ left <= d
    BY <2>1, <2>2
  <2>5. timeLeft(e) = Truncated(left, PerMillisecond)
    <3>1. Ends(e) - now = left
      BY <2>1, <2>2, <2>3
    <3> HIDE DEF left
    <3>2. Wrap(left) = left
      BY <2>4 DEF Wrap, Rep
    <3> QED BY <3>1, <3>2 DEF timeLeft
  <2>6. expired(e) <=> left < 0
    BY <2>1, <2>2, <2>3 DEF expired
  <2> HIDE DEF left
  <2>7. /\ timeLeft(e) \in Int /\ timeLeft(e) <= n * PerSecond
        /\ timeLeft(e) > 0 => left > 0
        /\ timeLeft(e) < 0 => left < 0
    BY <2>1, <2>4, <2>5, TruncatedBound, TimeoutAssumption DEF d
  <2>8. /\ ShownLeft(e) \in Int /\ ShownLeft(e) <= n
        /\ ShownLeft(e) > 0 => timeLeft(e) > 0
        /\ ShownLeft(e) < 0 => timeLeft(e) < 0
    BY <2>1, <2>7, TruncatedBound, TimeoutAssumption DEF ShownLeft
  <2>9. /\ ShownLeft(e) <= n
        /\ ShownLeft(e) > 0 => ~expired(e)
        /\ ShownLeft(e) < 0 => expired(e)
    BY <2>4, <2>6, <2>7, <2>8
  <2> QED BY <2>9 DEF n, e
<1>3. IInv => ShownIsAsked
  BY <1>1, <1>2 DEF ShownIsAsked
<1> QED BY <1>3, Inductive, PTL

==============================================================================
