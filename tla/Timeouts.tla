------------------------------- MODULE Timeouts -------------------------------
(***************************************************************************)
(* The arithmetic of the MAC timeouts.  The window and PUT /device/edit    *)
(* give them in seconds, DeviceInfo keeps milliseconds, the clock counts   *)
(* nanoseconds, all in 64-bit integers.  Forwarding takes an expired entry *)
(* for one that is older than its timeout; here that is what has to be     *)
(* shown, for the timeouts with which no product overflows.                *)
(***************************************************************************)
EXTENDS Integers, Tables

CONSTANTS
  MaxRep,          \* the largest of the 64-bit integers
  PerSecond,       \* milliseconds in a second
  PerMillisecond,  \* nanoseconds in a millisecond
  Asked,           \* the timeouts a request can carry
  Offered,         \* the timeouts of the spin box in InfoTable
  DefaultTimeout,  \* DEFAULT_MAC_TIMEOUT, in seconds
  Uptime,          \* how far the clock runs
  Station

Rep == -MaxRep - 1 .. MaxRep

\* The product of a timeout and both units is within the 64 bits, also as a
\* distance from any reading of the clock.
Fits(n) ==
  /\ n * PerSecond \in Rep
  /\ (n * PerSecond) * PerMillisecond \in Rep
  /\ (n * PerSecond) * PerMillisecond + Uptime <= MaxRep

\* The spin box offers 1 to 1200 seconds.
ASSUME TimeoutAssumption ==
  /\ MaxRep \in Nat /\ Uptime \in 0..MaxRep
  /\ PerSecond \in Nat \ {0} /\ PerMillisecond \in Nat \ {0}
  /\ Asked \subseteq Rep /\ Offered \subseteq Asked
  /\ \A n \in Offered \cup {DefaultTimeout} : n \in Rep /\ Fits(n)

VARIABLES
  now,               \* steady_clock::now()
  defaultMacTimeout, \* storage.deviceInfo.defaultMacTimeout
  macTable,          \* the start and duration of each entry's timeout
  asked,             \* history: the seconds last asked for
  askedFor           \* history: the seconds asked for before each was learned

vars == <<now, defaultMacTimeout, macTable, asked, askedFor>>

------------------------------------------------------------------------------

\* Signed overflow is undefined; compiled for a 64-bit machine, it wraps.
Wrap(x) == IF x \in Rep THEN x ELSE ((x + MaxRep + 1) % (2 * (MaxRep + 1))) - (MaxRep + 1)

\* Integer division truncates towards zero.
Truncated(a, b) == IF a >= 0 THEN a \div b ELSE -((-a) \div b)

\* duration_cast<milliseconds>(seconds{n})
Milliseconds(n) == Wrap(n * PerSecond)

\* start + duration
Ends(e) == Wrap(e.start + Wrap(e.duration * PerMillisecond))

expired(e) == Ends(e) < now

\* Slip: the time since the start is forgotten.
SlipTimeLeft(e) == Truncated(Wrap(Ends(e) - e.start), PerMillisecond)

timeLeft(e) == Truncated(Wrap(Ends(e) - now), PerMillisecond)

\* What GET and PUT /device answer and the label currentTimeout shows.
ShownTimeout == Truncated(defaultMacTimeout, PerSecond)

\* The column of the MAC table.
ShownLeft(e) == Truncated(timeLeft(e), PerSecond)

------------------------------------------------------------------------------

Init ==
  /\ now = 0
  /\ defaultMacTimeout = Milliseconds(DefaultTimeout)
  /\ macTable = Empty
  /\ asked = DefaultTimeout
  /\ askedFor = Empty

\* NetworkSwitch::setMacTimeout and PUT /device/edit.
setTimeout(n) ==
  /\ defaultMacTimeout' = Milliseconds(n)
  /\ asked' = n
  /\ UNCHANGED <<now, macTable, askedFor>>

onApplyTimeout == \E n \in Offered : setTimeout(n)

putDevice == \E n \in Asked : setTimeout(n)

learn(s) ==
  /\ macTable' = Insert(macTable, s, [start |-> now, duration |-> defaultMacTimeout])
  /\ askedFor' = Insert(askedFor, s, asked)
  /\ UNCHANGED <<now, defaultMacTimeout, asked>>

\* Slip: the entries get the present timeout as well.
SlipResetMacDuration ==
  /\ macTable' = [s \in DOMAIN macTable |-> [start |-> now, duration |-> defaultMacTimeout]]
  /\ UNCHANGED <<now, defaultMacTimeout, asked, askedFor>>

resetMac ==
  /\ macTable' = [s \in DOMAIN macTable |-> [macTable[s] EXCEPT !.start = now]]
  /\ UNCHANGED <<now, defaultMacTimeout, asked, askedFor>>

\* Slip: the current default timeout is used for every entry.
SlipUpdateMacByDefault ==
  LET Alive(s) == ~expired([macTable[s] EXCEPT !.duration = defaultMacTimeout]) IN
  /\ macTable' = Keep(macTable, Alive)
  /\ askedFor' = Keep(askedFor, Alive)
  /\ UNCHANGED <<now, defaultMacTimeout, asked>>

updateMac ==
  /\ macTable' = Keep(macTable, LAMBDA s : ~expired(macTable[s]))
  /\ askedFor' = Keep(askedFor, LAMBDA s : ~expired(macTable[s]))
  /\ UNCHANGED <<now, defaultMacTimeout, asked>>

\* startNetwork: storage_m.reset()
startNetwork ==
  /\ defaultMacTimeout' = Milliseconds(DefaultTimeout)
  /\ macTable' = Empty
  /\ asked' = DefaultTimeout
  /\ askedFor' = Empty
  /\ UNCHANGED now

Tick == now < Uptime /\ now' = now + 1 /\ UNCHANGED <<defaultMacTimeout, macTable, asked, askedFor>>

Next ==
  \/ onApplyTimeout \/ putDevice
  \/ \E s \in Station : learn(s)
  \/ resetMac \/ updateMac \/ startNetwork
  \/ Tick

\* The purge timer of the GUI fires.
Spec == Init /\ [][Next]_vars /\ WF_vars(updateMac)

------------------------------------------------------------------------------
(* Properties *)

TypeOK ==
  /\ now \in 0..Uptime
  /\ defaultMacTimeout \in Rep
  /\ IsTable(macTable, Station, [start : 0..Uptime, duration : Rep])
  /\ asked \in Rep
  /\ IsTable(askedFor, DOMAIN macTable, Rep)

\* An entry expires when as many seconds have passed since the station was heard, or
\* the timeouts were reset, as were asked for before it was learned, neither
\* earlier nor later: for all the window offers, and for what fits of the rest.
ExpiresAsAsked ==
  \A s \in DOMAIN macTable : Fits(askedFor[s]) =>
    ( expired(macTable[s])
        <=> now - macTable[s].start > (askedFor[s] * PerSecond) * PerMillisecond )

\* No entry stays expired, whatever timeout it was learned with and however it
\* is changed meanwhile: learned again, reset, or purged.
ExpiredMacPurged ==
  \A s \in Station :
    (s \in DOMAIN macTable /\ expired(macTable[s]))
      ~> (s \in DOMAIN macTable => ~expired(macTable[s]))

\* The timeout that is shown is the one that was asked for, and whoever reads
\* the table does not see more time left than that, nor any of an expired entry.
ShownIsAsked ==
  /\ Fits(asked) => ShownTimeout = asked
  /\ \A s \in DOMAIN macTable : Fits(askedFor[s]) /\ askedFor[s] >= 0 =>
       /\ ShownLeft(macTable[s]) <= askedFor[s]
       /\ ShownLeft(macTable[s]) > 0 => ~expired(macTable[s])
       /\ ShownLeft(macTable[s]) < 0 => expired(macTable[s])

==============================================================================
