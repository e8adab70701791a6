----------------------------- MODULE MCForwarding -----------------------------
(* Two interfaces and two hosts, which may be on either segment.            *)
EXTENDS Forwarding

CONSTANTS h1, h2, w1, w2, all    \* two hosts, two interfaces, the broadcast address

MCPort    == {1, 2}
MCStation == {h1, h2, w1, w2}
MCGroup   == {all}
MCHw      == <<w1, w2>>
MCBody    == {0}

Say(p, s, d, big) == [from |-> p, frame |-> [src |-> s, dst |-> d, jumbo |-> big, body |-> 0]]

Said == <<
  Say(1, h1, h2, FALSE), Say(1, h1, h2, FALSE),   \* a request, and again
  Say(2, h2, h1, FALSE),                          \* the answer
  Say(2, h1, h2, FALSE),    \* the request again, from a host that has moved to the other
  Say(1, h1, all, FALSE),                         \* a broadcast
  Say(1, h1, w2, FALSE),                          \* to the far interface
  Say(1, w1, h1, FALSE),                          \* from the machine itself
  Say(1, h1, h2, TRUE),                           \* a jumbo frame for a wireless segment
  Say(1, h1, h1, FALSE), Say(2, h2, w2, FALSE)>>  \* to oneself, to the interface at hand

MCTx     == DOMAIN Said
MCFrame  == [t \in MCTx |-> Said[t].frame]
MCOrigin == [t \in MCTx |-> Said[t].from]

\* Stations make the transmissions of one of these, in any order: a dialogue, one in which
\* a host moves, and those that reach the callback's other branches.
Scenario == {{1, 2, 3}, {1, 3, 4}, {5, 6}, {7, 8}, {3, 9, 10}}

InScenario == \E S \in Scenario : transmitted \subseteq S

MCSpec == Init /\ [][Next /\ InScenario']_vars /\ Fairness

==============================================================================
