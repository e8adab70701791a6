-------------------------------- MODULE Tables --------------------------------
(* The tables of SharedStorage, as functions from the keys they hold.       *)
EXTENDS Integers

Empty == [x \in {} |-> 0]

\* operator[] with an assignment, push_back, insert of a new key.
Insert(table, key, entry) ==
  [k \in DOMAIN table \cup {key} |-> IF k = key THEN entry ELSE table[k]]

\* What an erase of one entry, or an erasing loop, leaves.
Without(table, key)  == [k \in DOMAIN table \ {key} |-> table[k]]
Keep(table, Test(_)) == [k \in {x \in DOMAIN table : Test(x)} |-> table[k]]

IsTable(t, Key, Entry) == DOMAIN t \subseteq Key /\ t \in [DOMAIN t -> Entry]

==============================================================================
