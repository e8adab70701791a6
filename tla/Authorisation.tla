----------------------------- MODULE Authorisation -----------------------------
(***************************************************************************)
(* What the REST interface promises about the tokens it hands out.  A      *)
(* token is opened once, serves until it is closed, and is closed by its   *)
(* own logout, by a purge that takes all the overdue tokens and no other,  *)
(* or together with all others.  Only an open token is served.  RestApi    *)
(* implements it.                                                          *)
(***************************************************************************)

CONSTANTS Token, NoToken

VARIABLES
  open,    \* token |-> "fresh" or "overdue"
  spent,   \* tokens that were ever handed out
  served   \* the token whose request was served in this step

vars == <<open, spent, served>>

Init == /\ open = [t \in {} |-> "fresh"]
        /\ spent = {}
        /\ served = NoToken

Nobody == served' = NoToken
Left(S) == open' = [t \in S |-> open[t]]

Open == \E t \in Token \ spent :
  /\ open' = [u \in DOMAIN open \cup {t} |-> IF u = t THEN "fresh" ELSE open[u]]
  /\ spent' = spent \cup {t}
  /\ Nobody

Serve == served' \in DOMAIN open /\ UNCHANGED <<open, spent>>
Refuse == Nobody /\ UNCHANGED <<open, spent>>

Close == served' \in DOMAIN open /\ Left(DOMAIN open \ {served'}) /\ UNCHANGED spent

\* Time passes: the overdue stay overdue.
Grow == \E S \in SUBSET DOMAIN open :
  /\ open' = [t \in DOMAIN open |-> IF t \in S THEN "overdue" ELSE open[t]]
  /\ Nobody /\ UNCHANGED spent

Purge == Left({t \in DOMAIN open : open[t] = "fresh"}) /\ Nobody /\ UNCHANGED spent
Clear == Left({}) /\ Nobody /\ UNCHANGED spent

Next == Open \/ Serve \/ Refuse \/ Close \/ Grow \/ Purge \/ Clear

Spec == Init /\ [][Next]_vars

==============================================================================
