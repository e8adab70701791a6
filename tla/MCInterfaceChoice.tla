-------------------------- MODULE MCInterfaceChoice --------------------------
(* Three interfaces: two to run on, and one that comes or goes before them:  *)
(* TLC lists the ids in ascending order.                                     *)
EXTENDS InterfaceChoice
==============================================================================
