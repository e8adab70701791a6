----------------------------- MODULE SnifferLife -----------------------------
(***************************************************************************)
(* What startNetwork and the network threads promise to the data plane     *)
(* about the sniffers.  SwitchLifecycle, which starts, stops and joins the *)
(* threads, implements this; Forwarding, which leaves the threads out, is  *)
(* written on it: its reset, start and closeSniffer have the guards of     *)
(* Clear, Launch and Close, so that every life of the sniffers allowed     *)
(* here can be gone through there.                                         *)
(***************************************************************************)
EXTENDS Tables

CONSTANT Interface

VARIABLE sniffers   \* for the interfaces in the storage: is the sniffer live

Init == sniffers = Empty

\* One thread after the other is started, for an interface that has none.
Launch(i) ==
  /\ i \notin DOMAIN sniffers
  /\ \A j, k \in DOMAIN sniffers : j = k
  /\ sniffers' = Insert(sniffers, i, TRUE)

\* sniff_loop has returned; this sniffer never captures again.
Close(i) ==
  /\ i \in DOMAIN sniffers /\ sniffers[i]
  /\ sniffers' = [sniffers EXCEPT ![i] = FALSE]

\* The storage is reset under nobody's feet.
Clear ==
  /\ \A i \in DOMAIN sniffers : ~sniffers[i]
  /\ sniffers' = Empty

Next == Clear \/ \E i \in Interface : Launch(i) \/ Close(i)

Spec == Init /\ [][Next]_sniffers

==============================================================================
