----------------------------- MODULE MCStorageLock -----------------------------
(* A network thread, the server, and two of its handlers on one thread.     *)
EXTENDS StorageLock

CONSTANT w1

WorkerOfOne == [h \in Handler |-> w1]
==============================================================================
