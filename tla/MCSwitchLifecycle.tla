--------------------------- MODULE MCSwitchLifecycle ---------------------------
(* Two or three interfaces, so that a restart can pick a different pair.    *)
EXTENDS SwitchLifecycle
==============================================================================
