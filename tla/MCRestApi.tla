------------------------------- MODULE MCRestApi -------------------------------
(* Two interfaces in use; requests name the first of them or none; two logins. *)
EXTENDS RestApi
CONSTANTS short, long
==============================================================================
