-------------------------- MODULE MCFfiOwnership --------------------------
(* Every file of the C interface. *)
EXTENDS FfiOwnership

AllApis == DOMAIN Calls
===========================================================================
