-------------------------- MODULE MCFallbackQueue --------------------------
(***************************************************************************)
(* An instance of FallbackQueue for TLC.  The clock stops at MaxTime and   *)
(* one request runs at a time beside the worker.                           *)
(***************************************************************************)
EXTENDS FallbackQueue

CONSTANT MaxTime

Bounded == now <= MaxTime
=============================================================================
