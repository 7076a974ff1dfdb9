----------------------------- MODULE MCFairMutex ----------------------------
(* FairMutex for TLC.  The liveness properties forbid symmetry here. *)
EXTENDS FairMutex
=============================================================================
