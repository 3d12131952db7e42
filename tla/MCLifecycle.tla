---------------------------- MODULE MCLifecycle ----------------------------
(***************************************************************************)
(* Lifecycle for TLC: the failures of start-up, the broker, the signal and *)
(* the threads are all in the module; only the retries are bounded.        *)
(***************************************************************************)
EXTENDS Lifecycle
=============================================================================
