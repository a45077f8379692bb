---------------------------- MODULE MCScheduler ----------------------------
(* Scheduler on a small instance: a heap-allocated thread beside bootstrap *)
(* and idle, and a tick counter of a few values, so that it wraps many     *)
(* times.                                                                  *)
EXTENDS Scheduler

CONSTANT a
=============================================================================
