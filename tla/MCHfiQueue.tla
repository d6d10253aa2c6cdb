----------------------------- MODULE MCHfiQueue -----------------------------
(* Model checking of HfiQueue, and of its refinement of HfiFifo. *)
EXTENDS HfiQueue
=============================================================================
