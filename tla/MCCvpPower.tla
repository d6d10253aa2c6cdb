---------------------------- MODULE MCCvpPower ----------------------------
(* CvpPower on every target. *)
EXTENDS CvpPower

AllTargets == Targets
=============================================================================
