----------------------------- MODULE MCCvpInst -----------------------------
(***************************************************************************)
(* Model checking of CvpInst.                                              *)
(***************************************************************************)
EXTENDS CvpInst, TLC
=============================================================================
