----------------------------- MODULE MCCvpFence -----------------------------
(***************************************************************************)
(* Model checking of CvpFence.                                             *)
(***************************************************************************)
EXTENDS CvpFence, TLC

(* Frames of one kind are interchangeable, and so are the threads. *)
Symmetry ==
    Permutations(KernelFrames) \cup Permutations(SocFrames)
    \cup Permutations(PlainFrames) \cup Permutations(Fthreads)
    \cup Permutations(Ctls)
=============================================================================
