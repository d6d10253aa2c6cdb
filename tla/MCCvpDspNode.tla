---------------------------- MODULE MCCvpDspNode ----------------------------
\* Instances of CvpDspNode for TLC.
EXTENDS CvpDspNode, TLC

\* The processes of the DSP are interchangeable.
Symmetry == Permutations(Handles)
=============================================================================
