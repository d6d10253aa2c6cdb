---------------------------- MODULE MCCvpDspLink ----------------------------
\* Instances of CvpDspLink for TLC.
EXTENDS CvpDspLink
=============================================================================
