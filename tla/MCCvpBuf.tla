------------------------------ MODULE MCCvpBuf ------------------------------
\* Instances of CvpBuf for TLC.
EXTENDS CvpBuf, TLC

Perms == Permutations(Bufs) \cup Permutations(Threads)

=============================================================================
