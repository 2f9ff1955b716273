--------------------------- MODULE MCDesktopBridge ---------------------------
\* Instances of DesktopBridge for TLC.
EXTENDS DesktopBridge, TLC

MCSymmetry == Permutations(Preps)
=============================================================================
