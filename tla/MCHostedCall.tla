--------------------------- MODULE MCHostedCall ---------------------------
\* Instances of HostedCall for TLC: two requests, one or two hosted calls,
\* top-ups and refunds that land at any time.
EXTENDS HostedCall, TLC

MCDeltas == {2, -1}
=============================================================================
