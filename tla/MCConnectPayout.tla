-------------------------- MODULE MCConnectPayout --------------------------
\* Instances of ConnectPayout for TLC.
EXTENDS ConnectPayout, TLC

MCSymmetry ==
  Permutations(Requests) \cup Permutations(Onboardings) \cup Permutations(PayoutKeys)
    \cup Permutations(LinkKeys) \cup Permutations(Sales) \cup Permutations(Accounts)
=============================================================================
