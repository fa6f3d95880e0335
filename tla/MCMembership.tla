------------------------------ MODULE MCMembership ------------------------------
\* Membership for TLC, with requests and invitations that are alike.
EXTENDS Membership, TLC

Symmetry == Permutations(Requests) \cup Permutations(Invitations)
================================================================================
