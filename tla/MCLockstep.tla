----------------------------- MODULE MCLockstep -----------------------------
EXTENDS Lockstep

CONSTANTS c1, c2, shoot

TwoClients == {c1, c2}
OneKey == {shoot}
=============================================================================
