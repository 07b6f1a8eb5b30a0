---------------------------- MODULE MCDelegation ----------------------------
EXTENDS Delegation
=============================================================================
