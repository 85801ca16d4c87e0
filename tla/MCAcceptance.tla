---------------------------- MODULE MCAcceptance ----------------------------
EXTENDS Acceptance
=============================================================================
