---------------------------- MODULE MCFinalize ----------------------------
EXTENDS Finalize
=============================================================================
