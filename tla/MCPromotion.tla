---------------------------- MODULE MCPromotion ----------------------------
EXTENDS Promotion
MCDeps == {<<1, 2>>}
=============================================================================
