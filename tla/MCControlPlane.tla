--------------------------- MODULE MCControlPlane ---------------------------
EXTENDS Control

CONSTANTS k1, k2

MCMixes == {[k \in Keys |-> IF k = k1 THEN a ELSE b] :
              <<a, b>> \in {<<"probe", "create">>, <<"pause", "resume">>}}
=============================================================================
