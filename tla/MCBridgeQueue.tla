--------------------------- MODULE MCBridgeQueue ---------------------------
EXTENDS BridgeQueue, TLC
CONSTANTS p1, p2, r1, f1

OneRequest  == {r1}
OneProcess  == {p1}
TwoProcesses == {p1, p2}
=============================================================================
