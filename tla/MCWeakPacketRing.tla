--------------------------- MODULE MCWeakPacketRing ---------------------------
EXTENDS WeakPacketRing
================================================================================
