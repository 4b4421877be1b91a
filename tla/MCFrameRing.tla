----------------------------- MODULE MCFrameRing -----------------------------
EXTENDS FrameRing
================================================================================
