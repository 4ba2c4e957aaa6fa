---------------------------- MODULE MC_SsProxy ----------------------------
EXTENDS SsProxy, TLC
=============================================================================
