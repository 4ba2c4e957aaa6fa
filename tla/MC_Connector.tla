---------------------------- MODULE MC_Connector ----------------------------
EXTENDS Connector, TLC
=============================================================================
