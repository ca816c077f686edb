----------------------------- MODULE MCBandwidth -----------------------------
EXTENDS Bandwidth
==============================================================================
