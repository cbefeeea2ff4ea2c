---------------------------- MODULE MCCapabilities ----------------------------
EXTENDS Capabilities

CONSTANTS p1, o1, o2
=============================================================================
