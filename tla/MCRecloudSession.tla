--------------------------- MODULE MCRecloudSession ---------------------------
EXTENDS RecloudSession
=============================================================================
