---------------------------- MODULE MCRTMPHandshake ----------------------------
\* The server of a run may refuse whatever can be refused.
EXTENDS RTMPHandshake

AnyRefusal == Refusable
=============================================================================
