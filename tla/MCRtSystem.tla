---------------------------- MODULE MCRtSystem ----------------------------
\* One thread that waits, one timer and its thread.
EXTENDS RtSystem

=============================================================================
