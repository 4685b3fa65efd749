----------------------------- MODULE MCHalSleep -----------------------------
\* One user of each lock, two that vote, one interrupt; a minimum that may rise
\* once, and a frequency above it that takes the high voltage.
EXTENDS HalSleep

=============================================================================
