---------------------------- MODULE MCHwTimerList ----------------------------
\* Three timers; the bounds on time are in the cfg.
EXTENDS HwTimerList

=============================================================================
