------------------------------ MODULE MCEvents ------------------------------
EXTENDS Events
MCListeners == 1..2
MCChannels == 1..2
=============================================================================
