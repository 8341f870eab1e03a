------------------------------ MODULE MCWaits ------------------------------
EXTENDS Waits

\* Wait for ever, not at all, for a second and a rest, and -2, which stands for nothing.
SocketTimesValue == {-1, 0, 3, -2}

\* Processors that the search finds the exact value for, the next one, or the limit.
SpeedsValue == (1 .. 16) \cup {20, 40}
=============================================================================
