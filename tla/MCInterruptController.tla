----------------------- MODULE MCInterruptController -----------------------
EXTENDS InterruptController

TimerKeyboardRtc == {0, 1, 8}     \* 8 is the slave's first input
=============================================================================
