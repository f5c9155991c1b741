----------------------------- MODULE MCTrapEntry -----------------------------
EXTENDS TrapEntry

AllExceptions == (0 .. 20) \ {2, 15}
KeyboardOnly == {33}
SomeExceptions == {0, 3, 14}
SomeIRQs == {33, 39}      \* the keyboard, and the spurious IRQ 7
=============================================================================
