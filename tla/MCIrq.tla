------------------------------- MODULE MCIrq -------------------------------
EXTENDS Interrupts
MCSpec == IrqSpec /\ IrqFairness
=============================================================================
