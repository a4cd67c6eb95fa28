------------------------------- MODULE MCUart -------------------------------
(* The UART driver alone, with the fairness of its interrupt and its FIFO. *)
EXTENDS Uart

UartSpec == UartInit /\ [][UartNext]_uartVars /\ UartFairness
=============================================================================
