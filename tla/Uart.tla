-------------------------------- MODULE Uart --------------------------------
(***************************************************************************)
(* One port of src/uart.c: the receive path of UartRx and the transmit     *)
(* path of UartTx.  UARTInit resets both FIFOs of the controller and       *)
(* enables the receive interrupt alone, so the two directions share the    *)
(* port but no variable.                                                   *)
(***************************************************************************)
EXTENDS UartRx, UartTx

UARTInit == Init /\ TxInit

Receive == Next /\ UNCHANGED txVars
Send == Transmit /\ UNCHANGED vars

PortVars == <<vars, txVars>>

\* The fairness of UartRx, for a port that transmits as well.
PortSpec ==
    /\ UARTInit
    /\ [][Receive \/ Send]_PortVars
    /\ WF_PortVars(UART_IRQHandler /\ UNCHANGED txVars)
    /\ WF_PortVars(fifo_get /\ UNCHANGED txVars)
=============================================================================
