------------------------------- MODULE UartMC -------------------------------
\* The texts of the tasks that print.
EXTENDS Uart

PortTexts == {<<"a", "\n">>, <<"\n">>}
=============================================================================
