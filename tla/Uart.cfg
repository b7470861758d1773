SPECIFICATION PortSpec
CONSTANTS
  UART_BUFSIZE = 3
  RbrDepth = 2
  MaxArrived = 6
  Senders = {s1, s2}
  Texts <- PortTexts
  ThrDepth = 4
INVARIANTS ReadsWhatWasStored TextsArriveWhole
PROPERTIES ImplementsQueue WaitingReaderIsServed
