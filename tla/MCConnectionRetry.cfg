CONSTANTS
  tcp = tcp
  udp = udp
  udpDefault = udpDefault
  Ports <- MCPorts
  Retry <- MCRetry
  SockType <- MCSockType
  DefaultCheck <- MCDefaultCheck
  Elapsed = {0, 1}
  IcmpRules = 0
SPECIFICATION Spec



INVARIANT RetryAnswerReported
