CONSTANTS
  tcp = tcp
  udp = udp
  udpDefault = udpDefault
  Ports <- MCPorts
  Retry <- MCRetry
  SockType <- MCSockType
  DefaultCheck <- MCDefaultCheck
  Elapsed = {0, 1}
  IcmpRules = 2
SPECIFICATION Spec
INVARIANT TypeOK
INVARIANT FailureAfterAllAttempts
INVARIANT FirstAnswerReported
INVARIANT PortTestsFollowLastPing
