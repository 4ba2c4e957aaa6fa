\* TCP: two connections, so that one may be registered while Close
\* iterates and another accepted after isclose is set.
\* UDP: three sockets and one failed bind, so that a session ends and the
\* loop rebinds (twice), a bind fails, and Close meets every loop state.
CONSTANTS
  MaxConns = 2
  MaxSocks = 3
  MaxListenFails = 1
SPECIFICATION MCSpec
\* Once both Closes have returned and the peers stop nothing moves.
CHECK_DEADLOCK FALSE
INVARIANT TypeOK RegistryMatchesWaitGroup NoOpenSessionAfterIterate
INVARIANT UdpTypeOK LiveSessionOnUdpConn WakeFindsNoReader
PROPERTY  UdpCloseReturns UdpOnCloseReturns
