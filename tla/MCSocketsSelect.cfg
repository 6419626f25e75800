SPECIFICATION MCSpec
CONSTANTS
  Threads = {0, 1}
  Socks = {s}
  WsaEvents = {e}
  Interests <- MCInterests
  Asks = {1, 2}
  CallsOf <- MCCallsOf
  NoThread = NoThread
  NoCall = NoCall
  NoEntry = NoEntry
  NoSock = NoSock
  MaxConns = 2
  MaxSends = 1
  MaxBytes = 2
  s = s
  e = e
CHECK_DEADLOCK FALSE
INVARIANTS SelectNotices
