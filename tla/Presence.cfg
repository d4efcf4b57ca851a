\* One user or guest session with two presence sockets, and the tightest times for which
\* the touches still keep up with the TTL.
SPECIFICATION Spec
CONSTANTS
  Conns = {"tab1", "tab2"}
  TTL = 4
  Grace = 1
  TouchInterval = 3
  IdleTimeout = 4
  PingGap = 2
  MaxCount = 3
INVARIANTS TypeOK NobodyStaysOnline 
