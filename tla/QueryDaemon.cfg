SPECIFICATION Spec
CONSTANTS
  Servers = {s1, s2}
  OldServers = {s1}
  Clients = {c1, c2}
  Ports = {p1, p2}
  MaxConnections = 1
  MaxFaults = 2
INVARIANTS OneListener EndpointTrue AnsweredByNamed DrainedOnStop
PROPERTIES StopEnds
CHECK_DEADLOCK FALSE
