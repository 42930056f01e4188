CONSTANTS
  m1 = m1
  local = local
  gateway = gateway
  elsewhere = elsewhere
  c1 = c1
  c2 = c2
  Monitors = {m1}
  Original = Original
  Hosts = {local, gateway, elsewhere}
  Loopback = {local}
  outside = outside
  dotted = dotted
  Names = {outside, dotted}
  Allowed = {dotted}
  Resolves <- MCResolves
  t1 = t1
  t2 = t2
  Threads = {t1, t2}
  MaxDepth = 2
  Cpus = {c1, c2}
  Ips = {gateway}
  Ports = {8080}
  Packets <- MCPackets
  NoPacket = NoPacket
  MaxPackets = 2
SPECIFICATION Spec
ACTION_CONSTRAINT OneAtWork
SYMMETRY Symmetry
INVARIANTS
  EgressHasAnExcuse
  CountersBalance
  TwinsAgree
CHECK_DEADLOCK FALSE
