\* Two threads, two descriptor numbers that are reused, two addresses, dup2,
\* a license that runs out or is renewed.
CONSTANTS
  t1 = t1
  t2 = t2
  f1 = f1
  f2 = f2
  n1 = n1
  n2 = n2
  a1 = a1
  a2 = a2
  Real = Real
  Self = Self
  None = None
  Threads = {t1, t2}
  Fds = {f1, f2}
  Names = {n1, n2}
  Routed = {n1}
  Fakes = {a1, a2}
  Metadata = {"valid", "expired"}
  ProxyFails = TRUE
SPECIFICATION Spec
CHECK_DEADLOCK FALSE
SYMMETRY Symmetry
INVARIANTS
  TypeOK
  PeerAddressKept
  FlagsAsTheApplicationLeft
  FallbackForNonTunneled
  TunnelledWhereRouted
 
