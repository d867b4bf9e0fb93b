\* Four commands on two hosts, killed anywhere but under the guard.
SPECIFICATION Spec
CONSTANTS
  p1 = p1  p2 = p2  p3 = p3  p4 = p4
  h1 = h1  h2 = h2
  Proc = {p1, p2, p3, p4}
  Host = {h1, h2}
  Nobody = nobody
  HostOf <- TwoHosts
  Slow = {}
  Patient = {}
  Faulty = {p1, p2, p4}
  GuardCrash = FALSE
SYMMETRY Symmetry
INVARIANTS IInv MutualExclusion
PROPERTIES ForeignLockKept ImplementsSession
