\* A patient command on one host against two that are killed and fail anywhere.
SPECIFICATION LiveSpec
CONSTANTS
  p1 = p1  p2 = p2  p3 = p3  p4 = p4
  h1 = h1  h2 = h2
  Proc = {p1, p2, p3}
  Host = {h1, h2}
  Nobody = nobody
  HostOf <- SameHost
  Slow = {}
  Patient = {p1}
  Faulty = {p2}
  GuardCrash = TRUE
PROPERTIES PatientAcquires
