SPECIFICATION Spec
CONSTANTS
  Inode = {i1, i2, i3}
  Version = {v1, v2}
  v1 = v1
  v2 = v2
  Name = {a, b, c}
  a = a
  b = b
  c = c
  Children <- TwoGenerations
  None = None
  MaxFaults = 2
INVARIANTS IInv
PROPERTIES ReadersSeeWhole OldKept EndsAsReported Terminates
