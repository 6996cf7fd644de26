SPECIFICATION IdentitySpec
CONSTANTS
  c1 = c1  c2 = c2  p1 = p1  p2 = p2  n1 = n1  n2 = n2
  f1 = f1  f2 = f2  f3 = f3  f4 = f4  q1 = q1  q2 = q2
  Customers = {c1, c2}
  Phones = {p1, p2}
  People = {n1, n2}
  Nobody = Nobody
  Files = {f1, f2, f3, f4}
  NoPhoto = NoPhoto
  Inline = Inline
  Requests = {q1, q2}
  MaxCalls = 4
SYMMETRY MCSymmetry
CHECK_DEADLOCK FALSE
INVARIANTS
  PhotosOnDisk
  DiskExact
  VerifiedWasSeen
