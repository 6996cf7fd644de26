SPECIFICATION Spec
CONSTANTS
  m1 = m1
  m2 = m2
  m3 = m3
  a1 = a1
  r1 = r1
  t1 = t1
  t2 = t2
  Menus = {m1, m2, m3}
  Auths = {a1}
  Roles = {r1}
  Tenants = {t1, t2}
  Root = Root
  NoTenant = NoTenant
  Seeded = {m1, m2}
  SeedParent <- MCSeedParent
  ButtonMenu <- MCButtonMenu
  MaxCalls = 4
CHECK_DEADLOCK FALSE
INVARIANTS
  TypeOK
  GrantsWithinScope
  ShownWithinScope
  FilterExact
  MenusHang
SYMMETRY MCSymmetry
