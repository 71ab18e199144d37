\* A backup and its restore, with other handlers' writes in between.
CONSTANTS
    u1 = u1  u2 = u2  a1 = a1  n1 = n1  t1 = t1  l1 = l1  m1 = m1  r1 = r1  k1 = k1  c1 = c1
    v1 = v1  v2 = v2  NoToken = NoToken  NoRow = NoRow  None = None
    Key <- AllKeys
    Table <- TableOf
    Owner <- OwnerOf
    Parents <- ParentsOf
    Rivals <- RivalsOf
    Values <- ValuesOf
    Seeds <- SomeDatabases
    MaxUpsets = 3
SPECIFICATION Spec
INVARIANTS TypeOK LeftoversAreNew RoundTrip
PROPERTIES RestoreAllOrNothing
