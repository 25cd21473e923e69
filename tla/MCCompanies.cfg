SPECIFICATION Spec
CONSTANTS
  NoTenant = NoTenant
  NoCompany = NoCompany
  NoRow = NoRow
  Pending = Pending
  Keep = Keep
  t1 = t1
  t2 = t2
  o1 = o1
  o2 = o2
  k1 = k1
  c1 = c1
  c2 = c2
  glo = glo
  ten = ten
  con = con
  non = non
  r1 = r1
  r2 = r2
  Requests = {r1, r2}
  CompanyIds = {o1, o2, k1, c1, c2}
  Tenants = {t1, t2}
  Users = {glo, ten, con, non}
  Bodies <- MCBodies
  InitialCompanies <- MCInitialCompanies
  Memberships <- MCMemberships
  RutInputs <- MCRutInputs
SYMMETRY MCSymmetry
INVARIANTS
  TypeOK
  PathTree
  HierarchyRules
  OneCompanyPerRut
  VerifierCatchesSlips
PROPERTIES
  ImplementsDomainEvents
CHECK_DEADLOCK FALSE
