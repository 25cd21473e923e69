SPECIFICATION Spec
CONSTANTS
  NoTenant = NoTenant
  NoCompany = NoCompany
  NoRow = NoRow
  NoText = NoText
  NoDay = NoDay
  Keep = Keep
  r1 = r1
  r2 = r2
  t1 = t1
  t2 = t2
  t3 = t3
  c1 = c1
  c2 = c2
  c3 = c3
  k1 = k1
  k2 = k2
  k3 = k3
  glo = glo
  ten = ten
  non = non
  e1 = e1
  e2 = e2
  Requests = {r1, r2}
  TenantIds = {t1, t2, t3}
  CompanyIds = {c1, c2, c3}
  ContractIds = {k1, k2, k3}
  Users = {glo, ten, non}
  Memberships <- MCMemberships
  InitialTenants <- MCTenants
  InitialCompanies <- MCCompanies
  InitialContracts <- MCContracts
  Emails = {e1, e2}
  Texts <- MCTexts
  RutInputs <- MCRutInputs
  Codes = {"SCC", "SCA", "CERTIFICAX"}
  Days = {1, 2}
  Bodies <- MCBodies
INVARIANTS
  TypeOK
  DatesInOrder
  OnboardedRutIsNew
  LastEventIsCurrent
  ReadsStayInTenant
  SlugsAreStable
PROPERTIES
  ImplementsDomainEvents
