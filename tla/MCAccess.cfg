SPECIFICATION Spec
CONSTANTS
  NoTenant = NoTenant
  NoCompany = NoCompany
  NoRow = NoRow
  NoRole = NoRole
  NoUser = NoUser
  NoMembership = NoMembership
  NoSlug = NoSlug
  Keep = Keep
  r1 = r1
  r2 = r2
  adm = adm
  ten = ten
  u1 = u1
  ma = ma
  mt = mt
  mk = mk
  m1 = m1
  m2 = m2
  ra = ra
  rt = rt
  n1 = n1
  n2 = n2
  t1 = t1
  t2 = t2
  k1 = k1
  e1 = e1
  e2 = e2
  e3 = e3
  Requests = {r1, r2}
  UserIds = {adm, ten, u1}
  MembershipIds = {ma, mt, mk, m1, m2}
  RoleIds = {ra, rt, n1, n2}
  PermissionIds <- MCPermissionIds
  Tenants = {t1, t2}
  Companies = {k1}
  CompanyPaths <- MCCompanyPaths
  Emails = {e1, e2, e3}
  Slugs <- MCSlugs
  RoleSlugs = {"platform_admin", "tenant_admin", "customer_admin"}
  InitialUsers <- MCUsers
  InitialMemberships <- MCMemberships
  InitialRoles <- MCRoles
  InitialPermissions <- MCPermissions
  InitialRoleGrants <- MCRoleGrants
  InitialMemberRoles <- MCMemberRoles
  Bodies <- MCBodies
  SeededRoles <- MCSeededRoles
  SeededSlugs <- MCSeededSlugs
  MaxSeedings = 1
  AdminEmail = e3
INVARIANTS
  TypeOK
  RoleScopesAgree
  OneUserPerEmail
  ListsStayInScope
PROPERTIES
  GlobalFromGlobal
  WritesStayInScope
  ImplementsDomainEvents
CHECK_DEADLOCK FALSE
