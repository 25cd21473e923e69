----------------------------- MODULE AccessProofs -----------------------------
(***************************************************************************)
(* The safety properties of Access and its refinement of DomainEvents, for *)
(* every number of requests, users, memberships, roles and permissions.    *)
(*                                                                         *)
(* A request decides on what it read and writes later.  The decisions hold *)
(* because a stored membership never changes: what a scope reached once it *)
(* reaches for ever.  Roles do change, and a role that got another scope   *)
(* or tenant is in rescoped.                                               *)
(***************************************************************************)
EXTENDS Access, TLAPS

\* what a request that is to write knows of the rows it names
TargetInv ==
  \A r \in Requests :
    /\ pc[r] \in {"readRole", "write"} /\ op[r].kind \in {"membership.assign", "membership.unassign"} =>
         op[r].membership \in Stored(memberships)
    /\ pc[r] = "write" =>
         /\ op[r].kind \in {"role.update", "role.grant", "role.revoke", "membership.assign", "user.createInternal"} =>
              op[r].role \in Stored(roles)
         /\ op[r].kind = "user.update" => op[r].user \in Stored(users)
         /\ op[r].kind = "permission.update" => permissions[op[r].permission] # NoSlug

\* the rows that the seed holds
SeedInv ==
  /\ seed.pc \in {"permissions", "revoke", "grant", "user", "membership", "newMembership", "attach"} =>
       seed.role \in Stored(roles)
  /\ seed.pc \in {"membership", "newMembership"} => seed.user \in Stored(users)
  /\ seed.pc = "attach" => seed.membership \in Stored(memberships)

\* stored addresses are in lower case
LowerInv == \A u \in Stored(users) : users[u].email.lower

FindKinds ==
  {"membership.roles", "membership.effective", "membership.assign", "membership.unassign", "role.permissions",
   "role.grant", "role.revoke", "role.update", "user.context", "user.update", "user.credentials"}
CheckKinds ==
  {"membership.create", "role.create", "permission.create", "permission.update", "user.create", "user.createInternal"}

\* which operations a request at its reads may have
FlowInv ==
  \A r \in Requests :
    /\ pc[r] = "resolve" => op[r] \in Ops
    /\ pc[r] = "find" => op[r].kind \in FindKinds
    /\ pc[r] = "check" => op[r].kind \in CheckKinds
    /\ pc[r] = "readRole" => op[r].kind \in {"membership.assign", "user.createInternal"}

\* only a request that wrote is answered
CommitInv == \A r \in Requests : pc[r] \in {"reload", "publish", "answer", "answered", "audited"} => r \in committed

\* one entry for every request
Entries ==
  /\ scope = [r \in Requests |-> scope[r]] /\ out = [r \in Requests |-> out[r]]
  /\ view = [r \in Requests |-> view[r]] /\ events = [r \in Requests |-> events[r]]

Shape == TypeOK /\ FlowInv /\ TargetInv /\ SeedInv /\ LowerInv /\ CommitInv /\ Entries
-----------------------------------------------------------------------------
LEMMA Kinds ==
  ASSUME NEW o \in Ops \cup {NoOp}
  PROVE  /\ o.kind = "membership.create" => o \in MembershipCreateOps
         /\ o.kind \in {"membership.assign", "membership.unassign"} => o \in MembershipRoleOps
         /\ o.kind = "role.create" => o \in RoleCreateOps
         /\ o.kind = "role.update" => o \in RoleUpdateOps
         /\ o.kind \in {"role.grant", "role.revoke"} => o \in RolePermissionOps
         /\ o.kind = "permission.create" => o \in PermissionCreateOps
         /\ o.kind = "permission.update" => o \in PermissionUpdateOps
         /\ o.kind = "user.create" => o \in UserCreateOps
         /\ o.kind = "user.createInternal" => o \in InternalUserOps
         /\ o.kind = "user.update" => o \in UserUpdateOps
         /\ o \in Ops => o.kind \in FindKinds \cup CheckKinds
                                     \cup {"membership.list", "role.list", "user.list", "introspect", "me.context"}
<1> USE DEF FindKinds, CheckKinds
<1>1. /\ \A p \in MembershipCreateOps : p.kind = "membership.create"
      /\ \A p \in MembershipRoleOps : p.kind \in {"membership.assign", "membership.unassign"}
      /\ \A p \in MembershipReadOps : p.kind \in {"membership.roles", "membership.effective"}
  BY DEF MembershipCreateOps, MembershipRoleOps, MembershipReadOps
<1>2. /\ \A p \in RoleCreateOps : p.kind = "role.create"
      /\ \A p \in RoleUpdateOps : p.kind = "role.update"
      /\ \A p \in RolePermissionOps : p.kind \in {"role.grant", "role.revoke"}
  BY DEF RoleCreateOps, RoleUpdateOps, RolePermissionOps
<1>3. /\ \A p \in PermissionCreateOps : p.kind = "permission.create"
      /\ \A p \in PermissionUpdateOps : p.kind = "permission.update"
  BY DEF PermissionCreateOps, PermissionUpdateOps
<1>4. /\ \A p \in UserCreateOps : p.kind = "user.create"
      /\ \A p \in InternalUserOps : p.kind = "user.createInternal"
      /\ \A p \in UserUpdateOps : p.kind = "user.update"
      /\ \A p \in UserCredentialsOps : p.kind = "user.credentials"
  BY DEF UserCreateOps, InternalUserOps, UserUpdateOps, UserCredentialsOps
<1>5. \A p \in ReadOps : p.kind \in {"membership.list", "role.list", "user.list", "introspect", "me.context",
                                     "role.permissions", "user.context"}
  BY DEF ReadOps
<1>6. NoOp.kind = "none"
  BY DEF NoOp
<1>7. CASE o \in MembershipOps
  BY <1>1, <1>7 DEF MembershipOps
<1>8. CASE o \in RoleOps
  BY <1>2, <1>8 DEF RoleOps
<1>9. CASE o \in PermissionOps
  BY <1>3, <1>9 DEF PermissionOps
<1>10. CASE o \in UserOps
  BY <1>4, <1>10 DEF UserOps
<1>11. CASE o \in ReadOps
  BY <1>5, <1>11
<1>12. CASE o \notin Ops
  BY <1>6, <1>12
<1>13. QED
  BY <1>7, <1>8, <1>9, <1>10, <1>11, <1>12 DEF Ops
-----------------------------------------------------------------------------
\* The three sorts of steps of a request.
Reads(r) ==
  \/ Begin(r) \/ ResolveScope(r) \/ List(r) \/ Context(r) \/ ContextSlugs(r)
  \/ Find(r) \/ Detail(r) \/ Check(r) \/ ReadRole(r)

WritesRow(r) ==
  \/ CreateMembership(r) \/ AssignRole(r) \/ RemoveRole(r)
  \/ CreateRole(r) \/ UpdateRole(r) \/ AssignPermission(r) \/ RemovePermission(r)
  \/ CreatePermission(r) \/ UpdatePermission(r)
  \/ CreateUser(r) \/ CreateInternalUser(r) \/ UpdateUser(r) \/ UpdateCredentials(r)

Ends(r) == Reload(r) \/ Publish(r) \/ Answer(r) \/ Audit(r) \/ Fail(r)

LEMMA Sorts ==
  ASSUME NEW r \in Requests, Request(r)
  PROVE  Reads(r) \/ WritesRow(r) \/ Ends(r)
BY DEF Request, Reads, WritesRow, Ends

LEMMA RefuseKeeps ==
  ASSUME TypeOK, Entries, NEW r \in Requests, Refuse(r)
  PROVE  /\ UNCHANGED << tables, out, view, logs, seeds >>
         /\ pc' = [pc EXCEPT ![r] = "refused"] /\ op' = [op EXCEPT ![r] = NoOp]
         /\ scope' = [scope EXCEPT ![r] = GlobalScope]
BY DEF Refuse, Goto

LEMMA ReadsKeep ==
  ASSUME TypeOK, Entries, NEW r \in Requests, Reads(r)
  PROVE  /\ UNCHANGED << tables, out, logs, seeds >>
         /\ pc' = [pc EXCEPT ![r] = pc'[r]] /\ op' = [op EXCEPT ![r] = op'[r]]
         /\ scope' = [scope EXCEPT ![r] = scope'[r]] /\ view' = [view EXCEPT ![r] = view'[r]]
<1> USE DEF Goto, locals, Entries, TypeOK
<1>1. CASE Refuse(r)
  BY <1>1, RefuseKeeps
<1>2. CASE Begin(r)
  BY <1>2 DEF Begin
<1>3. CASE ResolveScope(r) /\ ~Refuse(r)
  BY <1>3 DEF ResolveScope
<1>4. CASE List(r)
  <2>1. \E x : view' = [view EXCEPT ![r] = x]
    BY <1>4 DEF List
  <2>2. UNCHANGED << tables, op, scope, out, logs, seeds >> /\ pc' = [pc EXCEPT ![r] = "shown"]
    BY <1>4 DEF List
  <2>3. QED
    BY <2>1, <2>2
<1>5. CASE Context(r) \/ ContextSlugs(r)
  BY <1>5 DEF Context, ContextSlugs
<1>6. CASE Find(r) /\ ~Refuse(r)
  BY <1>6 DEF Find, Proceed
<1>7. CASE Detail(r)
  <2>1. \E x : view' = [view EXCEPT ![r] = x]
    BY <1>7 DEF Detail
  <2>2. UNCHANGED << tables, op, scope, out, logs, seeds >> /\ pc' = [pc EXCEPT ![r] = "shown"]
    BY <1>7 DEF Detail
  <2>3. QED
    BY <2>1, <2>2
<1>8. CASE (Check(r) \/ ReadRole(r)) /\ ~Refuse(r)
  BY <1>8 DEF Check, ReadRole, Proceed
<1>9. QED
  BY <1>1, <1>2, <1>3, <1>4, <1>5, <1>6, <1>7, <1>8 DEF Reads

LEMMA WritesKeep ==
  ASSUME TypeOK, Entries, NEW r \in Requests, WritesRow(r)
  PROVE  /\ UNCHANGED << op, scope, view, audits, seeds >>
         /\ out' = [out EXCEPT ![r] = out'[r]] /\ events' = [events EXCEPT ![r] = events'[r]]
         /\ committed' = committed \cup {r}
         /\ pc[r] = "write" /\ pc' = [pc EXCEPT ![r] = pc'[r]]
         /\ pc'[r] \in {"publish", "answer", "reload", "shown"}
<1> USE DEF Goto, Writes, Returns, Entries, TypeOK
<1>1. CASE CreateMembership(r)
  BY <1>1 DEF CreateMembership
<1>2. CASE AssignRole(r) \/ RemoveRole(r)
  BY <1>2 DEF AssignRole, RemoveRole
<1>3. CASE CreateRole(r) \/ UpdateRole(r)
  BY <1>3 DEF CreateRole, UpdateRole
<1>4. CASE AssignPermission(r) \/ RemovePermission(r)
  BY <1>4 DEF AssignPermission, RemovePermission
<1>5. CASE CreatePermission(r) \/ UpdatePermission(r)
  BY <1>5 DEF CreatePermission, UpdatePermission
<1>6. CASE CreateUser(r) \/ UpdateUser(r)
  BY <1>6 DEF CreateUser, UpdateUser
<1>7. CASE CreateInternalUser(r)
  BY <1>7 DEF CreateInternalUser
<1>8. CASE UpdateCredentials(r)
  BY <1>8 DEF UpdateCredentials
<1>9. QED
  BY <1>1, <1>2, <1>3, <1>4, <1>5, <1>6, <1>7, <1>8 DEF WritesRow

LEMMA EndsKeep ==
  ASSUME TypeOK, Entries, NEW r \in Requests, Ends(r)
  PROVE  /\ UNCHANGED << tables, op, scope, view, committed, rescoped, seeds >>
         /\ out' = [out EXCEPT ![r] = out'[r]] /\ events' = [events EXCEPT ![r] = events'[r]]
         /\ pc' = [pc EXCEPT ![r] = pc'[r]]
         /\ \/ pc[r] = "write" /\ pc'[r] = "failed"
            \/ /\ pc[r] \in {"reload", "publish", "answer", "answered"}
               /\ pc'[r] \in {"publish", "answer", "answered", "audited", "failed"}
         /\ \/ audits' = audits
            \/ audits' = audits \cup {r} /\ pc[r] = "answered"
<1> USE DEF Goto, Proceed, locals, logs, Entries, TypeOK
<1>1. CASE Reload(r)
  <2>1. \E x : out' = [out EXCEPT ![r] = x]
    BY <1>1 DEF Reload
  <2>2. /\ UNCHANGED << tables, op, scope, view, logs, seeds >>
        /\ pc[r] = "reload" /\ pc' = [pc EXCEPT ![r] = "publish"]
    BY <1>1 DEF Reload
  <2>3. QED
    BY <2>1, <2>2
<1>2. CASE Publish(r)
  BY <1>2 DEF Publish
<1>3. CASE Answer(r) \/ Audit(r) \/ Fail(r)
  BY <1>3 DEF Answer, Audit, Fail
<1>4. QED
  BY <1>1, <1>2, <1>3 DEF Ends
-----------------------------------------------------------------------------
\* What one step does to the tables.
UsersStep ==
  \/ UNCHANGED users
  \/ \E u \in UserIds, row \in UserRow :
       /\ users' = [users EXCEPT ![u] = row]
       /\ row.email.lower
       /\ \/ u \in Stored(users) /\ row.email = users[u].email
          \/ ~EmailTaken(row.email)

MembershipsStep ==
  \/ UNCHANGED memberships
  \/ \E m \in Fresh(memberships), row \in MembershipRow : memberships' = [memberships EXCEPT ![m] = row]

RolesStep ==
  \/ UNCHANGED << roles, rescoped >>
  \/ \E ro \in Fresh(roles), row \in RoleRow : roles' = [roles EXCEPT ![ro] = row] /\ UNCHANGED rescoped
  \/ \E ro \in Stored(roles), row \in RoleRow :
       /\ roles' = [roles EXCEPT ![ro] = row]
       /\ \/ rescoped' = rescoped \cup {ro}
          \/ UNCHANGED rescoped /\ row.scope = roles[ro].scope /\ row.tenant = roles[ro].tenant

PermissionsStep ==
  /\ permissions' \in [PermissionIds -> Slugs \cup {NoSlug}]
  /\ \A p \in PermissionIds : permissions[p] # NoSlug => permissions'[p] # NoSlug

GrantsStep == roleGrants' \subseteq roleGrants \cup (Stored(roles) \X PermissionIds)

MemberRolesStep ==
  \/ memberRoles' \subseteq memberRoles
  \/ \E m \in Stored(memberships)', ro \in Stored(roles) : memberRoles' = memberRoles \cup {<< m, ro >>}

AdoptedStep == adopted \subseteq adopted' /\ adopted' \subseteq Stored(memberships)

TablesStep ==
  /\ UsersStep /\ MembershipsStep /\ RolesStep /\ PermissionsStep /\ GrantsStep /\ MemberRolesStep /\ AdoptedStep

LEMMA TablesIdle ==
  ASSUME TypeOK
  PROVE  /\ UNCHANGED users => UsersStep
         /\ UNCHANGED memberships => MembershipsStep
         /\ UNCHANGED << roles, rescoped >> => RolesStep
         /\ UNCHANGED permissions => PermissionsStep
         /\ UNCHANGED roleGrants => GrantsStep
         /\ UNCHANGED memberRoles => MemberRolesStep
         /\ UNCHANGED adopted => AdoptedStep
<1>1. UNCHANGED permissions => PermissionsStep
  BY DEF PermissionsStep, TypeOK
<1>2. UNCHANGED adopted => AdoptedStep
  BY DEF AdoptedStep, TypeOK
<1>3. QED
  BY <1>1, <1>2 DEF UsersStep, MembershipsStep, RolesStep, GrantsStep, MemberRolesStep

LEMMA CreateMembershipTables ==
  ASSUME Shape, NEW r \in Requests, CreateMembership(r)
  PROVE  TablesStep
<1>1. op[r] \in MembershipCreateOps
  BY Kinds DEF CreateMembership, Writes, Shape, TypeOK
<1> DEFINE row == [user |-> op[r].user, tenant |-> op[r].tenant, company |-> op[r].company,
                   scope |-> op[r].scope, status |-> op[r].status]
<1>2. row \in MembershipRow
  BY <1>1 DEF MembershipCreateOps, MembershipRow
<1>3. /\ \E m \in Fresh(memberships) : memberships' = [memberships EXCEPT ![m] = row]
      /\ UNCHANGED << users, roles, permissions, roleGrants, memberRoles, rescoped, adopted >>
  BY DEF CreateMembership, Returns, seeds
<1> HIDE DEF row
<1>4. QED
  BY <1>2, <1>3, TablesIdle DEF TablesStep, MembershipsStep, Shape

LEMMA MemberRoleTables ==
  ASSUME Shape, NEW r \in Requests, AssignRole(r) \/ RemoveRole(r)
  PROVE  TablesStep
<1>1. /\ op[r].membership \in Stored(memberships)
      /\ AssignRole(r) => op[r].role \in Stored(roles)
  BY DEF AssignRole, RemoveRole, Writes, Shape, TargetInv
<1>2. UNCHANGED << users, memberships, roles, permissions, roleGrants, rescoped, adopted >>
  BY DEF AssignRole, RemoveRole, Returns, seeds
<1>3. MemberRolesStep
  <2>1. CASE AssignRole(r)
    BY <1>1, <1>2, <2>1 DEF AssignRole, MemberRolesStep, Stored
  <2>2. CASE RemoveRole(r)
    BY <2>2 DEF RemoveRole, MemberRolesStep
  <2>3. QED
    BY <2>1, <2>2
<1>4. QED
  BY <1>2, <1>3, TablesIdle DEF TablesStep, Shape

LEMMA RoleTables ==
  ASSUME Shape, NEW r \in Requests, CreateRole(r) \/ UpdateRole(r)
  PROVE  TablesStep
<1>1. UNCHANGED << users, memberships, permissions, roleGrants, memberRoles, adopted >>
  BY DEF CreateRole, UpdateRole, Returns, seeds
<1>2. RolesStep
  <2>1. CASE CreateRole(r)
    <3>1. op[r] \in RoleCreateOps
      BY <2>1, Kinds DEF CreateRole, Writes, Shape, TypeOK
    <3> DEFINE row == [slug |-> op[r].slug, scope |-> op[r].scope, tenant |-> op[r].tenant]
    <3>2. row \in RoleRow
      BY <3>1 DEF RoleCreateOps, RoleRow
    <3>3. (\E ro \in Fresh(roles) : roles' = [roles EXCEPT ![ro] = row]) /\ UNCHANGED rescoped
      BY <2>1 DEF CreateRole
    <3> HIDE DEF row
    <3>4. QED
      BY <3>2, <3>3 DEF RolesStep
  <2>2. CASE UpdateRole(r)
    <3> DEFINE o == op[r]
               row == [slug |-> Patched(o.slug, roles[o.role].slug), scope |-> Patched(o.scope, roles[o.role].scope),
                       tenant |-> Patched(o.tenant, roles[o.role].tenant)]
    <3>1. /\ o.slug \in RoleSlugs \cup {Keep} /\ o.scope \in Scopes \cup {Keep}
          /\ o.tenant \in Tenants \cup {NoTenant, Keep}
      <4>1. op[r] \in RoleUpdateOps
        BY <2>2, Kinds DEF UpdateRole, Writes, Shape, TypeOK
      <4>2. QED
        BY <4>1 DEF RoleUpdateOps
    <3>2. o.role \in Stored(roles)
      BY <2>2 DEF UpdateRole, Writes, Shape, TargetInv
    <3>3. roles[o.role] \in RoleRow
      BY <3>2 DEF Shape, TypeOK, Stored
    <3>4. row \in RoleRow
      BY <3>1, <3>3 DEF RoleRow, Patched
    <3>5. o.scope = Keep /\ o.tenant = Keep => row.scope = roles[o.role].scope /\ row.tenant = roles[o.role].tenant
      BY DEF Patched
    <3>6. /\ roles' = [roles EXCEPT ![o.role] = row]
          /\ rescoped' = IF o.scope # Keep \/ o.tenant # Keep THEN rescoped \cup {o.role} ELSE rescoped
      BY <2>2 DEF UpdateRole
    <3> HIDE DEF row, o
    <3>7. \/ rescoped' = rescoped \cup {o.role}
          \/ UNCHANGED rescoped /\ row.scope = roles[o.role].scope /\ row.tenant = roles[o.role].tenant
      BY <3>5, <3>6
    <3>8. QED
      BY <3>2, <3>4, <3>6, <3>7 DEF RolesStep
  <2>3. QED
    BY <2>1, <2>2
<1>3. QED
  BY <1>1, <1>2, TablesIdle DEF TablesStep, Shape

LEMMA GrantTables ==
  ASSUME Shape, NEW r \in Requests, AssignPermission(r) \/ RemovePermission(r)
  PROVE  TablesStep
<1>1. op[r] \in RolePermissionOps /\ op[r].role \in Stored(roles)
  BY Kinds DEF AssignPermission, RemovePermission, Writes, Shape, TypeOK, TargetInv
<1>2. UNCHANGED << users, memberships, roles, permissions, memberRoles, rescoped, adopted >>
  BY DEF AssignPermission, RemovePermission, Returns, seeds
<1>3. GrantsStep
  BY <1>1 DEF AssignPermission, RemovePermission, GrantsStep, RolePermissionOps
<1>4. QED
  BY <1>2, <1>3, TablesIdle DEF TablesStep, Shape

LEMMA PermissionTables ==
  ASSUME Shape, NEW r \in Requests, CreatePermission(r) \/ UpdatePermission(r)
  PROVE  TablesStep
<1>1. UNCHANGED << users, memberships, roles, roleGrants, memberRoles, rescoped, adopted >>
  BY DEF CreatePermission, UpdatePermission, Returns, seeds
<1>2. PermissionsStep
  <2>1. CASE CreatePermission(r)
    <3>1. op[r].slug \in Slugs
      BY <2>1, Kinds DEF CreatePermission, Writes, Shape, TypeOK, PermissionCreateOps
    <3>2. PICK p \in PermissionIds : permissions' = [permissions EXCEPT ![p] = op[r].slug]
      BY <2>1 DEF CreatePermission
    <3>3. QED
      BY <3>1, <3>2, NullAssumption DEF PermissionsStep, Shape, TypeOK
  <2>2. CASE UpdatePermission(r)
    <3> DEFINE o == op[r]
               slug == Patched(o.slug, permissions[o.permission])
    <3>1. o \in PermissionUpdateOps /\ permissions[o.permission] # NoSlug
      BY <2>2, Kinds DEF UpdatePermission, Writes, Shape, TypeOK, TargetInv
    <3>2. o.permission \in PermissionIds /\ o.slug \in Slugs \cup {Keep}
      BY <3>1 DEF PermissionUpdateOps
    <3>3. permissions[o.permission] \in Slugs
      BY <3>1, <3>2 DEF Shape, TypeOK
    <3>4. slug \in Slugs
      BY <3>2, <3>3 DEF Patched
    <3>5. permissions' = [permissions EXCEPT ![o.permission] = slug]
      BY <2>2 DEF UpdatePermission
    <3> HIDE DEF o, slug
    <3>6. QED
      BY <3>2, <3>4, <3>5, NullAssumption DEF PermissionsStep, Shape, TypeOK
  <2>3. QED
    BY <2>1, <2>2
<1>3. QED
  BY <1>1, <1>2, TablesIdle DEF TablesStep, Shape

\* a new user, with its address in lower case
LEMMA LowerAddress ==
  ASSUME NEW email \in Address
  PROVE  ToLower(email) \in Address /\ ToLower(email).lower
BY DEF Address, ToLower

LEMMA NewUser ==
  ASSUME TypeOK, NEW email \in Address, email.lower, NEW status \in UserStatuses, NEW u \in Fresh(users),
         ~EmailTaken(email),
         users' = [users EXCEPT ![u] = [email |-> email, status |-> status]]
  PROVE  UsersStep
<1> DEFINE row == [email |-> email, status |-> status]
<1>1. row \in UserRow /\ row.email = email
  BY DEF UserRow
<1>2. u \in UserIds
  BY DEF TypeOK, Fresh
<1> HIDE DEF row
<1>3. users' = [users EXCEPT ![u] = row]
  BY DEF row
<1>4. QED
  BY <1>1, <1>2, <1>3 DEF UsersStep

LEMMA UserTables ==
  ASSUME Shape, NEW r \in Requests, CreateUser(r) \/ UpdateUser(r)
  PROVE  TablesStep
<1>1. UNCHANGED << memberships, roles, permissions, roleGrants, memberRoles, rescoped, adopted >>
  BY DEF CreateUser, UpdateUser, Returns, seeds
<1>2. UsersStep
  <2>1. CASE CreateUser(r)
    <3>1. op[r].email \in Address /\ op[r].status \in UserStatuses
      BY <2>1, Kinds DEF CreateUser, Writes, Shape, TypeOK, UserCreateOps
    <3>2. PICK u \in Fresh(users) :
            /\ users' = [users EXCEPT ![u] = [email |-> ToLower(op[r].email), status |-> op[r].status]]
            /\ ~EmailTaken(ToLower(op[r].email))
      BY <2>1 DEF CreateUser
    <3>3. QED
      BY <3>1, <3>2, LowerAddress, NewUser DEF Shape
  <2>2. CASE UpdateUser(r)
    <3> DEFINE o == op[r]
               row == [email |-> UpdatedEmail(o, users[o.user].email),
                       status |-> Patched(o.status, users[o.user].status)]
    <3>1. o.email \in Address \cup {Keep} /\ o.status \in UserStatuses \cup {Keep} /\ o.user \in Stored(users)
      BY <2>2, Kinds DEF UpdateUser, Writes, Shape, TypeOK, UserUpdateOps, TargetInv
    <3>2. users[o.user] \in UserRow /\ users[o.user].email.lower /\ o.user \in UserIds
      BY <3>1 DEF Shape, TypeOK, LowerInv, Stored
    <3>3. row \in UserRow /\ row.email.lower
      BY <3>1, <3>2 DEF UserRow, Address, UpdatedEmail, ToLower, Patched
    <3>4. /\ users' = [users EXCEPT ![o.user] = row]
          /\ row.email = users[o.user].email \/ ~EmailTaken(row.email)
      BY <2>2 DEF UpdateUser
    <3> HIDE DEF o, row
    <3>5. QED
      BY <3>1, <3>2, <3>3, <3>4 DEF UsersStep
  <2>3. QED
    BY <2>1, <2>2
<1>3. QED
  BY <1>1, <1>2, TablesIdle DEF TablesStep, Shape

GlobalMember(u) ==
  [user |-> u, tenant |-> NoTenant, company |-> NoCompany, scope |-> "GLOBAL", status |-> "ACTIVE"]

LEMMA NewMember ==
  ASSUME TypeOK, NEW u \in UserIds, NEW m \in Fresh(memberships),
         memberships' = [memberships EXCEPT ![m] = GlobalMember(u)]
  PROVE  MembershipsStep /\ m \in Stored(memberships)'
<1>1. GlobalMember(u) \in MembershipRow
  BY DEF GlobalMember, MembershipRow, Scopes, MembershipStatuses
<1>2. m \in Stored(memberships)'
  BY <1>1, NullAssumption DEF TypeOK, Fresh, Stored
<1>3. QED
  BY <1>1, <1>2 DEF MembershipsStep

LEMMA InternalUserTables ==
  ASSUME Shape, NEW r \in Requests, CreateInternalUser(r)
  PROVE  TablesStep
<1>1. UNCHANGED << roles, permissions, roleGrants, rescoped, adopted >>
  BY DEF CreateInternalUser, Returns, seeds
<1>2. op[r].email \in Address /\ op[r].status \in UserStatuses /\ op[r].role \in Stored(roles)
  BY Kinds DEF CreateInternalUser, Writes, Shape, TypeOK, InternalUserOps, TargetInv
<1>3. PICK u \in Fresh(users), m \in Fresh(memberships) :
        /\ users' = [users EXCEPT ![u] = [email |-> ToLower(op[r].email), status |-> op[r].status]]
        /\ memberships' = [memberships EXCEPT ![m] = GlobalMember(u)]
        /\ memberRoles' = memberRoles \cup {<< m, op[r].role >>}
        /\ ~EmailTaken(ToLower(op[r].email))
  BY DEF CreateInternalUser, GlobalMember
<1>4. UsersStep
  BY <1>2, <1>3, LowerAddress, NewUser DEF Shape
<1>5. u \in UserIds
  BY DEF Fresh, Shape, TypeOK
<1>6. MembershipsStep /\ m \in Stored(memberships)'
  BY <1>3, <1>5, NewMember DEF Shape
<1>7. MemberRolesStep
  BY <1>2, <1>3, <1>6 DEF MemberRolesStep
<1>8. QED
  BY <1>1, <1>4, <1>6, <1>7, TablesIdle DEF TablesStep, Shape

LEMMA RequestTables ==
  ASSUME Shape, NEW r \in Requests, Request(r)
  PROVE  TablesStep
<1>1. CASE Reads(r) \/ Ends(r) \/ UpdateCredentials(r)
  <2>1. UNCHANGED << tables, rescoped, adopted >>
    BY <1>1, ReadsKeep, EndsKeep DEF Shape, logs, seeds, UpdateCredentials, Returns
  <2>2. QED
    BY <2>1, TablesIdle DEF tables, TablesStep, Shape
<1>2. QED
  BY <1>1, Sorts, CreateMembershipTables, MemberRoleTables, RoleTables, GrantTables, PermissionTables,
     UserTables, InternalUserTables DEF WritesRow
-----------------------------------------------------------------------------
\* The seeds.
LEMMA SeedCatalogueTables ==
  ASSUME Shape, SeedCatalogue
  PROVE  PermissionsStep
<1> DEFINE missing == {s \in SeededSlugs : ~SlugTaken(s)}
           free == {p \in PermissionIds : permissions[p] = NoSlug}
<1>1. PICK at \in Injection(missing, free) :
        permissions' = [p \in PermissionIds |->
                          IF p \in DOMAIN AntiFunction(at) THEN AntiFunction(at)[p] ELSE permissions[p]]
  BY DEF SeedCatalogue
<1>2. at \in [missing -> free]
  BY DEF Injection
<1>3. DOMAIN AntiFunction(at) = {at[s] : s \in missing}
  BY <1>2 DEF AntiFunction, Inverse, Range
<1>4. \A p \in DOMAIN AntiFunction(at) : AntiFunction(at)[p] \in missing
  <2> SUFFICES ASSUME NEW p \in DOMAIN AntiFunction(at) PROVE AntiFunction(at)[p] \in missing
    OBVIOUS
  <2>1. AntiFunction(at)[p] = CHOOSE s \in DOMAIN at : p \in Range(at) => at[s] = p
    BY DEF AntiFunction, Inverse
  <2>2. \E s \in DOMAIN at : p \in Range(at) => at[s] = p
    BY <1>2, <1>3
  <2>3. QED
    BY <1>2, <2>1, <2>2
<1>5. missing \subseteq Slugs /\ \A p \in free : permissions[p] = NoSlug
  BY SeedsAssumption
<1>6. DOMAIN AntiFunction(at) \subseteq free
  BY <1>2, <1>3
<1> HIDE DEF missing, free
<1>7. QED
  BY <1>1, <1>4, <1>5, <1>6 DEF PermissionsStep, Shape, TypeOK

LEMMA SeedIsDefined ==
  ASSUME TypeOK
  PROVE  Definition \in [slug : RoleSlugs, scope : Scopes, anyScope : BOOLEAN, slugs : SUBSET Slugs]
<1>1. seed.at \in 1 .. Len(SeededRoles)
  BY DEF TypeOK
<1>2. \A S : SeededRoles \in Seq(S) => SeededRoles[seed.at] \in S
  BY <1>1
<1>3. QED
  BY <1>2, SeedsAssumption DEF Definition

LEMMA SeedTables ==
  ASSUME Shape, Seeding
  PROVE  TablesStep /\ UNCHANGED << pc, locals, committed, events, audits, rescoped >>
<1>1. UNCHANGED << pc, locals, committed, events, audits, rescoped >>
  BY DEF Seeding, SeedGoes, NextDefinition, SeedStart, SeedCatalogue, SeedRole, SeedPermissions, SeedRevoke, SeedGrant,
         SeedUser, SeedMembership, SeedNewMembership, SeedAttach, SeedFail, logs
<1>2. CASE SeedStart \/ SeedPermissions \/ SeedFail
  BY <1>1, <1>2, TablesIdle DEF SeedStart, SeedPermissions, SeedFail, tables, TablesStep, Shape
<1>3. CASE SeedCatalogue
  BY <1>1, <1>3, TablesIdle, SeedCatalogueTables DEF SeedCatalogue, TablesStep, Shape
<1>4. CASE SeedRole
  <2>1. UNCHANGED << users, memberships, permissions, roleGrants, memberRoles, adopted >>
    BY <1>4 DEF SeedRole
  <2> DEFINE row == [slug |-> Definition.slug, scope |-> Definition.scope, tenant |-> NoTenant]
  <2>2. row \in RoleRow
    <3>1. Definition \in [slug : RoleSlugs, scope : Scopes, anyScope : BOOLEAN, slugs : SUBSET Slugs]
      BY SeedIsDefined DEF Shape
    <3>2. QED
      BY <3>1 DEF RoleRow
  <2>3. UNCHANGED roles \/ \E ro \in Fresh(roles) : roles' = [roles EXCEPT ![ro] = row]
    BY <1>4 DEF SeedRole
  <2> HIDE DEF row
  <2>4. RolesStep
    BY <1>1, <2>2, <2>3 DEF RolesStep
  <2>5. QED
    BY <1>1, <2>1, <2>4, TablesIdle DEF TablesStep, Shape
<1>5. CASE SeedRevoke \/ SeedGrant
  <2>1. UNCHANGED << users, memberships, roles, permissions, memberRoles, adopted >>
    BY <1>5 DEF SeedRevoke, SeedGrant
  <2>2. SeedGrant => seed.role \in Stored(roles) /\ seed.rows \subseteq PermissionIds
    BY DEF SeedGrant, Shape, SeedInv, TypeOK
  <2>3. GrantsStep
    BY <1>5, <2>2 DEF SeedRevoke, SeedGrant, GrantsStep
  <2>4. QED
    BY <1>1, <2>1, <2>3, TablesIdle DEF TablesStep, Shape
<1>6. CASE SeedUser
  <2>1. UNCHANGED << memberships, roles, permissions, roleGrants, memberRoles, adopted >>
    BY <1>6 DEF SeedUser
  <2> DEFINE email == [name |-> AdminEmail, lower |-> TRUE]
  <2>2. email \in Address /\ email.lower /\ "ACTIVATED" \in UserStatuses
    <3>1. email \in Address
      BY SeedsAssumption DEF Address
    <3>2. email.lower /\ "ACTIVATED" \in UserStatuses
      BY DEF UserStatuses
    <3>3. QED
      BY <3>1, <3>2
  <2>3. \/ UNCHANGED users
        \/ ~EmailTaken(email) /\ \E u \in Fresh(users) : users' = [users EXCEPT ![u] = [email |-> email, status |-> "ACTIVATED"]]
    BY <1>6 DEF SeedUser
  <2> HIDE DEF email
  <2>4. UsersStep
    BY <2>2, <2>3, NewUser, TablesIdle DEF Shape
  <2>5. QED
    BY <1>1, <2>1, <2>4, TablesIdle DEF TablesStep, Shape
<1>7. CASE SeedMembership
  <2>1. UNCHANGED tables
    BY <1>7 DEF SeedMembership
  <2>2. AdoptedStep
    BY <1>7 DEF SeedMembership, AdoptedStep, RowsOf, Shape, TypeOK
  <2>3. QED
    BY <1>1, <2>1, <2>2, TablesIdle DEF tables, TablesStep, Shape
<1>8. CASE SeedNewMembership
  <2>1. UNCHANGED << users, roles, permissions, roleGrants, memberRoles, adopted >>
    BY <1>8 DEF SeedNewMembership
  <2>2. seed.user \in UserIds
    BY <1>8 DEF SeedNewMembership, Shape, SeedInv, Stored, TypeOK
  <2>3. MembershipsStep
    BY <1>8, <2>2, NewMember DEF SeedNewMembership, GlobalMember, Shape
  <2>4. QED
    BY <1>1, <2>1, <2>3, TablesIdle DEF TablesStep, Shape
<1>9. CASE SeedAttach
  <2>1. UNCHANGED << users, memberships, roles, permissions, roleGrants, adopted >>
    BY <1>9 DEF SeedAttach
  <2>2. seed.membership \in Stored(memberships)' /\ seed.role \in Stored(roles)
    BY <1>9, <2>1 DEF SeedAttach, Shape, SeedInv, Stored
  <2>3. MemberRolesStep
    BY <1>9, <2>2 DEF SeedAttach, MemberRolesStep
  <2>4. QED
    BY <1>1, <2>1, <2>3, TablesIdle DEF TablesStep, Shape
<1>10. QED
  BY <1>1, <1>2, <1>3, <1>4, <1>5, <1>6, <1>7, <1>8, <1>9 DEF Seeding
-----------------------------------------------------------------------------
\* What every step keeps of the rows that are there.
Kept ==
  /\ \A u \in Stored(users) : u \in Stored(users)'
  /\ \A m \in Stored(memberships) : m \in Stored(memberships)' /\ memberships'[m] = memberships[m]
  /\ \A ro \in Stored(roles) :
       /\ ro \in Stored(roles)'
       /\ \/ ro \in rescoped'
          \/ roles'[ro].scope = roles[ro].scope /\ roles'[ro].tenant = roles[ro].tenant
  /\ \A p \in PermissionIds : permissions[p] # NoSlug => permissions'[p] # NoSlug
  /\ rescoped \subseteq rescoped' /\ adopted \subseteq adopted'

LEMMA RowsAreKept ==
  ASSUME Shape, TablesStep
  PROVE  Kept
<1> USE DEF TablesStep, Shape, TypeOK, Stored, Fresh
<1>1. \A u \in Stored(users) : u \in Stored(users)'
  BY NullAssumption DEF UsersStep
<1>2. \A m \in Stored(memberships) : m \in Stored(memberships)' /\ memberships'[m] = memberships[m]
  BY NullAssumption DEF MembershipsStep
<1>3. rescoped \subseteq rescoped'
  BY DEF RolesStep
<1>4. \A ro \in Stored(roles) :
       /\ ro \in Stored(roles)'
       /\ \/ ro \in rescoped'
          \/ roles'[ro].scope = roles[ro].scope /\ roles'[ro].tenant = roles[ro].tenant
  BY NullAssumption DEF RolesStep
<1>5. QED
  BY <1>1, <1>2, <1>3, <1>4 DEF Kept, PermissionsStep, AdoptedStep

TablesOK ==
  /\ users \in [UserIds -> UserRow \cup {NoRow}]
  /\ memberships \in [MembershipIds -> MembershipRow \cup {NoRow}]
  /\ roles \in [RoleIds -> RoleRow \cup {NoRow}]
  /\ permissions \in [PermissionIds -> Slugs \cup {NoSlug}]
  /\ roleGrants \subseteq Stored(roles) \X PermissionIds
  /\ memberRoles \subseteq Stored(memberships) \X Stored(roles)
  /\ rescoped \subseteq Stored(roles)
  /\ adopted \subseteq Stored(memberships)

LEMMA TablesTyped ==
  ASSUME Shape, TablesStep
  PROVE  TablesOK' /\ LowerInv'
<1>1. Kept
  BY RowsAreKept
<1> USE DEF TablesStep
<1>2. users' \in [UserIds -> UserRow \cup {NoRow}] /\ LowerInv'
  BY DEF UsersStep, LowerInv, Shape, TypeOK, Stored
<1>3. memberships' \in [MembershipIds -> MembershipRow \cup {NoRow}]
  BY DEF MembershipsStep, Shape, TypeOK
<1>4. roles' \in [RoleIds -> RoleRow \cup {NoRow}]
  BY DEF RolesStep, Shape, TypeOK
<1>5. /\ Stored(users) \subseteq Stored(users)' /\ Stored(memberships) \subseteq Stored(memberships)'
      /\ Stored(roles) \subseteq Stored(roles)'
  BY <1>1 DEF Kept
<1>6. roleGrants' \subseteq Stored(roles)' \X PermissionIds
  BY <1>5 DEF GrantsStep, Shape, TypeOK
<1>7. memberRoles' \subseteq Stored(memberships)' \X Stored(roles)'
  BY <1>5 DEF MemberRolesStep, Shape, TypeOK
<1>8. rescoped' \subseteq Stored(roles)'
  BY <1>5 DEF RolesStep, Shape, TypeOK
<1>9. adopted' \subseteq Stored(memberships)'
  BY <1>5 DEF AdoptedStep
<1>10. QED
  BY <1>2, <1>3, <1>4, <1>6, <1>7, <1>8, <1>9 DEF TablesOK, PermissionsStep
-----------------------------------------------------------------------------
\* Where the reads of a request lead.
Resolves(r) ==
  /\ pc[r] = "resolve" /\ pc'[r] = AfterResolve(op[r].kind) /\ op'[r] = op[r]
  /\ scope'[r] = Resolve({memberships[m] : m \in RowsOf(op[r].actor)}, CompanyPaths)
  /\ ScopeAllows(op[r], scope'[r])

Decides(r) ==
  /\ op'[r] = op[r] /\ scope'[r] = scope[r]
  /\ \/ pc[r] = "find" /\ pc'[r] = AfterFind(op[r].kind) /\ Found(op[r], scope[r])
     \/ /\ pc[r] = "check" /\ Checked(op[r])
        /\ pc'[r] = IF op[r].kind = "user.createInternal" THEN "readRole" ELSE "write"
     \/ /\ pc[r] = "readRole" /\ pc'[r] = "write"
        /\ roles[op[r].role] # NoRow /\ RoleFits(op[r], roles[op[r].role])

Shows(r) ==
  /\ op'[r] = op[r] /\ scope'[r] = scope[r]
  /\ pc[r] \in {"list", "context", "contextSlugs", "detail"} /\ pc'[r] \in {"contextSlugs", "shown"}

LEMMA ReadsGo ==
  ASSUME Shape, NEW r \in Requests, Reads(r)
  PROVE  \/ pc'[r] = "refused" /\ op'[r] \in {op[r], NoOp}
         \/ pc[r] = "idle" /\ pc'[r] = "resolve" /\ op'[r] \in Ops
         \/ Resolves(r) \/ Decides(r) \/ Shows(r)
<1> USE DEF Goto, Shape, TypeOK, Entries
<1>1. CASE Refuse(r)
  BY <1>1 DEF Refuse
<1>2. CASE Begin(r)
  BY <1>2, BodiesAssumption DEF Begin
<1>3. CASE ResolveScope(r) /\ ~Refuse(r)
  BY <1>3 DEF ResolveScope, Resolves
<1>4. CASE List(r)
  BY <1>4 DEF List, Shows
<1>5. CASE Context(r) \/ ContextSlugs(r)
  BY <1>5 DEF Context, ContextSlugs, Shows
<1>6. CASE Detail(r)
  BY <1>6 DEF Detail, Shows
<1>7. CASE Find(r) /\ ~Refuse(r)
  BY <1>7 DEF Find, Proceed, locals, Decides
<1>8. CASE Check(r) /\ ~Refuse(r)
  BY <1>8 DEF Check, Proceed, locals, Decides
<1>9. CASE ReadRole(r) /\ ~Refuse(r)
  BY <1>9 DEF ReadRole, Proceed, locals, Decides
<1>10. QED
  BY <1>1, <1>2, <1>3, <1>4, <1>5, <1>6, <1>7, <1>8, <1>9 DEF Reads

LEMMA OthersKept ==
  ASSUME Shape, NEW r \in Requests, Request(r), NEW q \in Requests, q # r
  PROVE  pc'[q] = pc[q] /\ op'[q] = op[q] /\ scope'[q] = scope[q] /\ out'[q] = out[q]
         /\ view'[q] = view[q] /\ events'[q] = events[q]
<1>1. CASE Reads(r)
  BY <1>1, ReadsKeep DEF logs, Shape, TypeOK, Entries
<1>2. CASE WritesRow(r)
  BY <1>2, WritesKeep DEF Shape, TypeOK, Entries
<1>3. CASE Ends(r)
  BY <1>3, EndsKeep DEF Shape, TypeOK, Entries
<1>4. QED
  BY <1>1, <1>2, <1>3, Sorts

LEMMA RequestTyped ==
  ASSUME Shape, NEW r \in Requests, Request(r)
  PROVE  /\ pc' \in [Requests -> Steps] /\ op' \in [Requests -> Ops \cup {NoOp}]
         /\ committed' \subseteq Requests /\ audits' \subseteq committed' /\ seed' = seed
         /\ CommitInv' /\ Entries'
<1> USE DEF Shape, TypeOK
<1>1. CASE Reads(r)
  <2>1. pc'[r] \in Steps \ {"reload", "publish", "answer", "answered", "audited"}
    BY <1>1, ReadsGo DEF Resolves, Decides, Shows, AfterResolve, AfterFind, Steps
  <2>2. op'[r] \in Ops \cup {NoOp}
    BY <1>1, ReadsGo DEF Resolves, Decides, Shows
  <2>3. QED
    BY <1>1, <2>1, <2>2, ReadsKeep DEF logs, seeds, CommitInv, Entries
<1>2. CASE WritesRow(r)
  BY <1>2, WritesKeep DEF seeds, Steps, CommitInv, Entries
<1>3. CASE Ends(r)
  BY <1>3, EndsKeep DEF seeds, Steps, CommitInv, Entries
<1>4. QED
  BY <1>1, <1>2, <1>3, Sorts

LEMMA FlowStep ==
  ASSUME Shape, NEW r \in Requests, Request(r)
  PROVE  FlowInv'
<1> SUFFICES ASSUME NEW q \in Requests
    PROVE  /\ pc'[q] = "resolve" => op'[q] \in Ops
           /\ pc'[q] = "find" => op'[q].kind \in FindKinds
           /\ pc'[q] = "check" => op'[q].kind \in CheckKinds
           /\ pc'[q] = "readRole" => op'[q].kind \in {"membership.assign", "user.createInternal"}
  BY DEF FlowInv
<1>1. CASE q # r
  BY <1>1, OthersKept DEF Shape, FlowInv
<1>2. CASE q = r /\ ~Reads(r)
  BY <1>2, Sorts, WritesKeep, EndsKeep DEF Shape
<1>3. CASE q = r /\ Reads(r)
  <2>1. CASE Resolves(r)
    <3>1. op[r] \in Ops
      BY <2>1 DEF Resolves, Shape, FlowInv
    <3>2. QED
      BY <1>3, <2>1, <3>1, Kinds DEF Resolves, AfterResolve, CheckKinds, FindKinds
  <2>2. CASE Decides(r)
    BY <1>3, <2>2 DEF Decides, AfterFind
  <2>3. CASE ~Resolves(r) /\ ~Decides(r)
    BY <1>3, <2>3, ReadsGo DEF Shows
  <2>4. QED
    BY <2>1, <2>2, <2>3
<1>4. QED
  BY <1>1, <1>2, <1>3

\* what the rows of a request at its write are
Named(r) ==
  /\ pc[r] \in {"readRole", "write"} /\ op[r].kind \in {"membership.assign", "membership.unassign"} =>
       op[r].membership \in Stored(memberships)
  /\ pc[r] = "write" =>
       /\ op[r].kind \in {"role.update", "role.grant", "role.revoke", "membership.assign", "user.createInternal"} =>
            op[r].role \in Stored(roles)
       /\ op[r].kind = "user.update" => op[r].user \in Stored(users)
       /\ op[r].kind = "permission.update" => permissions[op[r].permission] # NoSlug

LEMMA TargetStep ==
  ASSUME Shape, NEW r \in Requests, Request(r)
  PROVE  TargetInv'
<1> SUFFICES ASSUME NEW q \in Requests PROVE Named(q)'
  BY DEF TargetInv, Named
<1>1. Kept /\ Named(q)
  BY RequestTables, RowsAreKept DEF Shape, TargetInv, Named
<1>2. CASE q # r
  <2>1. pc'[q] = pc[q] /\ op'[q] = op[q]
    BY <1>2, OthersKept
  <2>2. op[q].kind = "permission.update" => op[q].permission \in PermissionIds
    BY Kinds DEF Shape, TypeOK, PermissionUpdateOps
  <2>3. QED
    BY <1>1, <2>1, <2>2 DEF Named, Kept
<1>3. CASE q = r /\ ~Reads(r)
  BY <1>3, Sorts, WritesKeep, EndsKeep DEF Shape, Named
<1>4. CASE q = r /\ Reads(r)
  <2>1. UNCHANGED << users, memberships, roles, permissions >>
    BY <1>4, ReadsKeep DEF tables, Shape
  <2>2. CASE Resolves(r)
    BY <1>4, <2>2 DEF Resolves, AfterResolve, Named
  <2>3. CASE Decides(r) /\ pc[r] = "find"
    <3>1. op[r].kind \in FindKinds /\ Found(op[r], scope[r]) /\ pc'[r] = AfterFind(op[r].kind) /\ op'[r] = op[r]
      BY <2>3 DEF Decides, Shape, FlowInv
    <3>2. /\ op[r].kind \in {"membership.assign", "membership.unassign"} => op[r].membership \in Stored(memberships)
          /\ op[r].kind \in {"role.update", "role.grant", "role.revoke"} => op[r].role \in Stored(roles)
          /\ op[r].kind = "user.update" => op[r].user \in Stored(users)
      BY <3>1 DEF Found, FindMemberships, FindRoles, FindUsers
    <3>3. QED
      BY <1>4, <2>1, <3>1, <3>2 DEF AfterFind, FindKinds, Named, Stored
  <2>4. CASE Decides(r) /\ pc[r] = "check"
    <3>1. /\ op[r].kind \in CheckKinds /\ Checked(op[r]) /\ op'[r] = op[r]
          /\ pc'[r] = IF op[r].kind = "user.createInternal" THEN "readRole" ELSE "write"
      BY <2>4 DEF Decides, Shape, FlowInv
    <3>2. op[r].kind = "permission.update" => permissions[op[r].permission] # NoSlug
      BY <3>1 DEF Checked
    <3>3. QED
      BY <1>4, <2>1, <3>1, <3>2 DEF CheckKinds, Named
  <2>5. CASE Decides(r) /\ pc[r] = "readRole"
    <3>1. /\ op[r].kind \in {"membership.assign", "user.createInternal"} /\ op'[r] = op[r]
          /\ roles[op[r].role] # NoRow
      BY <2>5 DEF Decides, Shape, FlowInv
    <3>2. op[r].role \in RoleIds
      BY <3>1, Kinds DEF Shape, TypeOK, MembershipRoleOps, InternalUserOps
    <3>3. op[r].role \in Stored(roles)
      BY <3>1, <3>2 DEF Stored, Shape, TypeOK
    <3>4. QED
      BY <1>1, <1>4, <2>1, <2>5, <3>1, <3>3 DEF Named, Stored
  <2>6. CASE ~Resolves(r) /\ ~Decides(r)
    BY <1>4, <2>6, ReadsGo DEF Shows, Named
  <2>7. QED
    BY <2>2, <2>3, <2>4, <2>5, <2>6 DEF Decides
<1>5. QED
  BY <1>2, <1>3, <1>4

LEMMA ShapeRequest ==
  ASSUME Shape, NEW r \in Requests, Request(r)
  PROVE  Shape'
<1>1. TablesOK' /\ LowerInv' /\ Kept
  BY RequestTables, TablesTyped, RowsAreKept
<1>2. /\ pc' \in [Requests -> Steps] /\ op' \in [Requests -> Ops \cup {NoOp}]
      /\ committed' \subseteq Requests /\ audits' \subseteq committed' /\ seed' = seed
      /\ CommitInv' /\ Entries'
  BY RequestTyped
<1>3. /\ Stored(users) \subseteq Stored(users)' /\ Stored(memberships) \subseteq Stored(memberships)'
      /\ Stored(roles) \subseteq Stored(roles)'
  BY <1>1 DEF Kept
<1>4. SeedInv'
  BY <1>2, <1>3 DEF Shape, SeedInv
<1>5. seed' \in [pc : SeedSteps, runs : 0 .. MaxSeedings, at : 1 .. Len(SeededRoles),
                 role : Stored(roles)' \cup {NoRole}, rows : SUBSET PermissionIds,
                 user : Stored(users)' \cup {NoUser}, membership : Stored(memberships)' \cup {NoMembership}]
  BY <1>2, <1>3 DEF Shape, TypeOK
<1>6. TypeOK'
  BY <1>1, <1>2, <1>5 DEF TypeOK, TablesOK
<1>7. QED
  BY <1>1, <1>2, <1>4, <1>6, FlowStep, TargetStep DEF Shape

\* what the seed holds after its step
LEMMA SeedTyped ==
  ASSUME Shape, Seeding
  PROVE  /\ SeedInv'
         /\ seed' \in [pc : SeedSteps, runs : 0 .. MaxSeedings, at : 1 .. Len(SeededRoles),
                        role : Stored(roles)' \cup {NoRole}, rows : SUBSET PermissionIds,
                        user : Stored(users)' \cup {NoUser}, membership : Stored(memberships)' \cup {NoMembership}]
<1>1. /\ Stored(users) \subseteq Stored(users)' /\ Stored(memberships) \subseteq Stored(memberships)'
      /\ Stored(roles) \subseteq Stored(roles)'
  BY SeedTables, RowsAreKept DEF Kept
<1> DEFINE Held == [pc : SeedSteps, runs : 0 .. MaxSeedings, at : 1 .. Len(SeededRoles),
                    role : Stored(roles)' \cup {NoRole}, rows : SUBSET PermissionIds,
                    user : Stored(users)' \cup {NoUser}, membership : Stored(memberships)' \cup {NoMembership}]
<1>2. seed \in Held
  BY <1>1 DEF Shape, TypeOK
<1>3. Len(SeededRoles) \in Nat \ {0} /\ MaxSeedings \in Nat
  BY SeedsAssumption
<1>4. SeedGoes("off", [NoSeed EXCEPT !.runs = seed.runs]) => SeedInv' /\ seed' \in Held
  <2> SUFFICES ASSUME SeedGoes("off", [NoSeed EXCEPT !.runs = seed.runs]) PROVE SeedInv' /\ seed' \in Held
    OBVIOUS
  <2>1. seed' = [pc |-> "off", runs |-> seed.runs, at |-> 1, role |-> NoRole, rows |-> {}, user |-> NoUser,
                 membership |-> NoMembership]
    BY DEF SeedGoes, NoSeed
  <2>2. 1 \in 1 .. Len(SeededRoles)
    BY <1>3
  <2>3. QED
    BY <1>2, <2>1, <2>2 DEF SeedInv, SeedSteps
<1>5. CASE SeedStart
  <2>1. seed.runs + 1 \in 0 .. MaxSeedings
    BY <1>2, <1>3, <1>5 DEF SeedStart
  <2>2. seed' = [[seed EXCEPT !.runs = seed.runs + 1] EXCEPT !.pc = "catalogue"]
    BY <1>2, <1>5 DEF SeedStart, SeedGoes
  <2>3. QED
    BY <1>2, <2>1, <2>2 DEF SeedInv, SeedSteps
<1>6. CASE SeedFail
  BY <1>6, <1>4 DEF SeedFail
<1>7. CASE SeedCatalogue
  BY <1>2, <1>7 DEF SeedCatalogue, SeedGoes, SeedInv, SeedSteps
<1>8. CASE SeedRole
  <2>1. PICK ro \in Stored(roles)' : seed' = [[seed EXCEPT !.role = ro] EXCEPT !.pc = "permissions"]
    <3> DEFINE row == [slug |-> Definition.slug, scope |-> Definition.scope, tenant |-> NoTenant]
               Takes(ro) == seed' = [[seed EXCEPT !.role = ro] EXCEPT !.pc = "permissions"]
               Makes(ro) == roles' = [roles EXCEPT ![ro] = row] /\ Takes(ro)
    <3>1. CASE \E ro \in Stored(roles) : Takes(ro)
      BY <1>1, <3>1
    <3>2. CASE \E ro \in Fresh(roles) : Makes(ro)
      <4>1. PICK ro \in Fresh(roles) : Makes(ro)
        BY <3>2
      <4>2. row \in RoleRow
        BY SeedIsDefined DEF RoleRow, Shape
      <4> HIDE DEF row
      <4>3. ro \in Stored(roles)'
        BY <4>1, <4>2, NullAssumption DEF Stored, Fresh, Shape, TypeOK
      <4>4. QED
        BY <4>1, <4>3
    <3>3. (\E ro \in Stored(roles) : Takes(ro)) \/ \E ro \in Fresh(roles) : Makes(ro)
      BY <1>8 DEF SeedRole, SeedGoes
    <3>4. QED
      BY <3>1, <3>2, <3>3
  <2>2. QED
    BY <1>2, <2>1 DEF SeedInv, SeedSteps
<1>9. CASE SeedPermissions
  <2>1. seed.role \in Stored(roles)'
    BY <1>1, <1>9 DEF SeedPermissions, Shape, SeedInv
  <2>2. seed.at # Len(SeededRoles) => seed.at + 1 \in 1 .. Len(SeededRoles)
    BY <1>2, <1>3
  <2> DEFINE found == {p \in PermissionIds : /\ permissions[p] # NoSlug
                                             /\ (IsAdmin(seed.at) \/ permissions[p] \in Definition.slugs)}
  <2>3. \/ seed' = [seed EXCEPT !.pc = "user"]
        \/ seed.at # Len(SeededRoles) /\ seed' = [[seed EXCEPT !.at = @ + 1] EXCEPT !.pc = "role"]
        \/ \E step \in {"grant", "revoke"} : seed' = [[seed EXCEPT !.rows = found] EXCEPT !.pc = step]
    BY <1>9 DEF SeedPermissions, NextDefinition, IsAdmin, SeedGoes
  <2>4. found \in SUBSET PermissionIds
    OBVIOUS
  <2> HIDE DEF found
  <2>5. QED
    BY <1>2, <2>1, <2>2, <2>3, <2>4 DEF SeedInv, SeedSteps
<1>10. CASE SeedRevoke
  <2>1. seed.role \in Stored(roles)'
    BY <1>1, <1>10 DEF SeedRevoke, Shape, SeedInv
  <2>2. QED
    BY <1>2, <1>10, <2>1 DEF SeedRevoke, SeedGoes, SeedInv, SeedSteps
<1>11. CASE SeedGrant
  <2>1. seed.role \in Stored(roles)'
    BY <1>1, <1>11 DEF SeedGrant, Shape, SeedInv
  <2>2. seed.at # Len(SeededRoles) => seed.at + 1 \in 1 .. Len(SeededRoles)
    BY <1>2, <1>3
  <2>3. \/ seed' = [[seed EXCEPT !.rows = {}] EXCEPT !.pc = "user"]
        \/ /\ seed.at # Len(SeededRoles)
           /\ seed' = [[[seed EXCEPT !.rows = {}] EXCEPT !.at = seed.at + 1] EXCEPT !.pc = "role"]
    BY <1>2, <1>11 DEF SeedGrant, NextDefinition, IsAdmin, SeedGoes
  <2>4. QED
    BY <1>2, <2>1, <2>2, <2>3 DEF SeedInv, SeedSteps
<1>12. CASE SeedUser
  <2>1. seed.role \in Stored(roles)'
    BY <1>1, <1>12 DEF SeedUser, Shape, SeedInv
  <2>2. PICK u \in Stored(users)' : seed' = [[seed EXCEPT !.user = u] EXCEPT !.pc = "membership"]
    <3> DEFINE row == [email |-> [name |-> AdminEmail, lower |-> TRUE], status |-> "ACTIVATED"]
               Takes(u) == seed' = [[seed EXCEPT !.user = u] EXCEPT !.pc = "membership"]
               Makes(u) == users' = [users EXCEPT ![u] = row] /\ Takes(u)
    <3>1. CASE \E u \in Stored(users) : Takes(u)
      BY <1>1, <3>1
    <3>2. CASE \E u \in Fresh(users) : Makes(u)
      <4>1. PICK u \in Fresh(users) : Makes(u)
        BY <3>2
      <4>2. row \in UserRow
        BY SeedsAssumption DEF UserRow, UserStatuses, Address
      <4> HIDE DEF row
      <4>3. u \in Stored(users)'
        BY <4>1, <4>2, NullAssumption DEF Stored, Fresh, Shape, TypeOK
      <4>4. QED
        BY <4>1, <4>3
    <3>3. (\E u \in Stored(users) : Takes(u)) \/ \E u \in Fresh(users) : Makes(u)
      BY <1>12 DEF SeedUser, SeedGoes
    <3>4. QED
      BY <3>1, <3>2, <3>3
  <2>3. QED
    BY <1>2, <2>1, <2>2 DEF SeedInv, SeedSteps
<1>13. CASE SeedMembership
  <2>1. seed.role \in Stored(roles)' /\ seed.user \in Stored(users)'
    BY <1>1, <1>13 DEF SeedMembership, Shape, SeedInv
  <2>2. \/ \E m \in Stored(memberships)' : seed' = [[seed EXCEPT !.membership = m] EXCEPT !.pc = "attach"]
        \/ seed' = [seed EXCEPT !.pc = "newMembership"]
    BY <1>1, <1>13 DEF SeedMembership, SeedGoes, RowsOf
  <2>3. QED
    BY <1>2, <2>1, <2>2 DEF SeedInv, SeedSteps
<1>14. CASE SeedNewMembership
  <2>1. seed.role \in Stored(roles)' /\ seed.user \in UserIds
    BY <1>1, <1>14 DEF SeedNewMembership, Shape, SeedInv, TypeOK, Stored
  <2>2. PICK m \in Fresh(memberships) :
          /\ memberships' = [memberships EXCEPT ![m] = GlobalMember(seed.user)]
          /\ seed' = [[seed EXCEPT !.membership = m] EXCEPT !.pc = "attach"]
    BY <1>14 DEF SeedNewMembership, SeedGoes, GlobalMember
  <2>3. m \in Stored(memberships)'
    BY <2>1, <2>2, NewMember DEF Shape
  <2>4. QED
    BY <1>2, <2>1, <2>2, <2>3 DEF SeedInv, SeedSteps
<1>15. CASE SeedAttach
  BY <1>15, <1>4 DEF SeedAttach
<1>16. QED
  BY <1>5, <1>6, <1>7, <1>8, <1>9, <1>10, <1>11, <1>12, <1>13, <1>14, <1>15 DEF Seeding

LEMMA ShapeSeed ==
  ASSUME Shape, Seeding
  PROVE  Shape'
<1>1. TablesOK' /\ LowerInv' /\ Kept
  BY SeedTables, TablesTyped, RowsAreKept
<1>2. UNCHANGED << pc, locals, committed, events, audits, rescoped >>
  BY SeedTables
<1>3. TypeOK'
  BY <1>1, <1>2, SeedTyped DEF TypeOK, TablesOK, locals, Shape
<1>4. FlowInv' /\ CommitInv' /\ Entries'
  BY <1>2 DEF FlowInv, CommitInv, Entries, locals, Shape
<1>5. TargetInv'
  <2> SUFFICES ASSUME NEW q \in Requests PROVE Named(q)'
    BY DEF TargetInv, Named
  <2>1. Named(q) /\ pc'[q] = pc[q] /\ op'[q] = op[q]
    BY <1>2 DEF Shape, TargetInv, Named, locals
  <2>2. op[q].kind = "permission.update" => op[q].permission \in PermissionIds
    BY Kinds DEF Shape, TypeOK, PermissionUpdateOps
  <2>3. QED
    BY <1>1, <2>1, <2>2 DEF Named, Kept
<1>6. QED
  BY <1>1, <1>3, <1>4, <1>5, SeedTyped DEF Shape

LEMMA ShapeInit == Init => Shape
<1> SUFFICES ASSUME Init PROVE Shape
  OBVIOUS
<1>1. seed \in [pc : SeedSteps, runs : 0 .. MaxSeedings, at : 1 .. Len(SeededRoles),
                role : Stored(roles) \cup {NoRole}, rows : SUBSET PermissionIds,
                user : Stored(users) \cup {NoUser}, membership : Stored(memberships) \cup {NoMembership}]
  <2>1. Len(SeededRoles) \in Nat \ {0} /\ MaxSeedings \in Nat
    BY SeedsAssumption
  <2>2. QED
    BY <2>1 DEF Init, NoSeed, SeedSteps
<1>2. /\ roleGrants \subseteq Stored(roles) \X PermissionIds
      /\ memberRoles \subseteq Stored(memberships) \X Stored(roles)
  BY InitialAssumption DEF Init, Stored
<1>3. TypeOK
  BY <1>1, <1>2, InitialAssumption DEF Init, TypeOK, Steps
<1>4. LowerInv /\ SeedInv
  BY InitialAssumption DEF Init, LowerInv, SeedInv, Stored, NoSeed
<1>5. FlowInv /\ TargetInv /\ CommitInv
  BY DEF Init, FlowInv, TargetInv, CommitInv
<1>6. Entries
  BY DEF Init, Entries
<1>7. QED
  BY <1>3, <1>4, <1>5, <1>6 DEF Shape

LEMMA ShapeHolds == Spec => []Shape
<1>1. Shape /\ [Next]_vars => Shape'
  <2> SUFFICES ASSUME Shape, [Next]_vars PROVE Shape'
    OBVIOUS
  <2>1. CASE UNCHANGED vars
    BY <2>1 DEF vars, tables, locals, logs, seeds, Shape, TypeOK, FlowInv, TargetInv, SeedInv, LowerInv, CommitInv,
                Entries, Stored
  <2>2. QED
    BY <2>1, ShapeRequest, ShapeSeed DEF Next
<1>2. QED
  BY <1>1, ShapeInit, PTL DEF Spec

\* Users, memberships, roles and permissions keep their types, and grants and
\* assignments refer to rows that exist.
THEOREM TypeCorrect == Spec => []TypeOK
<1>1. Shape => TypeOK
  BY DEF Shape
<1>2. QED
  BY <1>1, ShapeHolds, PTL
-----------------------------------------------------------------------------
LEMMA LowerAddresses ==
  ASSUME NEW a \in Address, NEW b \in Address, a.lower, b.lower, a.name = b.name
  PROVE  a = b
BY DEF Address

\* Whatever case is typed, an address belongs to one user at most
\* (UsersRepository.create, createInternalUser, update, seedPlatformAdmin).
THEOREM EmailsAreUnique == Spec => []OneUserPerEmail
<1>1. Init => OneUserPerEmail
  BY InitialAssumption DEF Init, OneUserPerEmail, Stored
<1>2. Shape /\ OneUserPerEmail /\ UsersStep => OneUserPerEmail'
  <2> SUFFICES ASSUME Shape, OneUserPerEmail, UsersStep PROVE OneUserPerEmail'
    OBVIOUS
  <2>1. CASE UNCHANGED users
    BY <2>1 DEF OneUserPerEmail, Stored
  <2>2. CASE ~UNCHANGED users
    <3>1. PICK u \in UserIds, row \in UserRow :
            /\ users' = [users EXCEPT ![u] = row]
            /\ row.email.lower
            /\ \/ u \in Stored(users) /\ row.email = users[u].email
               \/ ~EmailTaken(row.email)
      BY <2>2 DEF UsersStep
    <3>2. \A v \in Stored(users) : users[v].email \in Address /\ users[v].email.lower
      BY DEF Shape, TypeOK, LowerInv, UserRow, Stored
    <3>3. row.email \in Address
      BY DEF UserRow
    <3>4. \A v \in Stored(users) \ {u} : users[v].email.name # row.email.name
      <4> SUFFICES ASSUME NEW v \in Stored(users) \ {u}, users[v].email.name = row.email.name PROVE FALSE
        OBVIOUS
      <4>1. users[v].email = row.email
        BY <3>1, <3>2, <3>3, LowerAddresses
      <4>2. u \in Stored(users) /\ row.email = users[u].email
        BY <3>1, <4>1 DEF EmailTaken
      <4>3. QED
        BY <4>1, <4>2 DEF OneUserPerEmail
    <3>5. \A v \in Stored(users)' : v # u => v \in Stored(users) /\ users'[v] = users[v]
      BY <3>1 DEF Stored, Shape, TypeOK
    <3>6. users'[u] = row
      BY <3>1 DEF Shape, TypeOK
    <3>7. QED
      BY <3>4, <3>5, <3>6 DEF OneUserPerEmail
  <2>3. QED
    BY <2>1, <2>2
<1>3. Shape /\ [Next]_vars => UsersStep
  <2>1. UNCHANGED vars => UsersStep
    BY DEF vars, tables, UsersStep
  <2>2. QED
    BY <2>1, RequestTables, SeedTables DEF Next, TablesStep
<1>4. QED
  BY <1>1, <1>2, <1>3, ShapeHolds, PTL DEF Spec
-----------------------------------------------------------------------------
\* The scopes of roles and of memberships.
RoleIsGlobal(ro) == ro \in rescoped \/ roles[ro].scope = "GLOBAL"

Fits(r) ==
  pc[r] = "write" /\ op[r].kind \in {"membership.assign", "user.createInternal"} =>
    op[r].role \in rescoped \/ RoleFits(op[r], roles[op[r].role])

\* the administrator's role is global, and so is its membership unless it was
\* found rather than made
SeedFits ==
  /\ \/ seed.pc \in {"user", "membership", "newMembership", "attach"}
     \/ seed.pc \in {"permissions", "revoke", "grant"} /\ IsAdmin(seed.at)
     => RoleIsGlobal(seed.role)
  /\ seed.pc = "attach" => seed.membership \in adopted \/ memberships[seed.membership].scope = "GLOBAL"

Agree(g) ==
  \/ g[1] \in adopted \/ g[2] \in rescoped
  \/ (memberships[g[1]].scope = "GLOBAL") = (roles[g[2]].scope = "GLOBAL")

RoleInv == RoleScopesAgree /\ (\A r \in Requests : Fits(r)) /\ SeedFits

LEMMA AgreementStays ==
  ASSUME Shape, Kept
  PROVE  /\ \A g \in memberRoles : Agree(g) => Agree(g)'
         /\ \A ro \in Stored(roles) : RoleIsGlobal(ro) => RoleIsGlobal(ro)'
BY DEF Shape, TypeOK, Kept, Agree, RoleIsGlobal

LEMMA FitsStep ==
  ASSUME Shape, NEW r \in Requests, Request(r), NEW q \in Requests, Fits(q)
  PROVE  Fits(q)'
<1>1. Kept
  BY RequestTables, RowsAreKept
<1>2. CASE q # r
  <2>1. pc'[q] = pc[q] /\ op'[q] = op[q]
    BY <1>2, OthersKept
  <2>2. SUFFICES ASSUME pc[q] = "write", op[q].kind \in {"membership.assign", "user.createInternal"},
                        op[q].role \notin rescoped'
        PROVE  RoleFits(op[q], roles[op[q].role])'
    BY <2>1 DEF Fits
  <2>3. /\ op[q].role \in Stored(roles)
        /\ op[q].kind = "membership.assign" => op[q].membership \in Stored(memberships)
    BY <2>2 DEF Shape, TargetInv
  <2>4. RoleFits(op[q], roles[op[q].role])
    BY <1>1, <2>2 DEF Fits, Kept
  <2>5. roles'[op[q].role].scope = roles[op[q].role].scope
    BY <1>1, <2>2, <2>3 DEF Kept
  <2>6. op[q].kind = "membership.assign" => memberships'[op[q].membership] = memberships[op[q].membership]
    BY <1>1, <2>3 DEF Kept
  <2>7. CASE op[q].kind = "membership.assign"
    BY <2>1, <2>4, <2>5, <2>6, <2>7 DEF RoleFits
  <2>8. CASE op[q].kind = "user.createInternal"
    BY <2>1, <2>4, <2>5, <2>8 DEF RoleFits
  <2>9. QED
    BY <2>2, <2>7, <2>8
<1>3. CASE q = r /\ ~Reads(r)
  BY <1>3, Sorts, WritesKeep, EndsKeep DEF Shape, Fits
<1>4. CASE q = r /\ Reads(r)
  <2>1. UNCHANGED << memberships, roles, rescoped >>
    BY <1>4, ReadsKeep DEF tables, logs, Shape
  <2>2. CASE Decides(r) /\ pc[r] = "readRole"
    <3>1. RoleFits(op[r], roles[op[r].role]) /\ op'[r] = op[r]
      BY <2>2 DEF Decides
    <3>2. QED
      BY <1>4, <2>1, <3>1 DEF Fits, RoleFits
  <2>3. CASE Decides(r) /\ pc[r] = "find"
    BY <1>4, <2>3 DEF Decides, AfterFind, Fits, FlowInv, FindKinds, Shape
  <2>4. CASE Decides(r) /\ pc[r] = "check"
    BY <1>4, <2>4 DEF Decides, Fits, FlowInv, CheckKinds, Shape
  <2>5. CASE ~Decides(r)
    BY <1>4, <2>5, ReadsGo DEF Resolves, AfterResolve, Shows, Fits
  <2>6. QED
    BY <2>2, <2>3, <2>4, <2>5 DEF Decides
<1>5. QED
  BY <1>2, <1>3, <1>4

LEMMA RoleRequest ==
  ASSUME Shape, RoleInv, NEW r \in Requests, Request(r)
  PROVE  RoleInv'
<1>1. Kept
  BY RequestTables, RowsAreKept
<1>2. \A q \in Requests : Fits(q)'
  BY FitsStep DEF RoleInv
<1>3. SeedFits'
  <2>1. seed' = seed
    BY RequestTyped
  <2>2. /\ seed.pc \in {"permissions", "revoke", "grant", "user", "membership", "newMembership", "attach"} =>
             seed.role \in Stored(roles)
        /\ seed.pc = "attach" => seed.membership \in Stored(memberships)
    BY DEF Shape, SeedInv
  <2>3. seed.pc = "attach" => seed'.membership \in adopted' \/ memberships'[seed'.membership].scope = "GLOBAL"
    BY <1>1, <2>1, <2>2 DEF RoleInv, SeedFits, Kept
  <2>4. QED
    BY <1>1, <2>1, <2>2, <2>3, AgreementStays DEF RoleInv, SeedFits, IsAdmin
<1>4. \A g \in memberRoles' : Agree(g)'
  <2>1. \A g \in memberRoles : Agree(g)'
    BY <1>1, AgreementStays DEF RoleInv, RoleScopesAgree, Agree
  <2>2. CASE AssignRole(r)
    <3>1. /\ op[r].role \in rescoped \/ RoleFits(op[r], roles[op[r].role])
          /\ op[r].kind = "membership.assign"
      BY <2>2 DEF RoleInv, Fits, AssignRole, Writes
    <3>2. Agree(<< op[r].membership, op[r].role >>)
      BY <3>1 DEF RoleFits, Agree
    <3>3. /\ memberRoles' = memberRoles \cup {<< op[r].membership, op[r].role >>}
          /\ UNCHANGED << memberships, roles, rescoped, adopted >>
      BY <2>2 DEF AssignRole, Returns, seeds
    <3>4. QED
      BY <2>1, <3>2, <3>3 DEF Agree
  <2>3. CASE CreateInternalUser(r)
    <3>1. RoleIsGlobal(op[r].role)
      BY <2>3 DEF RoleInv, Fits, CreateInternalUser, Writes, RoleFits, RoleIsGlobal
    <3>2. PICK u \in Fresh(users), m \in Fresh(memberships) :
            /\ memberships' = [memberships EXCEPT ![m] = GlobalMember(u)]
            /\ memberRoles' = memberRoles \cup {<< m, op[r].role >>}
            /\ UNCHANGED << roles, rescoped >>
      BY <2>3 DEF CreateInternalUser, GlobalMember
    <3>3. memberships'[m].scope = "GLOBAL"
      BY <3>2 DEF Fresh, Shape, TypeOK, GlobalMember
    <3>4. ASSUME NEW g, g = << m, op[r].role >> PROVE Agree(g)'
      BY <3>1, <3>2, <3>3, <3>4 DEF Agree, RoleIsGlobal
    <3>5. QED
      BY <2>1, <3>2, <3>4 DEF Agree
  <2>4. CASE ~AssignRole(r) /\ ~CreateInternalUser(r)
    <3>1. memberRoles' \subseteq memberRoles
      <4>1. CASE Reads(r) \/ Ends(r)
        BY <4>1, ReadsKeep, EndsKeep DEF tables, Shape
      <4>2. CASE WritesRow(r)
        BY <2>4, <4>2 DEF WritesRow, CreateMembership, RemoveRole, CreateRole, UpdateRole, AssignPermission,
           RemovePermission, CreatePermission, UpdatePermission, CreateUser, UpdateUser, UpdateCredentials, tables
      <4>3. QED
        BY <4>1, <4>2, Sorts
    <3>2. QED
      BY <2>1, <3>1
  <2>5. QED
    BY <2>2, <2>3, <2>4
<1>5. QED
  BY <1>2, <1>3, <1>4 DEF RoleInv, RoleScopesAgree, Agree

LEMMA RoleSeed ==
  ASSUME Shape, RoleInv, Seeding
  PROVE  RoleInv'
<1>1. Kept /\ UNCHANGED << pc, op, rescoped >>
  BY SeedTables, RowsAreKept DEF locals
<1>2. \A q \in Requests : Fits(q)'
  <2> SUFFICES ASSUME NEW q \in Requests, pc[q] = "write",
                      op[q].kind \in {"membership.assign", "user.createInternal"}, op[q].role \notin rescoped'
               PROVE  RoleFits(op[q], roles[op[q].role])'
    BY <1>1 DEF Fits
  <2>1. /\ op[q].role \in Stored(roles)
        /\ op[q].kind = "membership.assign" => op[q].membership \in Stored(memberships)
    BY DEF Shape, TargetInv
  <2>2. RoleFits(op[q], roles[op[q].role])
    BY <1>1 DEF RoleInv, Fits
  <2>3. /\ roles'[op[q].role].scope = roles[op[q].role].scope
        /\ op[q].kind = "membership.assign" => memberships'[op[q].membership] = memberships[op[q].membership]
    BY <1>1, <2>1 DEF Kept
  <2>4. CASE op[q].kind = "membership.assign"
    BY <1>1, <2>2, <2>3, <2>4 DEF RoleFits
  <2>5. CASE op[q].kind = "user.createInternal"
    BY <1>1, <2>2, <2>3, <2>5 DEF RoleFits
  <2>6. QED
    BY <2>4, <2>5
<1>3. \A g \in memberRoles : Agree(g)'
  BY <1>1, AgreementStays DEF RoleInv, RoleScopesAgree, Agree
<1>4. \A ro \in Stored(roles) : RoleIsGlobal(ro) => RoleIsGlobal(ro)'
  BY <1>1, AgreementStays
<1>5. CASE SeedAttach
  <2>1. RoleIsGlobal(seed.role) /\ (seed.membership \in adopted \/ memberships[seed.membership].scope = "GLOBAL")
    BY <1>5 DEF SeedAttach, RoleInv, SeedFits
  <2>2. Agree(<< seed.membership, seed.role >>)
    BY <2>1 DEF Agree, RoleIsGlobal
  <2>3. UNCHANGED << memberships, roles, adopted >> /\ memberRoles' = memberRoles \cup {<< seed.membership, seed.role >>}
    BY <1>5 DEF SeedAttach
  <2>4. \A g \in memberRoles' : Agree(g)'
    BY <1>1, <1>3, <2>2, <2>3 DEF Agree
  <2>5. seed'.pc = "off"
    BY <1>5 DEF SeedAttach, SeedGoes, NoSeed
  <2>6. QED
    BY <1>2, <2>4, <2>5 DEF RoleInv, RoleScopesAgree, Agree, SeedFits
<1>6. CASE ~SeedAttach
  <2>1. memberRoles' = memberRoles
    BY <1>6 DEF Seeding, SeedStart, SeedCatalogue, SeedRole, SeedPermissions, SeedRevoke, SeedGrant, SeedUser,
       SeedMembership, SeedNewMembership, SeedFail, tables
  <2>2. RoleScopesAgree'
    BY <1>3, <2>1 DEF RoleScopesAgree, Agree
  <2>3. seed.pc \in {"permissions", "revoke", "grant", "user", "membership", "newMembership", "attach"} =>
          seed.role \in Stored(roles)
    BY DEF Shape, SeedInv
  <2>4. SeedFits'
    <3> USE DEF SeedFits, SeedGoes, IsAdmin, Shape, TypeOK
    <3>1. CASE SeedStart \/ SeedFail \/ SeedCatalogue
      BY <3>1 DEF SeedStart, SeedFail, SeedCatalogue, NoSeed
    <3>2. CASE SeedRole
      <4> DEFINE row == [slug |-> Definition.slug, scope |-> Definition.scope, tenant |-> NoTenant]
                 Takes(ro) == seed' = [[seed EXCEPT !.role = ro] EXCEPT !.pc = "permissions"]
      <4>1. PICK ro \in RoleIds :
              /\ Takes(ro)
              /\ \/ roles' = roles /\ (Definition.anyScope \/ roles[ro].scope = Definition.scope)
                 \/ roles' = [roles EXCEPT ![ro] = row]
        BY <3>2 DEF SeedRole, Stored, Fresh
      <4>2. IsAdmin(seed.at) => Definition.scope = "GLOBAL" /\ ~Definition.anyScope
        BY SeedsAssumption DEF Definition
      <4>3. IsAdmin(seed.at) => roles'[ro].scope = "GLOBAL"
        BY <4>1, <4>2
      <4>4. seed'.pc = "permissions" /\ seed'.at = seed.at /\ seed'.role = ro
        BY <4>1
      <4>5. QED
        BY <4>3, <4>4 DEF RoleIsGlobal
    <3>3. CASE SeedPermissions
      <4> DEFINE found == {p \in PermissionIds : /\ permissions[p] # NoSlug
                                                 /\ (IsAdmin(seed.at) \/ permissions[p] \in Definition.slugs)}
      <4>1. IsAdmin(seed.at) => ~Definition.anyScope
        BY SeedsAssumption DEF Definition
      <4>2. /\ seed.pc = "permissions" /\ UNCHANGED roles
            /\ \/ seed'.pc = "role"
               \/ seed'.at = seed.at /\ seed'.role = seed.role /\ seed'.pc \in {"grant", "revoke"}
        <5>1. /\ seed.pc = "permissions" /\ UNCHANGED roles
              /\ \/ seed' = [[seed EXCEPT !.at = @ + 1] EXCEPT !.pc = "role"]
                 \/ \E step \in {"grant", "revoke"} : seed' = [[seed EXCEPT !.rows = found] EXCEPT !.pc = step]
          BY <3>3, <4>1 DEF SeedPermissions, NextDefinition, tables
        <5> HIDE DEF found
        <5>2. QED
          BY <5>1
      <4>3. QED
        BY <1>1, <1>4, <2>3, <4>2 DEF RoleInv
    <3>4. CASE SeedRevoke
      BY <1>1, <1>4, <2>3, <3>4 DEF SeedRevoke, RoleInv
    <3>5. CASE SeedGrant
      BY <1>1, <1>4, <2>3, <3>5 DEF SeedGrant, NextDefinition, RoleInv
    <3>6. CASE SeedUser
      BY <1>1, <1>4, <2>3, <3>6 DEF SeedUser, RoleInv
    <3>7. CASE SeedMembership
      BY <1>1, <1>4, <2>3, <3>7 DEF SeedMembership, RoleInv
    <3>8. CASE SeedNewMembership
      <4>1. PICK m \in Fresh(memberships) :
              /\ memberships' = [memberships EXCEPT ![m] = GlobalMember(seed.user)]
              /\ seed' = [[seed EXCEPT !.membership = m] EXCEPT !.pc = "attach"]
        BY <3>8 DEF SeedNewMembership, GlobalMember
      <4>2. memberships'[m].scope = "GLOBAL"
        BY <4>1 DEF Fresh, GlobalMember
      <4>3. seed.pc = "newMembership" /\ seed'.pc = "attach" /\ seed'.role = seed.role /\ seed'.membership = m
        BY <3>8, <4>1 DEF SeedNewMembership
      <4>4. QED
        BY <1>1, <1>4, <2>3, <4>2, <4>3 DEF RoleInv
    <3>9. QED
      BY <1>6, <3>1, <3>2, <3>3, <3>4, <3>5, <3>6, <3>7, <3>8 DEF Seeding
  <2>5. QED
    BY <1>2, <2>2, <2>4 DEF RoleInv
<1>7. QED
  BY <1>5, <1>6

\* A global role hangs on a global membership and a scoped role on a scoped one,
\* whatever updates and seeds race with the assignment, but for roles that were
\* rescoped and memberships that the administrator seed found
\* (MembershipsRepository.assignRole, UsersRepository.createInternalUser).
THEOREM ScopesAgree == Spec => []RoleScopesAgree
<1>1. Init => RoleInv
  <2> SUFFICES ASSUME Init PROVE RoleInv
    OBVIOUS
  <2>1. RoleScopesAgree
    BY InitialAssumption DEF Init, RoleScopesAgree
  <2>2. QED
    BY <2>1 DEF Init, RoleInv, Fits, SeedFits, NoSeed
<1>2. Shape /\ RoleInv /\ [Next]_vars => RoleInv'
  <2> SUFFICES ASSUME Shape, RoleInv, [Next]_vars PROVE RoleInv'
    OBVIOUS
  <2>1. CASE UNCHANGED vars
    BY <2>1 DEF vars, tables, locals, logs, seeds, RoleInv, RoleScopesAgree, Fits, RoleFits, SeedFits, RoleIsGlobal
  <2>2. QED
    BY <2>1, RoleRequest, RoleSeed DEF Next
<1>3. RoleInv => RoleScopesAgree
  BY DEF RoleInv
<1>4. QED
  BY <1>1, <1>2, <1>3, ShapeHolds, PTL DEF Spec
-----------------------------------------------------------------------------
\* What a scope reaches, its user's active memberships reach.
GoodScope(a, s) ==
  /\ s.isGlobal => IsGlobal(a)
  /\ \A t \in s.tenantIds : t # NoTenant /\ \E m \in ActiveOf(a) : memberships[m].tenant = t
  /\ \A p \in s.companyPaths :
       \E m \in ActiveOf(a) : memberships[m].company # NoCompany /\ p = CompanyPaths[memberships[m].company]

LEMMA ResolvedIsGood ==
  ASSUME NEW a
  PROVE  GoodScope(a, Resolve({memberships[m] : m \in RowsOf(a)}, CompanyPaths))
<1>1. ASSUME NEW rows, \A row \in rows : row.status = "ACTIVE" => \E m \in ActiveOf(a) : memberships[m] = row
      PROVE  GoodScope(a, Resolve(rows, CompanyPaths))
  <2>1. CASE \E row \in rows : row.status = "ACTIVE" /\ row.scope = "GLOBAL"
    <3>1. Resolve(rows, CompanyPaths) = GlobalScope
      BY <2>1 DEF Resolve
    <3>2. IsGlobal(a)
      BY <1>1, <2>1 DEF IsGlobal
    <3>3. QED
      BY <3>1, <3>2 DEF GoodScope, GlobalScope
  <2>2. CASE ~\E row \in rows : row.status = "ACTIVE" /\ row.scope = "GLOBAL"
    <3> DEFINE active == {row \in rows : row.status = "ACTIVE"}
               ids == {row.company : row \in active} \ {NoCompany}
               tenants == {row.tenant : row \in active} \ {NoTenant}
               paths == {CompanyPaths[c] : c \in ids}
    <3>1. Resolve(rows, CompanyPaths) =
            [isGlobal |-> FALSE, tenantIds |-> tenants, companyIds |-> ids, companyPaths |-> paths]
      BY <2>2 DEF Resolve
    <3>2. \A t \in tenants : t # NoTenant /\ \E m \in ActiveOf(a) : memberships[m].tenant = t
      BY <1>1
    <3>3. \A p \in paths :
            \E m \in ActiveOf(a) : memberships[m].company # NoCompany /\ p = CompanyPaths[memberships[m].company]
      BY <1>1
    <3> HIDE DEF active, ids, tenants, paths
    <3>4. QED
      BY <3>1, <3>2, <3>3 DEF GoodScope
  <2>3. QED
    BY <2>1, <2>2
<1>2. \A row \in {memberships[m] : m \in RowsOf(a)} :
        row.status = "ACTIVE" => \E m \in ActiveOf(a) : memberships[m] = row
  BY DEF ActiveOf
<1>3. QED
  BY <1>1, <1>2

LEMMA VisibleIsReached ==
  ASSUME TypeOK, NEW a, NEW s, GoodScope(a, s)
  PROVE  /\ \A m \in Stored(memberships) :
              MembershipVisible(s, m) => Reaches(a, memberships[m].tenant, memberships[m].company)
         /\ \A ro \in RoleIds : RoleVisible(s, ro) => Reaches(a, roles[ro].tenant, NoCompany)
<1>1. s.isGlobal => \A t, c : Reaches(a, t, c)
  BY DEF GoodScope, IsGlobal, Reaches
<1>2. \A t \in s.tenantIds : \A c : Reaches(a, t, c)
  BY DEF GoodScope, Reaches
<1>3. ASSUME NEW m \in Stored(memberships), NEW p \in s.companyPaths, IsPrefix(p, PathOf(memberships[m].company))
      PROVE  Reaches(a, memberships[m].tenant, memberships[m].company)
  <2>1. PICK n \in ActiveOf(a) : memberships[n].company # NoCompany /\ p = CompanyPaths[memberships[n].company]
    BY DEF GoodScope
  <2>2. memberships[n].company \in Companies
    BY <2>1 DEF ActiveOf, RowsOf, Stored, TypeOK, MembershipRow
  <2>3. Len(p) # 0
    <3>1. p \in Seq(Companies) /\ p # << >>
      BY <2>1, <2>2, PathsAssumption
    <3>2. QED
      BY <3>1
  <2>4. memberships[m].company # NoCompany
    BY <1>3, <2>3 DEF PathOf, IsPrefix
  <2>5. QED
    BY <1>3, <2>1, <2>4 DEF PathOf, Reaches
<1>4. QED
  BY <1>1, <1>2, <1>3 DEF MembershipVisible, CompanyVisible, RoleVisible

\* the rows that user a reaches, or that changed since
MembershipReached(a, m) == m \in Stored(memberships) /\ Reaches(a, memberships[m].tenant, memberships[m].company)
RoleReached(a, ro) == ro \in Stored(roles) /\ (ro \in rescoped \/ Reaches(a, roles[ro].tenant, NoCompany))
UserReached(a, u) == IsGlobal(a) \/ \E m \in ActiveOf(u) : Reaches(a, memberships[m].tenant, memberships[m].company)

\* what a request at a step decided with its scope
Decided(step, o, s) ==
  /\ step \in {"readRole", "write"} /\ o.kind \in {"membership.assign", "membership.unassign"} =>
       MembershipReached(o.actor, o.membership)
  /\ step = "write" =>
       /\ o.kind = "membership.create" => ValidScope(o)
       /\ o.kind = "role.update" /\ o.scope # Keep /\ o.scope = "GLOBAL" => s.isGlobal
       /\ o.kind \in {"role.grant", "role.revoke"} => RoleReached(o.actor, o.role)
       /\ o.kind = "user.update" => UserReached(o.actor, o.user)

\* ... and what it listed
ListKinds == {"membership.list", "role.list", "user.list"}

Shown(o, v) ==
  /\ o.kind = "membership.list" => \A m \in v : MembershipReached(o.actor, m)
  /\ o.kind = "role.list" => \A ro \in v : RoleReached(o.actor, ro)
  /\ o.kind = "user.list" => \A u \in v : UserReached(o.actor, u)

SoundAt(step, o, s, v) ==
  /\ step \notin {"idle", "resolve", "refused"} => GoodScope(o.actor, s) /\ ScopeAllows(o, s)
  /\ Decided(step, o, s)
  /\ step = "list" => o.kind \in ListKinds
  /\ step \in {"context", "contextSlugs", "detail", "write"} => o.kind \notin ListKinds
  /\ step = "shown" => Shown(o, v)

Sound(r) == SoundAt(pc[r], op[r], scope[r], view[r])

LEMMA ReachStays ==
  ASSUME Kept, TypeOK
  PROVE  /\ \A a : IsGlobal(a) => IsGlobal(a)'
         /\ \A a, s : GoodScope(a, s) => GoodScope(a, s)'
         /\ \A a, m : MembershipReached(a, m) => MembershipReached(a, m)'
         /\ \A a, ro : RoleReached(a, ro) => RoleReached(a, ro)'
         /\ \A a, u : UserReached(a, u) => UserReached(a, u)'
<1>1. \A u : ActiveOf(u) \subseteq ActiveOf(u)' /\ \A m \in ActiveOf(u) : memberships'[m] = memberships[m]
  BY DEF Kept, ActiveOf, RowsOf
<1>2. \A a : IsGlobal(a) => IsGlobal(a)'
  BY <1>1 DEF IsGlobal
<1>3. \A a, s : GoodScope(a, s) => GoodScope(a, s)'
  BY <1>1, <1>2 DEF GoodScope
<1>4. \A a, m : MembershipReached(a, m) => MembershipReached(a, m)'
  BY <1>1 DEF MembershipReached, Reaches, Kept
<1>5. \A a, ro : RoleReached(a, ro) => RoleReached(a, ro)'
  BY <1>1 DEF RoleReached, Reaches, Kept
<1>6. \A a, u : UserReached(a, u) => UserReached(a, u)'
  BY <1>1, <1>2 DEF UserReached, Reaches
<1>7. QED
  BY <1>2, <1>3, <1>4, <1>5, <1>6

LEMMA SoundStays ==
  ASSUME Kept, TypeOK
  PROVE  \A step, o, s, v : SoundAt(step, o, s, v) => SoundAt(step, o, s, v)'
<1>1. \A o, s : ScopeAllows(o, s) => ScopeAllows(o, s)'
  BY DEF ScopeAllows, MembershipTargetAllowed, RoleTargetAllowed, CanAccessTenant
<1>2. \A step, o, s : Decided(step, o, s) => Decided(step, o, s)'
  BY ReachStays DEF Decided, ValidScope
<1>3. \A o, v : Shown(o, v) => Shown(o, v)'
  BY ReachStays DEF Shown
<1>4. QED
  BY <1>1, <1>2, <1>3, ReachStays DEF SoundAt, ListKinds

LEMMA SoundRead ==
  ASSUME Shape, NEW r \in Requests, Sound(r), Reads(r)
  PROVE  SoundAt(pc'[r], op'[r], scope'[r], view'[r])
<1> DEFINE o == op[r]
           s == scope[r]
<1>1. CASE pc'[r] \in {"refused", "resolve"}
  BY <1>1 DEF SoundAt, Decided
<1>2. CASE Resolves(r)
  <2>1. GoodScope(o.actor, scope'[r]) /\ op'[r] = o /\ ScopeAllows(o, scope'[r])
    BY <1>2, ResolvedIsGood DEF Resolves
  <2>2. QED
    BY <1>2, <2>1 DEF Resolves, AfterResolve, SoundAt, Decided, ListKinds
<1>3. CASE Decides(r) /\ pc[r] = "find"
  <2>1. /\ pc'[r] = AfterFind(o.kind) /\ o.kind \in FindKinds /\ Found(o, s) /\ op'[r] = o /\ scope'[r] = s
        /\ GoodScope(o.actor, s) /\ ScopeAllows(o, s)
    BY <1>3 DEF Decides, Shape, FlowInv, Sound, SoundAt
  <2>2. /\ \A m \in Stored(memberships) : MembershipVisible(s, m) => MembershipReached(o.actor, m)
        /\ \A ro \in Stored(roles) : RoleVisible(s, ro) => RoleReached(o.actor, ro)
        /\ \A u : UserVisible(s, u) => UserReached(o.actor, u)
    <3>1. /\ \A m \in Stored(memberships) :
               MembershipVisible(s, m) => Reaches(o.actor, memberships[m].tenant, memberships[m].company)
          /\ \A ro \in RoleIds : RoleVisible(s, ro) => Reaches(o.actor, roles[ro].tenant, NoCompany)
      BY <2>1, VisibleIsReached DEF Shape
    <3>2. QED
      BY <2>1, <3>1 DEF MembershipReached, RoleReached, UserReached, UserVisible, GoodScope, Stored, Shape, TypeOK,
                        ActiveOf, RowsOf
  <2>3. /\ o.kind \in {"membership.assign", "membership.unassign"} => MembershipReached(o.actor, o.membership)
        /\ o.kind \in {"role.grant", "role.revoke"} => RoleReached(o.actor, o.role)
        /\ o.kind = "user.update" => UserReached(o.actor, o.user)
    BY <2>1, <2>2 DEF Found, FindMemberships, FindRoles, FindUsers
  <2>4. o.kind = "role.update" /\ o.scope # Keep /\ o.scope = "GLOBAL" => s.isGlobal
    BY <2>1 DEF Found, RoleTargetAllowed, Patched
  <2>5. QED
    BY <2>1, <2>3, <2>4 DEF AfterFind, SoundAt, Decided, FindKinds, ListKinds
<1>4. CASE Decides(r) /\ pc[r] = "check"
  <2>1. /\ o.kind \in CheckKinds /\ Checked(o) /\ op'[r] = o /\ scope'[r] = s
        /\ pc'[r] = IF o.kind = "user.createInternal" THEN "readRole" ELSE "write"
        /\ GoodScope(o.actor, s) /\ ScopeAllows(o, s)
    BY <1>4 DEF Decides, Shape, FlowInv, Sound, SoundAt
  <2>2. o.kind = "membership.create" => ValidScope(o)
    BY <2>1 DEF Checked
  <2>3. QED
    BY <2>1, <2>2 DEF SoundAt, Decided, CheckKinds, ListKinds
<1>5. CASE Decides(r) /\ pc[r] = "readRole"
  BY <1>5 DEF Decides, Shape, FlowInv, Sound, SoundAt, Decided, ListKinds
<1>6. CASE Shows(r)
  <2>1. op'[r] = o /\ scope'[r] = s /\ GoodScope(o.actor, s) /\ ScopeAllows(o, s)
    BY <1>6 DEF Shows, Sound, SoundAt
  <2>2. CASE List(r)
    <3>1. /\ pc'[r] = "shown"
          /\ o.kind = "membership.list" => view'[r] = FindMemberships(s)
          /\ o.kind = "role.list" => view'[r] = FindRoles(s)
          /\ o.kind = "user.list" => view'[r] = FindUsers(s)
      BY <2>2 DEF List, Goto, Shape, TypeOK, Entries
    <3>2. /\ \A m \in Stored(memberships) :
               MembershipVisible(s, m) => Reaches(o.actor, memberships[m].tenant, memberships[m].company)
          /\ \A ro \in RoleIds : RoleVisible(s, ro) => Reaches(o.actor, roles[ro].tenant, NoCompany)
      BY <2>1, VisibleIsReached DEF Shape
    <3>3. Shown(o, view'[r])
      <4>1. o.kind = "membership.list" => \A m \in view'[r] : MembershipReached(o.actor, m)
        BY <3>1, <3>2 DEF FindMemberships, MembershipReached
      <4>2. o.kind = "role.list" => \A ro \in view'[r] : RoleReached(o.actor, ro)
        BY <3>1, <3>2 DEF FindRoles, RoleReached, Stored, Shape, TypeOK
      <4>3. o.kind = "user.list" => \A u \in view'[r] : UserReached(o.actor, u)
        BY <2>1, <3>1, <3>2 DEF FindUsers, UserReached, UserVisible, GoodScope, ActiveOf, RowsOf
      <4>4. QED
        BY <4>1, <4>2, <4>3 DEF Shown
    <3>4. QED
      BY <2>1, <3>1, <3>3 DEF SoundAt, Decided
  <2>3. CASE ~List(r)
    <3>1. pc[r] \in {"context", "contextSlugs", "detail"} /\ pc'[r] \in {"contextSlugs", "shown"}
      BY <1>6, <2>3 DEF Shows, Reads, Begin, ResolveScope, Context, ContextSlugs, Find, Detail, Check, ReadRole
    <3>2. o.kind \notin ListKinds
      BY <3>1 DEF Sound, SoundAt
    <3>3. QED
      BY <2>1, <3>1, <3>2 DEF SoundAt, Decided, Shown, ListKinds
  <2>4. QED
    BY <2>2, <2>3
<1>7. QED
  BY <1>1, <1>2, <1>3, <1>4, <1>5, <1>6, ReadsGo DEF Decides

LEMMA SoundRequest ==
  ASSUME Shape, NEW r \in Requests, Request(r), NEW q \in Requests, Sound(q)
  PROVE  Sound(q)'
<1>1. Kept /\ TypeOK
  BY RequestTables, RowsAreKept DEF Shape
<1>2. \A step, o, s, v :
        SoundAt(step, o, s, v) /\ pc'[q] = step /\ op'[q] = o /\ scope'[q] = s /\ view'[q] = v => Sound(q)'
  BY <1>1, SoundStays DEF Sound
<1>3. SoundAt(pc'[q], op'[q], scope'[q], view'[q])
  <2>1. CASE q # r
    BY <2>1, OthersKept DEF Sound
  <2>2. CASE q = r /\ Reads(r)
    BY <2>2, SoundRead
  <2>3. CASE q = r /\ WritesRow(r)
    BY <2>3, WritesKeep DEF Shape, Sound, SoundAt, Decided, Shown, ListKinds
  <2>4. CASE q = r /\ Ends(r)
    BY <2>4, EndsKeep DEF Shape, Sound, SoundAt, Decided
  <2>5. QED
    BY <2>1, <2>2, <2>3, <2>4, Sorts
<1>4. QED
  BY <1>2, <1>3

AllSound == \A r \in Requests : Sound(r)

LEMMA SoundHolds == Spec => []AllSound
<1>1. Init => AllSound
  BY DEF Init, AllSound, Sound, SoundAt, Decided
<1>2. Shape /\ AllSound /\ [Next]_vars => AllSound'
  <2> SUFFICES ASSUME Shape, AllSound, [Next]_vars, NEW q \in Requests PROVE Sound(q)'
    BY DEF AllSound
  <2>1. Sound(q)
    BY DEF AllSound
  <2>2. CASE UNCHANGED vars \/ Seeding
    <3>1. TablesStep /\ UNCHANGED << pc, locals >>
      BY <2>2, SeedTables, TablesIdle DEF vars, TablesStep, seeds, logs, Shape, tables
    <3>2. Kept /\ TypeOK
      BY <3>1, RowsAreKept DEF Shape
    <3>3. \A step, o, s, v :
            SoundAt(step, o, s, v) /\ pc'[q] = step /\ op'[q] = o /\ scope'[q] = s /\ view'[q] = v => Sound(q)'
      BY <3>2, SoundStays DEF Sound
    <3>4. QED
      BY <2>1, <3>1, <3>3 DEF Sound, locals
  <2>3. CASE \E r \in Requests : Request(r)
    BY <2>1, <2>3, SoundRequest
  <2>4. QED
    BY <2>2, <2>3 DEF Next
<1>3. QED
  BY <1>1, <1>2, ShapeHolds, PTL DEF Spec

\* What a listing showed, the active memberships of its user reach, whatever
\* changed since but for roles that were rescoped (the scope filters of the
\* repositories over AccessScopeService).
THEOREM ListsStay == Spec => []ListsStayInScope
<1>1. AllSound => ListsStayInScope
  <2> SUFFICES ASSUME AllSound, NEW r \in Requests, pc[r] = "shown"
      PROVE  /\ op[r].kind = "membership.list" =>
                  \A m \in view[r] : Reaches(op[r].actor, memberships[m].tenant, memberships[m].company)
             /\ op[r].kind = "role.list" =>
                  \A ro \in view[r] : ro \in rescoped \/ Reaches(op[r].actor, roles[ro].tenant, NoCompany)
             /\ op[r].kind = "user.list" =>
                  \A u \in view[r] :
                    \/ IsGlobal(op[r].actor)
                    \/ \E m \in ActiveOf(u) : Reaches(op[r].actor, memberships[m].tenant, memberships[m].company)
    BY DEF ListsStayInScope
  <2>1. Shown(op[r], view[r])
    BY DEF AllSound, Sound, SoundAt
  <2>2. QED
    BY <2>1 DEF Shown, MembershipReached, RoleReached, UserReached
<1>2. QED
  BY <1>1, SoundHolds, PTL

LEMMA WriterKnows ==
  ASSUME Shape, AllSound, NEW r \in Requests, WritesRow(r)
  PROVE  LET a == op[r].actor
             s == scope[r]
         IN /\ GoodScope(a, s) /\ ScopeAllows(op[r], s)
            /\ Decided("write", op[r], s) /\ Named(r) /\ pc[r] = "write"
BY WritesKeep DEF AllSound, Sound, SoundAt, Shape, TargetInv, Named

\* which request moved
LEMMA Mover ==
  ASSUME Shape, [Next]_vars, NEW r \in Requests, pc'[r] # pc[r]
  PROVE  \/ WritesRow(r)
         \/ UNCHANGED << users, memberships, roles, permissions, roleGrants, memberRoles >>
<1>1. ~UNCHANGED vars /\ ~Seeding
  BY SeedTables DEF vars, locals
<1>2. Request(r)
  BY <1>1, OthersKept DEF Next
<1>3. QED
  BY <1>2, Sorts, ReadsKeep, EndsKeep DEF tables, Shape

NoNewGlobal(r) ==
  /\ \A m \in MembershipIds :
       memberships[m] # memberships'[m] /\ memberships'[m].scope = "GLOBAL" => IsGlobal(op[r].actor)
  /\ \A ro \in RoleIds :
       roles[ro] # roles'[ro] /\ roles'[ro].scope = "GLOBAL" =>
         (roles[ro] # NoRow /\ roles[ro].scope = "GLOBAL") \/ IsGlobal(op[r].actor)

LEMMA GlobalWrite ==
  ASSUME Shape, AllSound, NEW r \in Requests, WritesRow(r)
  PROVE  NoNewGlobal(r)
<1> DEFINE o == op[r]
           s == scope[r]
<1>1. /\ s.isGlobal => IsGlobal(o.actor)
      /\ ScopeAllows(o, s) /\ Decided("write", o, s) /\ Named(r) /\ pc[r] = "write"
  BY WriterKnows DEF GoodScope
<1>2. CASE CreateMembership(r)
  <2>1. /\ o.kind = "membership.create" /\ UNCHANGED roles
        /\ \A m \in MembershipIds : memberships'[m] = memberships[m] \/ memberships'[m].scope = o.scope
    BY <1>2 DEF CreateMembership, Writes, Shape, TypeOK
  <2>2. o.scope = "GLOBAL" => s.isGlobal
    BY <1>1, <2>1 DEF ScopeAllows, Decided, ValidScope, MembershipTargetAllowed
  <2>3. QED
    BY <1>1, <2>1, <2>2 DEF NoNewGlobal
<1>3. CASE CreateInternalUser(r)
  <2>1. o.kind = "user.createInternal" /\ UNCHANGED roles
    BY <1>3 DEF CreateInternalUser, Writes
  <2>2. s.isGlobal
    BY <1>1, <2>1 DEF ScopeAllows
  <2>3. QED
    BY <1>1, <2>1, <2>2 DEF NoNewGlobal
<1>4. CASE CreateRole(r)
  <2>1. /\ o.kind = "role.create" /\ UNCHANGED memberships
        /\ \A ro \in RoleIds : roles'[ro] = roles[ro] \/ roles'[ro].scope = o.scope
    BY <1>4 DEF CreateRole, Writes, Shape, TypeOK
  <2>2. o.scope = "GLOBAL" => s.isGlobal
    BY <1>1, <2>1 DEF ScopeAllows, RoleTargetAllowed
  <2>3. QED
    BY <1>1, <2>1, <2>2 DEF NoNewGlobal
<1>5. CASE UpdateRole(r)
  <2>1. /\ o.kind = "role.update" /\ UNCHANGED memberships
        /\ \A ro \in RoleIds : ro # o.role => roles'[ro] = roles[ro]
        /\ o.role \in RoleIds => roles'[o.role].scope = Patched(o.scope, roles[o.role].scope)
    <3> DEFINE row == [slug |-> Patched(o.slug, roles[o.role].slug), scope |-> Patched(o.scope, roles[o.role].scope),
                       tenant |-> Patched(o.tenant, roles[o.role].tenant)]
    <3>1. roles' = [roles EXCEPT ![o.role] = row] /\ row.scope = Patched(o.scope, roles[o.role].scope)
      BY <1>5 DEF UpdateRole
    <3> HIDE DEF row
    <3>2. QED
      BY <1>5, <3>1 DEF UpdateRole, Writes, Shape, TypeOK
  <2>2. roles[o.role] # NoRow /\ (o.scope # Keep /\ o.scope = "GLOBAL" => s.isGlobal)
    BY <1>1, <2>1, NullAssumption DEF Decided, Named, Stored
  <2>3. \A ro \in RoleIds :
          roles[ro] # roles'[ro] /\ roles'[ro].scope = "GLOBAL" =>
            (roles[ro] # NoRow /\ roles[ro].scope = "GLOBAL") \/ IsGlobal(o.actor)
    BY <1>1, <2>1, <2>2 DEF Patched
  <2>4. QED
    BY <2>1, <2>3 DEF NoNewGlobal
<1>6. CASE ~CreateMembership(r) /\ ~CreateInternalUser(r) /\ ~CreateRole(r) /\ ~UpdateRole(r)
  <2>1. UNCHANGED << memberships, roles >>
    BY <1>6 DEF WritesRow, AssignRole, RemoveRole, AssignPermission, RemovePermission, CreatePermission,
                UpdatePermission, CreateUser, UpdateUser, UpdateCredentials, tables
  <2>2. QED
    BY <2>1 DEF NoNewGlobal
<1>7. QED
  BY <1>2, <1>3, <1>4, <1>5, <1>6

\* what other components hold of a user, a membership or a role: that it is there,
\* and where a membership or a role that nobody rescoped belongs
PlacesStay ==
  /\ \A u \in Stored(users) : u \in Stored(users)'
  /\ \A m \in Stored(memberships) : memberships'[m] = memberships[m]
  /\ \A ro \in Stored(roles) :
       /\ ro \in Stored(roles)'
       /\ ro \notin rescoped' => roles'[ro].scope = roles[ro].scope /\ roles'[ro].tenant = roles[ro].tenant

\* Users and roles are never deleted and a stored membership never changes,
\* whatever requests and seeds do at the same time; so a scope that was resolved
\* from memberships stays right, and Companies and Customers may take the
\* memberships for constants (MembershipsRepository, AccessScopeService.resolve).
THEOREM MembershipsStay == Spec => [][PlacesStay]_vars
<1>1. Shape /\ [Next]_vars => [PlacesStay]_vars
  <2> SUFFICES ASSUME Shape, Next PROVE PlacesStay
    OBVIOUS
  <2>1. TablesStep
    BY RequestTables, SeedTables DEF Next
  <2>2. Kept
    BY <2>1, RowsAreKept
  <2>3. QED
    BY <2>2, NullAssumption DEF Kept, PlacesStay, Stored
<1>2. QED
  BY <1>1, ShapeHolds, PTL DEF Spec

\* Nobody but the seed or a user who is global already makes a membership or a
\* role global (assertTargetScope, assertRoleTargetScope, validateScope), though
\* the check and the write are different statements.
THEOREM GlobalStays == Spec => GlobalFromGlobal
<1>1. Shape /\ AllSound /\ [Next]_vars =>
        [\A r \in Requests : pc'[r] # pc[r] =>
           /\ \A m \in MembershipIds :
                memberships[m] # memberships'[m] /\ memberships'[m].scope = "GLOBAL" => IsGlobal(op[r].actor)
           /\ \A ro \in RoleIds :
                roles[ro] # roles'[ro] /\ roles'[ro].scope = "GLOBAL" =>
                  (roles[ro] # NoRow /\ roles[ro].scope = "GLOBAL") \/ IsGlobal(op[r].actor)]_vars
  <2> SUFFICES ASSUME Shape, AllSound, [Next]_vars, NEW r \in Requests, pc'[r] # pc[r] PROVE NoNewGlobal(r)
    BY DEF NoNewGlobal
  <2>1. CASE WritesRow(r)
    BY <2>1, GlobalWrite
  <2>2. CASE UNCHANGED << memberships, roles >>
    BY <2>2 DEF NoNewGlobal
  <2>3. QED
    BY <2>1, <2>2, Mover
<1>2. QED
  BY <1>1, ShapeHolds, SoundHolds, PTL DEF Spec, GlobalFromGlobal

StaysInScope(r) ==
  /\ \A g \in (memberRoles' \ memberRoles) \cup (memberRoles \ memberRoles') :
       g[1] \in Stored(memberships) =>
         Reaches(op[r].actor, memberships[g[1]].tenant, memberships[g[1]].company)
  /\ \A g \in (roleGrants' \ roleGrants) \cup (roleGrants \ roleGrants') :
       g[1] \in rescoped \/ Reaches(op[r].actor, roles[g[1]].tenant, NoCompany)
  /\ \A u \in Stored(users) :
       users'[u] # users[u] =>
         \/ IsGlobal(op[r].actor)
         \/ \E m \in ActiveOf(u) : Reaches(op[r].actor, memberships[m].tenant, memberships[m].company)

LEMMA ScopedWrite ==
  ASSUME Shape, AllSound, NEW r \in Requests, WritesRow(r)
  PROVE  StaysInScope(r)
<1> DEFINE o == op[r]
<1>1. Decided("write", o, scope[r])
  BY WriterKnows
<1>2. CASE AssignRole(r) \/ RemoveRole(r)
  <2>1. /\ o.kind \in {"membership.assign", "membership.unassign"} /\ UNCHANGED << users, roleGrants >>
        /\ \A g \in (memberRoles' \ memberRoles) \cup (memberRoles \ memberRoles') : g[1] = o.membership
    BY <1>2 DEF AssignRole, RemoveRole, Writes
  <2>2. QED
    BY <1>1, <2>1 DEF Decided, MembershipReached, StaysInScope
<1>3. CASE AssignPermission(r) \/ RemovePermission(r)
  <2>1. /\ o.kind \in {"role.grant", "role.revoke"} /\ UNCHANGED << users, memberRoles >>
        /\ \A g \in (roleGrants' \ roleGrants) \cup (roleGrants \ roleGrants') : g[1] = o.role
    BY <1>3 DEF AssignPermission, RemovePermission, Writes
  <2>2. QED
    BY <1>1, <2>1 DEF Decided, RoleReached, StaysInScope
<1>4. CASE UpdateUser(r)
  <2>1. /\ o.kind = "user.update" /\ UNCHANGED << memberRoles, roleGrants >>
        /\ \A u \in Stored(users) : users'[u] # users[u] => u = o.user
    BY <1>4 DEF UpdateUser, Writes, Stored, Shape, TypeOK
  <2>2. QED
    BY <1>1, <2>1 DEF Decided, UserReached, StaysInScope
<1>5. CASE CreateUser(r)
  <2>1. UNCHANGED << memberRoles, roleGrants >> /\ \A u \in Stored(users) : users'[u] = users[u]
    BY <1>5 DEF CreateUser, Stored, Fresh, Shape, TypeOK
  <2>2. QED
    BY <2>1 DEF StaysInScope
<1>6. CASE CreateInternalUser(r)
  <2>1. PICK u \in Fresh(users), m \in Fresh(memberships) :
          /\ \E row : users' = [users EXCEPT ![u] = row]
          /\ memberRoles' = memberRoles \cup {<< m, o.role >>}
    BY <1>6 DEF CreateInternalUser
  <2>2. UNCHANGED roleGrants /\ \A v \in Stored(users) : users'[v] = users[v]
    BY <1>6, <2>1 DEF CreateInternalUser, Stored, Fresh, Shape, TypeOK
  <2>3. m \notin Stored(memberships)
    BY DEF Stored, Fresh
  <2>4. QED
    BY <2>1, <2>2, <2>3 DEF StaysInScope
<1>7. CASE CreateMembership(r) \/ CreateRole(r) \/ UpdateRole(r) \/ CreatePermission(r) \/ UpdatePermission(r)
           \/ UpdateCredentials(r)
  <2>1. UNCHANGED << users, memberRoles, roleGrants >>
    BY <1>7 DEF CreateMembership, CreateRole, UpdateRole, CreatePermission, UpdatePermission, UpdateCredentials, tables
  <2>2. QED
    BY <2>1 DEF StaysInScope
<1>8. QED
  BY <1>2, <1>3, <1>4, <1>5, <1>6, <1>7 DEF WritesRow

\* What a request writes, its caller's active memberships reach at the write,
\* whatever happened since the scoped read (MembershipsService, RolesService and
\* UsersService read with the scope and write by id).
THEOREM WritesStay == Spec => WritesStayInScope
<1>1. Shape /\ AllSound /\ [Next]_vars =>
        [\A r \in Requests : pc'[r] # pc[r] =>
           /\ \A g \in (memberRoles' \ memberRoles) \cup (memberRoles \ memberRoles') :
                g[1] \in Stored(memberships) =>
                  Reaches(op[r].actor, memberships[g[1]].tenant, memberships[g[1]].company)
           /\ \A g \in (roleGrants' \ roleGrants) \cup (roleGrants \ roleGrants') :
                g[1] \in rescoped \/ Reaches(op[r].actor, roles[g[1]].tenant, NoCompany)
           /\ \A u \in Stored(users) :
                users'[u] # users[u] =>
                  \/ IsGlobal(op[r].actor)
                  \/ \E m \in ActiveOf(u) : Reaches(op[r].actor, memberships[m].tenant, memberships[m].company)]_vars
  <2> SUFFICES ASSUME Shape, AllSound, [Next]_vars, NEW r \in Requests, pc'[r] # pc[r] PROVE StaysInScope(r)
    BY DEF StaysInScope
  <2>1. CASE WritesRow(r)
    BY <2>1, ScopedWrite
  <2>2. CASE UNCHANGED << users, memberRoles, roleGrants >>
    BY <2>2 DEF StaysInScope
  <2>3. QED
    BY <2>1, <2>2, Mover
<1>2. QED
  BY <1>1, ShapeHolds, SoundHolds, PTL DEF Spec, WritesStayInScope
-----------------------------------------------------------------------------
\* Events: the sets of DomainEvents, request by request.
InWritten(r) == r \in committed /\ op[r].kind \notin {"permission.create", "permission.update"}
InAnnounced(r) == r \in committed /\ \E e \in events[r] : e.row = out[r]
InAnswered(r) == InWritten(r) /\ pc[r] \in {"answered", "audited"}

Written == committed \cap Announcing
Announced == {r \in committed : \E e \in events[r] : e.row = out[r]}
Answered == {r \in committed \cap Announcing : pc[r] \in {"answered", "audited"}}

ReadSteps == {"idle", "resolve", "list", "context", "contextSlugs", "find", "detail", "check", "readRole", "write"}

\* before its write a request left no trace, between the write and the event it
\* has none in the outbox, and afterwards the one it returns
EventsOf(r) ==
  /\ pc[r] \in ReadSteps => r \notin committed
  /\ pc[r] \in ReadSteps \cup {"reload", "publish"} => events[r] = {}
  /\ pc[r] \in {"reload", "publish", "answer", "answered", "audited"} => InWritten(r)
  /\ pc[r] \in {"answer", "answered", "audited"} => InAnnounced(r)
  /\ r \in audits => pc[r] = "audited"

EventInv == \A r \in Requests : EventsOf(r)

LEMMA ReadsFrom ==
  ASSUME NEW r \in Requests, Reads(r)
  PROVE  pc[r] \in ReadSteps
BY DEF Reads, Begin, ResolveScope, List, Context, ContextSlugs, Find, Detail, Check, ReadRole, ReadSteps

\* A write and its place in the sets.
LEMMA WritesGo ==
  ASSUME Shape, NEW r \in Requests, WritesRow(r)
  PROVE  \/ /\ op[r].kind \in {"permission.create", "permission.update"}
            /\ pc'[r] = "shown" /\ events'[r] = events[r]
         \/ /\ op[r].kind \notin {"permission.create", "permission.update"}
            /\ pc'[r] \in {"publish", "reload"} /\ events'[r] = events[r]
         \/ /\ op[r].kind \notin {"permission.create", "permission.update"}
            /\ pc'[r] = "answer" /\ \E e \in events'[r] : e.row = out'[r]
<1> USE DEF Goto, Writes, Returns, Entries, TypeOK, Shape
<1>1. CASE CreateMembership(r) \/ AssignRole(r) \/ RemoveRole(r)
  BY <1>1 DEF CreateMembership, AssignRole, RemoveRole
<1>2. CASE CreateRole(r) \/ UpdateRole(r)
  BY <1>2 DEF CreateRole, UpdateRole
<1>3. CASE AssignPermission(r) \/ RemovePermission(r)
  BY <1>3 DEF AssignPermission, RemovePermission
<1>4. CASE CreatePermission(r) \/ UpdatePermission(r)
  BY <1>4 DEF CreatePermission, UpdatePermission
<1>5. CASE CreateUser(r) \/ UpdateUser(r) \/ UpdateCredentials(r)
  BY <1>5 DEF CreateUser, UpdateUser, UpdateCredentials
<1>6. CASE CreateInternalUser(r)
  <2>1. PICK row :
          /\ events' = [events EXCEPT ![r] = [type : {"user.created", "membership.created", "membership.role_assigned"},
                                              row : {row}]]
          /\ out' = [out EXCEPT ![r] = row]
    BY <1>6 DEF CreateInternalUser
  <2>2. [type |-> "user.created", row |-> row] \in events'[r] /\ out'[r] = row
    BY <2>1
  <2>3. op[r].kind = "user.createInternal" /\ pc'[r] = "answer"
    BY <1>6 DEF CreateInternalUser
  <2>4. QED
    BY <2>2, <2>3
<1>7. QED
  BY <1>1, <1>2, <1>3, <1>4, <1>5, <1>6 DEF WritesRow

LEMMA EventsOfOne ==
  ASSUME Shape, EventInv, NEW r \in Requests, Request(r), EventsOf(r)'
  PROVE  EventInv'
<1> SUFFICES ASSUME NEW q \in Requests, q # r PROVE EventsOf(q)'
  BY DEF EventInv
<1>1. /\ pc'[q] = pc[q] /\ op'[q] = op[q] /\ out'[q] = out[q] /\ events'[q] = events[q]
      /\ EventsOf(q)
  BY OthersKept DEF EventInv
<1>2. (q \in committed' <=> q \in committed) /\ (q \in audits' <=> q \in audits)
  BY Sorts, ReadsKeep, WritesKeep, EndsKeep DEF logs, Shape
<1>3. QED
  BY <1>1, <1>2 DEF EventsOf, InWritten, InAnnounced

\* Only the request that moves may enter or leave a set.
LEMMA OneSetMember ==
  ASSUME Shape, Shape', NEW r \in Requests, Request(r)
  PROVE  /\ \A q \in Requests \ {r} : /\ q \in Written' <=> q \in Written
                                      /\ q \in Announced' <=> q \in Announced
                                      /\ q \in Answered' <=> q \in Answered
         /\ (r \in Written' <=> r \in Written) => Written' = Written
         /\ (r \in Announced' <=> r \in Announced) => Announced' = Announced
         /\ (r \in Answered' <=> r \in Answered) => Answered' = Answered
         /\ r \in Written' => Written' = Written \cup {r}
         /\ r \in Announced' => Announced' = Announced \cup {r}
         /\ r \in Answered' => Answered' = Answered \cup {r}
<1>1. /\ Written \subseteq Requests /\ Announced \subseteq Requests /\ Answered \subseteq Requests
      /\ Written' \subseteq Requests /\ Announced' \subseteq Requests /\ Answered' \subseteq Requests
  <2>1. /\ Written \subseteq committed /\ Announced \subseteq committed /\ Answered \subseteq committed
        /\ Written' \subseteq committed' /\ Announced' \subseteq committed' /\ Answered' \subseteq committed'
    BY DEF Written, Announced, Answered
  <2>2. QED
    BY <2>1 DEF Shape, TypeOK
<1>2. ASSUME NEW q \in Requests \ {r}
      PROVE  /\ q \in Written' <=> q \in Written
             /\ q \in Announced' <=> q \in Announced
             /\ q \in Answered' <=> q \in Answered
  <2>1. pc'[q] = pc[q] /\ op'[q] = op[q] /\ out'[q] = out[q] /\ events'[q] = events[q]
    BY OthersKept
  <2>2. q \in committed' <=> q \in committed
    BY Sorts, ReadsKeep, WritesKeep, EndsKeep DEF logs, Shape
  <2>3. QED
    BY <2>1, <2>2 DEF Written, Announced, Answered, Announcing
<1> HIDE DEF Written, Announced, Answered
<1>3. QED
  BY <1>1, <1>2

LEMMA AnnouncementStep ==
  ASSUME Shape, Shape', EventInv, NEW r \in Requests, Request(r)
  PROVE  EventInv' /\ [Announcement!Next]_(Announcement!eventVars)
<1>1. EventsOf(r)
  BY DEF EventInv
<1>2. /\ r \in Written <=> InWritten(r)
      /\ r \in Announced <=> InAnnounced(r)
      /\ r \in Answered <=> InAnswered(r)
      /\ r \in Written' <=> InWritten(r)'
      /\ r \in Announced' <=> InAnnounced(r)'
      /\ r \in Answered' <=> InAnswered(r)'
  BY DEF Shape, TypeOK, Written, Announced, Answered, Announcing, InWritten, InAnnounced, InAnswered
<1>3. CASE Reads(r)
  <2>1. /\ committed' = committed /\ audits' = audits /\ events' = events
        /\ pc[r] \in ReadSteps /\ r \notin committed
    BY <1>1, <1>3, ReadsKeep, ReadsFrom DEF logs, Shape, EventsOf
  <2>2. pc'[r] \in ReadSteps \cup {"refused", "shown"}
    BY <1>3, ReadsGo DEF Resolves, Decides, Shows, AfterResolve, AfterFind, ReadSteps
  <2>3. EventsOf(r)'
    BY <1>1, <2>1, <2>2 DEF EventsOf, ReadSteps
  <2>4. Written' = Written /\ Announced' = Announced /\ Answered' = Answered
    BY <1>2, <2>1, OneSetMember DEF InWritten, InAnnounced, InAnswered
  <2>5. QED
    BY <2>1, <2>3, <2>4, EventsOfOne DEF Announcement!eventVars, Written, Announced, Answered
<1>4. CASE WritesRow(r)
  <2>1. /\ op' = op /\ audits' = audits /\ r \in committed'
        /\ pc[r] = "write" /\ r \notin committed /\ events[r] = {}
    BY <1>1, <1>4, WritesKeep DEF Shape, EventsOf, ReadSteps
  <2>2. r \notin Written /\ r \notin Announced /\ r \notin Answered
    BY <1>2, <2>1 DEF InWritten, InAnnounced, InAnswered
  <2>3. CASE op[r].kind \in {"permission.create", "permission.update"}
    <3>1. pc'[r] = "shown" /\ events'[r] = {}
      BY <1>4, <2>1, <2>3, WritesGo
    <3>2. EventsOf(r)'
      BY <1>1, <2>1, <3>1 DEF EventsOf, ReadSteps
    <3>3. Written' = Written /\ Announced' = Announced /\ Answered' = Answered
      BY <1>2, <2>1, <2>2, <2>3, <3>1, OneSetMember DEF InWritten, InAnnounced, InAnswered
    <3>4. QED
      BY <2>1, <3>2, <3>3, EventsOfOne DEF Announcement!eventVars, Written, Announced, Answered
  <2>4. CASE op[r].kind \notin {"permission.create", "permission.update"} /\ pc'[r] \in {"publish", "reload"}
    <3>1. events'[r] = {}
      BY <1>4, <2>1, <2>4, WritesGo
    <3>2. EventsOf(r)'
      BY <1>1, <2>1, <2>4, <3>1 DEF EventsOf, ReadSteps, InWritten
    <3>3. Written' = Written \cup {r} /\ Announced' = Announced /\ Answered' = Answered
      BY <1>2, <2>1, <2>2, <2>4, <3>1, OneSetMember DEF InWritten, InAnnounced, InAnswered
    <3>4. Announcement!Write(r)
      BY <2>1, <2>2, <3>3 DEF Announcement!Write, Written, Announced, Answered
    <3>5. QED
      BY <3>2, <3>4, EventsOfOne DEF Announcement!Next
  <2>5. CASE pc'[r] \notin {"publish", "reload", "shown"}
    <3>1. /\ op[r].kind \notin {"permission.create", "permission.update"} /\ pc'[r] = "answer"
          /\ \E e \in events'[r] : e.row = out'[r]
      BY <1>4, <2>5, WritesGo
    <3>2. EventsOf(r)'
      BY <1>1, <2>1, <3>1 DEF EventsOf, ReadSteps, InWritten, InAnnounced
    <3>3. Written' = Written \cup {r} /\ Announced' = Announced \cup {r} /\ Answered' = Answered
      BY <1>2, <2>1, <2>2, <3>1, OneSetMember DEF InWritten, InAnnounced, InAnswered
    <3>4. Announcement!WriteAndAnnounce(r)
      BY <2>1, <2>2, <3>3 DEF Announcement!WriteAndAnnounce, Written, Announced, Answered
    <3>5. QED
      BY <3>2, <3>4, EventsOfOne DEF Announcement!Next
  <2>6. QED
    BY <1>4, <2>3, <2>4, <2>5, WritesGo
<1>5. CASE Ends(r)
  <2>1. op' = op /\ committed' = committed
    BY <1>5, EndsKeep DEF Shape
  <2>2. Written' = Written
    BY <1>2, <2>1, OneSetMember DEF InWritten
  <2>3. CASE Reload(r)
    <3>1. /\ pc[r] = "reload" /\ pc'[r] = "publish" /\ events' = events /\ audits' = audits
      BY <2>3 DEF Reload, Goto, logs, Shape, TypeOK
    <3>2. EventsOf(r)'
      BY <1>1, <2>1, <3>1 DEF EventsOf, ReadSteps, InWritten
    <3>3. Announced' = Announced /\ Answered' = Answered
      BY <1>1, <1>2, <3>1, OneSetMember DEF EventsOf, InAnnounced, InAnswered
    <3>4. QED
      BY <2>2, <3>1, <3>2, <3>3, EventsOfOne DEF Announcement!eventVars, Written, Announced, Answered
  <2>4. CASE Publish(r)
    <3>1. /\ pc[r] = "publish" /\ pc'[r] = "answer" /\ audits' = audits
          /\ \E e \in events'[r] : e.row = out'[r]
      <4>1. [type |-> op[r].kind, row |-> out[r]] \in events'[r] /\ out' = out
        BY <2>4 DEF Publish, locals, Entries, Shape
      <4>2. QED
        BY <2>4, <4>1 DEF Publish, Goto, Shape, TypeOK
    <3>2. InWritten(r) /\ events[r] = {}
      BY <1>1, <3>1 DEF EventsOf
    <3>3. EventsOf(r)'
      BY <1>1, <2>1, <3>1, <3>2 DEF EventsOf, ReadSteps, InWritten, InAnnounced
    <3>4. Announced' = Announced \cup {r} /\ r \notin Announced /\ r \in Written /\ Answered' = Answered
      BY <1>2, <2>1, <3>1, <3>2, OneSetMember DEF InWritten, InAnnounced, InAnswered
    <3>5. Announcement!Announce(r)
      BY <2>2, <3>1, <3>4 DEF Announcement!Announce, Written, Announced, Answered
    <3>6. QED
      BY <3>3, <3>5, EventsOfOne DEF Announcement!Next
  <2>5. CASE Answer(r)
    <3>1. pc[r] = "answer" /\ pc'[r] = "answered" /\ events' = events /\ audits' = audits /\ out' = out
      BY <2>5 DEF Answer, Proceed, Goto, locals, logs, Shape, TypeOK
    <3>2. EventsOf(r)'
      BY <1>1, <2>1, <3>1 DEF EventsOf, ReadSteps, InWritten, InAnnounced
    <3>3. /\ Announced' = Announced /\ r \in Announced
          /\ Answered' = Answered \cup {r} /\ r \notin Answered
      BY <1>1, <1>2, <2>1, <3>1, OneSetMember DEF EventsOf, InWritten, InAnnounced, InAnswered
    <3>4. Announcement!Answer(r)
      BY <2>2, <3>1, <3>3 DEF Announcement!Answer, Written, Announced, Answered
    <3>5. QED
      BY <3>2, <3>4, EventsOfOne DEF Announcement!Next
  <2>6. CASE Audit(r)
    <3>1. /\ pc[r] = "answered" /\ pc'[r] = "audited" /\ events' = events /\ audits' = audits \cup {r}
          /\ out' = out
      BY <2>6 DEF Audit, Goto, locals, Shape, TypeOK
    <3>2. EventsOf(r)'
      BY <1>1, <2>1, <3>1 DEF EventsOf, ReadSteps, InWritten, InAnnounced
    <3>3. Announced' = Announced /\ Answered' = Answered /\ r \in Answered /\ r \notin audits
      BY <1>1, <1>2, <2>1, <3>1, OneSetMember DEF EventsOf, InWritten, InAnnounced, InAnswered
    <3>4. Announcement!Audit(r)
      BY <2>2, <3>1, <3>3 DEF Announcement!Audit, Written, Announced, Answered
    <3>5. QED
      BY <3>2, <3>4, EventsOfOne DEF Announcement!Next
  <2>7. CASE Fail(r)
    <3>1. /\ pc[r] \in {"write", "reload", "publish"} /\ pc'[r] = "failed"
          /\ events' = events /\ audits' = audits /\ out' = out
      BY <2>7 DEF Fail, Proceed, Goto, locals, logs, Shape, TypeOK
    <3>2. EventsOf(r)'
      BY <1>1, <2>1, <3>1 DEF EventsOf, ReadSteps
    <3>3. Announced' = Announced /\ Answered' = Answered
      BY <1>2, <2>1, <3>1, OneSetMember DEF InAnnounced, InAnswered
    <3>4. QED
      BY <2>2, <3>1, <3>2, <3>3, EventsOfOne DEF Announcement!eventVars, Written, Announced, Answered
  <2>8. QED
    BY <1>5, <2>3, <2>4, <2>5, <2>6, <2>7 DEF Ends
<1>6. QED
  BY <1>3, <1>4, <1>5, Sorts

\* Whatever statement fails, an answered change of a user, a membership or a role
\* is in the outbox with the result it returned (UsersService,
\* MembershipsService, RolesService and createInternalUser's transaction).
THEOREM EventsAreKept == Spec => ImplementsDomainEvents
<1>1. Init => EventInv /\ Announcement!Init
  BY DEF Init, EventInv, EventsOf, Announcement!Init
<1>2. Shape /\ Shape' /\ EventInv /\ [Next]_vars => EventInv' /\ [Announcement!Next]_(Announcement!eventVars)
  <2> SUFFICES ASSUME Shape, Shape', EventInv, [Next]_vars
               PROVE  EventInv' /\ [Announcement!Next]_(Announcement!eventVars)
    OBVIOUS
  <2>1. CASE UNCHANGED vars \/ Seeding
    <3>1. UNCHANGED << pc, op, out, committed, events, audits >>
      BY <2>1, SeedTables DEF vars, locals, logs
    <3>2. EventInv'
      BY <3>1 DEF EventInv, EventsOf, InWritten, InAnnounced
    <3>3. UNCHANGED Announcement!eventVars
      BY <3>1 DEF Announcement!eventVars, Announcing
    <3>4. QED
      BY <3>2, <3>3
  <2>2. ASSUME NEW r \in Requests, Request(r)
        PROVE  EventInv' /\ [Announcement!Next]_(Announcement!eventVars)
    BY <2>2, AnnouncementStep
  <2>3. QED
    BY <2>1, <2>2 DEF Next
<1>3. QED
  BY <1>1, <1>2, ShapeHolds, PTL DEF Spec, ImplementsDomainEvents, Announcement!Spec
=============================================================================
