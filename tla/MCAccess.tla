------------------------------ MODULE MCAccess ------------------------------
(***************************************************************************)
(* Finite instance of Access: the global user adm, the user ten of tenant  *)
(* t1, who also belongs to its company k1, room for one more user, two     *)
(* memberships and two roles.  Both roles hold every permission, so that   *)
(* only the scopes tell the two users apart.                               *)
(***************************************************************************)
EXTENDS Access

CONSTANTS r1, r2, adm, ten, u1, ma, mt, mk, m1, m2, ra, rt, n1, n2, t1, t2, k1, e1, e2, e3

MCPermissionIds == {e[2] : e \in Endpoints} \cup {"p"}

MCSeededSlugs == MCPermissionIds \ {"p"}

MCSlugs == (MCPermissionIds \ {"p"}) \cup {"q"}

MCUsers ==
  [u \in UserIds |->
     CASE u = adm -> [email |-> [name |-> e1, lower |-> TRUE], status |-> "ACTIVATED"]
       [] u = ten -> [email |-> [name |-> e2, lower |-> TRUE], status |-> "ACTIVATED"]
       [] OTHER -> NoRow]

Member(user, scp, tenant, company, status) ==
  [user |-> user, scope |-> scp, tenant |-> tenant, company |-> company, status |-> status]

MCMemberships ==
  [m \in MembershipIds |->
     CASE m = ma -> Member(adm, "GLOBAL", NoTenant, NoCompany, "ACTIVE")
       [] m = mt -> Member(ten, "TENANT", t1, NoCompany, "ACTIVE")
       [] m = mk -> Member(ten, "COMPANY", t1, k1, "ACTIVE")
       [] OTHER -> NoRow]

MCRoles ==
  [ro \in RoleIds |->
     CASE ro = ra -> [slug |-> "platform_admin", scope |-> "GLOBAL", tenant |-> NoTenant]
       [] ro = rt -> [slug |-> "tenant_admin", scope |-> "TENANT", tenant |-> t1]
       [] OTHER -> NoRow]

MCPermissions == [p \in PermissionIds |-> IF p = "p" THEN NoSlug ELSE p]
MCRoleGrants == {ra, rt} \X (PermissionIds \ {"p"})
MCMemberRoles == {<< ma, ra >>, << mt, rt >>}
MCCompanyPaths == [c \in Companies |-> << c >>]

MCSeededRoles ==
  << [slug |-> "customer_admin", scope |-> "TENANT", anyScope |-> TRUE, slugs |-> {"users.read"}],
     [slug |-> "platform_admin", scope |-> "GLOBAL", anyScope |-> FALSE, slugs |-> {}] >>

\* the combinations that meet each other: r1 asks for anything, r2 for what
\* disturbs it
Everything ==
  [kind : {"membership.list", "role.list", "user.list", "introspect"}, actor : {ten}]
  \cup [kind : {"me.context"}, actor : {adm}]
  \cup [kind : {"membership.create"}, actor : {adm, ten}, user : {u1}, scope : {"GLOBAL"}, tenant : {NoTenant},
        company : {NoCompany, k1}, status : {"ACTIVE"}]
  \cup [kind : {"membership.create"}, actor : {adm}, user : {ten, u1}, scope : {"TENANT"}, tenant : {t2},
        company : {k1}, status : {"INACTIVE"}]
  \cup [kind : {"membership.create"}, actor : {ten}, user : {u1}, scope : {"TENANT"}, tenant : {t1, t2},
        company : {NoCompany}, status : {"ACTIVE"}]
  \cup [kind : {"membership.assign"}, actor : {adm, ten}, membership : {ma, mk, m1}, role : {ra, n1}]
  \cup [kind : {"membership.unassign"}, actor : {ten}, membership : {ma, mt}, role : {rt}]
  \cup [kind : {"membership.roles", "membership.effective"}, actor : {ten}, membership : {mt}]
  \cup [kind : {"role.create"}, actor : {adm, ten}, slug : {"customer_admin"}, scope : {"GLOBAL", "TENANT"},
        tenant : {t1, NoTenant}]
  \cup [kind : {"role.update"}, actor : {adm, ten}, role : {rt, n1}, slug : {Keep},
        scope : {Keep, "GLOBAL", "TENANT"}, tenant : {Keep, NoTenant, t2}]
  \cup [kind : {"role.update"}, actor : {adm}, role : {ra, rt}, slug : {"customer_admin"}, scope : {Keep},
        tenant : {Keep}]
  \cup [kind : {"role.permissions"}, actor : {ten}, role : {rt}]
  \cup [kind : {"role.grant", "role.revoke"}, actor : {ten}, role : {ra, rt}, permission : {"users.create"}]
  \cup [kind : {"permission.create"}, actor : {adm, ten}, slug : {"q"}]
  \cup [kind : {"permission.update"}, actor : {adm}, permission : {"users.read"}, slug : {Keep, "q"}]
  \cup [kind : {"user.create"}, actor : {adm, ten}, email : [name : {e3}, lower : {FALSE}], status : {"ACTIVATED"}]
  \cup [kind : {"user.createInternal"}, actor : {adm}, email : [name : {e3}, lower : {TRUE}],
        status : {"ACTIVATED"}, role : {ra, rt}]
  \cup [kind : {"user.update"}, actor : {adm, ten}, user : {adm, u1}, email : [name : {e2}, lower : {FALSE}] \cup {Keep},
        status : {"SUSPENDED"}]
  \cup [kind : {"user.credentials", "user.context"}, actor : {ten}, user : {ten}]

Disturbing ==
  {o \in Everything :
     \/ o.kind = "role.update" /\ o.role = n1 /\ o.actor = adm /\ o.tenant = Keep /\ o.scope # Keep
     \/ o.kind = "role.update" /\ o.role = rt /\ o.scope = Keep /\ o.tenant = t2
     \/ o.kind \in {"membership.create", "user.update"} /\ o.actor = adm
     \/ o.kind = "membership.assign" /\ o.actor = adm /\ o.membership = m1}

MCBodies == [r \in Requests |-> IF r = r1 THEN Everything ELSE Disturbing]
=============================================================================
