---------------------------- MODULE MCCompanies ----------------------------
(***************************************************************************)
(* Finite instance of Companies: two tenants with their owners o1 and o2,  *)
(* a contractor k1 below o1, room for two more companies, and four users:  *)
(* glo with a global membership, ten with a tenant membership, con, whose  *)
(* only membership is scoped to the company k1, and non, with an inactive  *)
(* one.                                                                    *)
(***************************************************************************)
EXTENDS Companies

CONSTANTS t1, t2, o1, o2, k1, c1, c2, glo, ten, con, non, r1, r2

\* the numbers of the stored companies; 2-7, two spellings of 10-8, and 3-3,
\* which is not valid
StoredRutInputs == {<< 1, Dash, 9 >>, << 4, Dash, 3 >>}
AskedRutInputs == {<< 2, Dash, 7 >>, << 1, 0, 8 >>, << 0, 1, Dot, 0, Dash, 8 >>, << 3, Dash, 3 >>}

\* numbers long enough for the multipliers to start again
LongNumbers == {<< 1, 2, 3, 4, 5, 6, 7, 8 >>, << 9, 0, 9, 0, 0, 9, 9 >>, << 7, 6, 0, 8, 6, 4, 2, 8 >>,
                << 1, 0, 0, 0, 0, 0, 0, 5 >>, << 9, 9, 9, 9, 9, 9, 9 >>}

MCRutInputs ==
  StoredRutInputs \cup AskedRutInputs \cup {Append(body, CalculateVerifier(body)) : body \in LongNumbers}

Company(tenant, body, verifier, type, parentId, path) ==
  [tenant |-> tenant, rut |-> [body |-> body, verifier |-> verifier], type |-> type,
   parent |-> parentId, path |-> path, depth |-> Len(path) - 1]

MCInitialCompanies ==
  [c \in CompanyIds |->
     CASE c = o1 -> Company(t1, << 1 >>, 9, "OWNER", NoCompany, << o1 >>)
       [] c = o2 -> Company(t2, << 1 >>, 9, "OWNER", NoCompany, << o2 >>)
       [] c = k1 -> Company(t1, << 4 >>, 3, "CONTRACTOR", o1, << o1, k1 >>)
       [] OTHER -> NoRow]

Member(user, status, scp, tenant, company) ==
  [user |-> user, status |-> status, scope |-> scp, tenant |-> tenant, company |-> company]

MCMemberships == {Member(glo, "ACTIVE", "GLOBAL", NoTenant, NoCompany),
                  Member(ten, "ACTIVE", "TENANT", t1, NoCompany),
                  Member(con, "ACTIVE", "COMPANY", t1, k1),
                  Member(non, "INACTIVE", "TENANT", t1, NoCompany)}

\* what is asked for, cut down to the combinations that meet each other
MCBodies ==
  {o \in CreateOps :
     /\ o.rut \in AskedRutInputs
     /\ \/ o.tenant = t1 /\ o.user \in {glo, ten} /\ o.type \in {"CONTRACTOR", "SUBCONTRACTOR"}
        \/ o.tenant = t1 /\ o.user = glo /\ o.type = "OWNER" /\ o.parent \in {o1, NoCompany}
        \/ o.tenant = t2 /\ o.user = ten /\ o.type = "CONTRACTOR" /\ o.parent = o2}
  \cup {o \in UpdateOps :
     /\ o.rut \in AskedRutInputs \cup {Keep}
     /\ \/ o.user = glo /\ o.type \in {Keep, "OWNER", "EST"} /\ o.parent \in {Keep, o2}
        \/ o.user = ten /\ o.target = o2 /\ o.rut = Keep /\ o.type = Keep /\ o.parent = NoCompany}
  \cup ListOps

MCListings == ListOps

MCSymmetry == Permutations({c1, c2}) \cup Permutations(Requests)

\* c and the companies that reach it through parent pointers
Below(c) ==
  LET down[i \in 0 .. Cardinality(CompanyIds)] ==
        IF i = 0 THEN {c} \cap Stored
        ELSE down[i - 1] \cup {d \in Stored : companies[d].parent \in down[i - 1]}
  IN down[Cardinality(CompanyIds)]

\* README.md:117: "un scope COMPANY accede a su nodo y a sus descendientes".
\* A user whose only membership is scoped to a company lists that company and
\* the companies below it (GET /companies).
CompanyScopeIsSubtree ==
  [][\A r \in Requests : \A m \in Memberships :
       /\ List(r)
       /\ m.scope = "COMPANY"
       /\ {l \in Memberships : l.user = op[r].user} = {m}
       => result'[r] = Below(m.company)]_vars
=============================================================================
