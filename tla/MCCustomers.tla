----------------------------- MODULE MCCustomers -----------------------------
(***************************************************************************)
(* Finite instance of Customers: the tenant t1 with its owner c1 and its   *)
(* contract k1, room for two more of each, a global user glo, the user ten *)
(* of t1, and non, whose membership is inactive.                           *)
(***************************************************************************)
EXTENDS Customers

CONSTANTS r1, r2, t1, t2, t3, c1, c2, c3, k1, k2, k3, glo, ten, non, e1, e2

\* the first and the second have the same slug, the third has none
Plain == << "A", " ", "b" >>
Odd == << "a", "-", " ", "!", "b" >>
Mute == << "!", "!" >>
Joined == << "a", "-", "b" >>
Short == << "b", "b" >>
Taken == << "1", "1" >>

\* and all texts of up to five of the characters that slugify treats apart
MCTexts == {Plain, Odd, Mute, Joined, Short, Taken}
           \cup UNION {[1 .. length -> {"A", "b", " ", "-", "!", Accent}] : length \in 0 .. 5}

\* 2-7 and two spellings of 10-8
MCRutInputs == {<< 2, Dash, 7 >>, << 1, 0, 8 >>, << 0, 1, Dot, 0, Dash, 8 >>}

MCTenants == [x \in TenantIds |-> IF x = t1 THEN [name |-> Taken, slug |-> Taken] ELSE NoRow]
MCCompanies ==
  [c \in CompanyIds |-> IF c = c1 THEN [tenant |-> t1, rut |-> [body |-> << 2 >>, verifier |-> 7]] ELSE NoRow]
MCContracts ==
  [k \in ContractIds |-> IF k = k1 THEN [tenant |-> t1, status |-> "ACTIVE", start |-> 1, end |-> 2] ELSE NoRow]

Member(user, status, scp, tenant) ==
  [user |-> user, status |-> status, scope |-> scp, tenant |-> tenant, company |-> NoCompany]
MCMemberships == {Member(glo, "ACTIVE", "GLOBAL", NoTenant), Member(ten, "ACTIVE", "TENANT", t1),
                  Member(non, "INACTIVE", "TENANT", t1)}

\* what is asked for, cut down to the combinations that meet each other
MCBodies ==
  [kind : {"tenant.list", "contract.list", "context"}, actor : {ten, non}]
  \cup [kind : {"tenant.create"}, actor : {glo, ten}, name : {Plain, Mute}, slug : {NoText, Joined}]
  \cup [kind : {"tenant.update"}, actor : {ten}, target : {t1, t2}, name : {Keep, Odd}, slug : {Keep, Joined}]
  \cup [kind : {"customer.onboard"}, actor : {glo}, name : {Plain, Odd}, slug : {NoText}, rut : MCRutInputs,
        email : {e1}, start : {1}, end : {NoDay}, codes : {{"SCC"}}]
  \cup [kind : {"customer.onboard"}, actor : {glo, non}, name : {Mute}, slug : {Short}, rut : {<< 1, 0, 8 >>},
        email : {e1, e2}, start : {2}, end : {1, 2}, codes : {{}, {"SCC"}}]
  \cup [kind : {"contract.create"}, actor : {glo, ten}, tenant : {t1, t2}, status : {"DRAFT"}, start : {2},
        end : {1, NoDay}, codes : {{"SCA"}}]
  \cup [kind : {"contract.update"}, actor : {glo, ten}, target : {k1, k2}, status : {Keep, "DRAFT"}, start : {Keep, 2},
        end : {Keep, 1, NoDay}, codes : {Keep, {"SCC"}}]
=============================================================================
