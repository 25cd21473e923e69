--------------------------- MODULE CustomersProofs ---------------------------
(***************************************************************************)
(* The safety properties of Customers and its refinement of DomainEvents,  *)
(* for every number of requests, tenants, companies and contracts.         *)
(*                                                                         *)
(* What a request decided before its write still holds when it writes,     *)
(* because the rows it looked at keep what it depends on: a stored company *)
(* never changes, a contract never changes its tenant, and a contract that *)
(* changed its dates since it was read is one that the property leaves out.*)
(***************************************************************************)
EXTENDS Customers, TextProofs

\* what a request asks for, by the statement it runs next
OpInv ==
  \A r \in Requests :
    /\ pc[r] = "checkTenant" => op[r] \in TenantCreateOps \cup OnboardOps
    /\ pc[r] = "createTenant" => op[r] \in TenantCreateOps
    /\ pc[r] \in {"checkCompany", "checkEmail", "onboard"} => op[r] \in OnboardOps
    /\ pc[r] \in {"ensureTenant", "createContract"} => op[r] \in ContractCreateOps
    /\ pc[r] = "find" => op[r] \in TenantUpdateOps \cup ContractUpdateOps
    /\ pc[r] = "updateTenant" => op[r] \in TenantUpdateOps /\ op[r].target \in Stored(tenants)
    /\ pc[r] \in {"readContract", "updateContract"} =>
         op[r] \in ContractUpdateOps /\ op[r].target \in Stored(contracts)

\* a tenant is created with a slug
SlugInv ==
  \A r \in Requests :
    op[r].kind \in {"tenant.create", "customer.onboard"} => SlugOf(op[r].name, op[r].slug) # << >>

\* the dates that a contract will have were in order when the request checked
DateInv ==
  \A r \in Requests :
    /\ op[r].kind = "customer.onboard" => DatesOrdered(op[r].start, op[r].end)
    /\ pc[r] = "createContract" => DatesOrdered(op[r].start, op[r].end)
    /\ pc[r] = "updateContract" =>
         /\ current[r] \in ContractRow
         /\ DatesOrdered(Patched(op[r].start, current[r].start),
                         IF op[r].end \in {Keep, NoDay} THEN current[r].end ELSE op[r].end)

\* a tax number that was looked up is none of the numbers that were there
RutInv ==
  \A r \in Requests : pc[r] \in {"checkEmail", "onboard"} =>
    \A c \in looked[r] : c \in Stored(companies) /\ companies[c].rut # Normalize(op[r].rut)

\* only what was written is returned
OutInv ==
  \A r \in Requests :
    /\ out[r] # Nothing => pc[r] \in {"publish", "answer", "answered", "audited", "failed"}
    /\ pc[r] = "publish" => out[r] # Nothing /\ id[r] \in TenantIds \cup ContractIds

Shape == TypeOK /\ OpInv /\ SlugInv /\ DateInv /\ RutInv /\ OutInv
-----------------------------------------------------------------------------
LEMMA Kinds ==
  /\ \A o \in TenantCreateOps : o.kind = "tenant.create"
  /\ \A o \in TenantUpdateOps : o.kind = "tenant.update"
  /\ \A o \in OnboardOps : o.kind = "customer.onboard"
  /\ \A o \in ContractCreateOps : o.kind = "contract.create"
  /\ \A o \in ContractUpdateOps : o.kind = "contract.update"
  /\ \A o \in ReadOps : o.kind \in {"tenant.list", "contract.list", "context"}
BY DEF TenantCreateOps, TenantUpdateOps, OnboardOps, ContractCreateOps, ContractUpdateOps, ReadOps

\* what a request that passes its guards starts with
LEMMA BeginGoes ==
  ASSUME TypeOK, NEW r \in Requests, Begin(r)
  PROVE  \/ Refuse(r)
         \/ /\ UNCHANGED << tables, current, id, out, view, logs >>
            /\ op' = [op EXCEPT ![r] = op'[r]] /\ pc' = [pc EXCEPT ![r] = pc'[r]]
            /\ op'[r] \in Bodies
            /\ op'[r].kind \in {"tenant.create", "customer.onboard"} => SlugOf(op'[r].name, op'[r].slug) # << >>
            /\ \/ op'[r] \in TenantCreateOps /\ pc'[r] = "checkTenant"
               \/ /\ op'[r] \in OnboardOps /\ pc'[r] = "checkTenant"
                  /\ DatesOrdered(op'[r].start, op'[r].end)
               \/ op'[r] \in ContractCreateOps /\ pc'[r] = "ensureTenant"
               \/ op'[r] \in TenantUpdateOps \cup ContractUpdateOps /\ pc'[r] = "find"
               \/ op'[r] \in ReadOps /\ pc'[r] = "read"
<1>1. PICK o \in Bodies :
        \/ Refuse(r)
        \/ /\ ScopeAllows(o, Resolve({m \in Memberships : m.user = o.actor}, [c \in CompanyIds |-> << c >>]))
           /\ op' = [op EXCEPT ![r] = o]
           /\ Goto(r, First(o.kind))
           /\ UNCHANGED << tables, current, id, out, view, logs >>
  BY DEF Begin
<1>2. CASE Refuse(r)
  BY <1>2
<1>3. CASE ~Refuse(r)
  <2>1. /\ op' = [op EXCEPT ![r] = o] /\ op'[r] = o
        /\ pc' = [pc EXCEPT ![r] = First(o.kind)] /\ pc'[r] = First(o.kind)
    BY <1>1, <1>3 DEF Goto, TypeOK
  <2>2. /\ o.kind = "customer.onboard" => DatesOrdered(o.start, o.end)
        /\ o.kind \in {"tenant.create", "customer.onboard"} => SlugOf(o.name, o.slug) # << >>
    BY <1>1, <1>3 DEF ScopeAllows
  <2>3. \/ o \in TenantCreateOps \/ o \in TenantUpdateOps \/ o \in OnboardOps
        \/ o \in ContractCreateOps \/ o \in ContractUpdateOps \/ o \in ReadOps
    BY BodiesAssumption
  <2>4. QED
    BY <1>1, <1>3, <2>1, <2>2, <2>3, Kinds DEF First
<1>4. QED
  BY <1>2, <1>3

LEMMA FindGoes ==
  ASSUME Shape, NEW r \in Requests, Find(r)
  PROVE  \/ Refuse(r)
         \/ Proceed(r, "updateTenant") /\ op[r] \in TenantUpdateOps /\ op[r].target \in Stored(tenants)
         \/ Proceed(r, "readContract") /\ op[r] \in ContractUpdateOps /\ op[r].target \in Stored(contracts)
<1>1. op[r] \in TenantUpdateOps \cup ContractUpdateOps
  BY DEF Find, Shape, OpInv
<1>2. CASE op[r] \in TenantUpdateOps
  BY <1>2, Kinds DEF Find, FindTenants
<1>3. CASE op[r] \in ContractUpdateOps
  BY <1>3, Kinds DEF Find, FindContracts
<1>4. QED
  BY <1>1, <1>2, <1>3

LEMMA OthersKept ==
  ASSUME Shape, NEW r \in Requests, Request(r), NEW q \in Requests, q # r
  PROVE  pc'[q] = pc[q] /\ op'[q] = op[q] /\ current'[q] = current[q] /\ id'[q] = id[q]
         /\ out'[q] = out[q] /\ looked'[q] = looked[q]
<1> USE DEF Goto, tables, locals, logs, Proceed, Refuse, Returns, Shape, TypeOK
<1>1. CASE Begin(r)
  BY <1>1, BeginGoes
<1>2. CASE Find(r) \/ CheckTenant(r) \/ CheckCompany(r) \/ CheckEmail(r) \/ EnsureTenant(r) \/ ReadContract(r)
  <2>1. CASE Refuse(r)
    BY <2>1
  <2>2. CASE ~Refuse(r)
    <3>1. CASE Find(r)
      BY <2>2, <3>1, FindGoes
    <3>2. CASE CheckTenant(r) \/ CheckEmail(r) \/ EnsureTenant(r)
      BY <2>2, <3>2 DEF CheckTenant, CheckEmail, EnsureTenant
    <3>3. CASE CheckCompany(r)
      BY <2>2, <3>3 DEF CheckCompany
    <3>4. CASE ReadContract(r)
      BY <2>2, <3>4 DEF ReadContract
    <3>5. QED
      BY <1>2, <3>1, <3>2, <3>3, <3>4
  <2>3. QED
    BY <2>1, <2>2
<1>3. CASE CreateTenant(r) \/ UpdateTenant(r) \/ Onboard(r) \/ CreateContract(r) \/ UpdateContract(r)
  BY <1>3 DEF CreateTenant, UpdateTenant, Onboard, CreateContract, UpdateContract
<1>4. CASE Publish(r) \/ Answer(r) \/ Audit(r) \/ Fail(r) \/ Read(r) \/ AttachProducts(r)
  BY <1>4 DEF Publish, Answer, Audit, Fail, Read, AttachProducts
<1>5. QED
  BY <1>1, <1>2, <1>3, <1>4 DEF Request
-----------------------------------------------------------------------------
\* The slug that a tenant is created with is made from a name or a slug.
LEMMA CreatedSlug ==
  ASSUME Shape, NEW r \in Requests, op[r] \in TenantCreateOps \cup OnboardOps
  PROVE  SlugOf(op[r].name, op[r].slug) \in {Slugify(text) : text \in Names} \ {<< >>}
<1>1. op[r].kind \in {"tenant.create", "customer.onboard"}
  BY Kinds
<1>2. SlugOf(op[r].name, op[r].slug) # << >>
  BY <1>1 DEF Shape, SlugInv
<1>3. op[r].name \in Names /\ op[r].slug \in Names \cup {NoText}
  BY DEF TenantCreateOps, OnboardOps, SlugTexts
<1>4. QED
  BY <1>2, <1>3 DEF SlugOf

\* A slug that its validator let through is stored as it was sent.
LEMMA SentSlug ==
  ASSUME NEW slug \in SlugTexts
  PROVE  Slugify(slug) = slug /\ slug \in {Slugify(text) : text \in Names} \ {<< >>}
<1>1. slug \in Names /\ slug \in Texts /\ IsSlug(slug)
  BY DEF SlugTexts, Names
<1>2. Slugify(slug) = slug
  BY <1>1, TextsAssumption, SlugOfSlug
<1>3. QED
  BY <1>1, <1>2 DEF IsSlug

\* The rows that each write leaves.
LEMMA CreateTenantWrites ==
  ASSUME Shape, NEW r \in Requests, CreateTenant(r)
  PROVE  \E t \in TenantIds, row \in TenantRow :
           /\ t \in Fresh(tenants)
           /\ tenants' = [tenants EXCEPT ![t] = row]
           /\ id' = [id EXCEPT ![r] = t] /\ out' = [out EXCEPT ![r] = row]
<1> DEFINE row == [name |-> op[r].name, slug |-> SlugOf(op[r].name, op[r].slug)]
<1>1. op[r] \in TenantCreateOps /\ op[r].name \in Names
  BY DEF CreateTenant, Shape, OpInv, TenantCreateOps
<1>2. row \in TenantRow
  BY <1>1, CreatedSlug DEF TenantRow
<1>3. \E t \in Fresh(tenants) :
        /\ tenants' = [tenants EXCEPT ![t] = row]
        /\ id' = [id EXCEPT ![r] = t] /\ out' = [out EXCEPT ![r] = row]
  BY DEF CreateTenant, Returns
<1> HIDE DEF row
<1>4. \A t \in Fresh(tenants) : t \in TenantIds
  BY DEF Shape, TypeOK, Fresh
<1>5. QED
  BY <1>2, <1>3, <1>4

LEMMA UpdateTenantWrites ==
  ASSUME Shape, NEW r \in Requests, UpdateTenant(r)
  PROVE  \E t \in TenantIds, row \in TenantRow :
           /\ t \in Stored(tenants)
           /\ tenants' = [tenants EXCEPT ![t] = row]
           /\ id' = [id EXCEPT ![r] = t] /\ out' = [out EXCEPT ![r] = row]
<1> DEFINE t == op[r].target
           row == [name |-> IF op[r].name = Keep THEN tenants[t].name ELSE op[r].name,
                   slug |-> IF op[r].slug = Keep THEN tenants[t].slug ELSE Slugify(op[r].slug)]
<1>1. /\ op[r].name \in Names \cup {Keep} /\ op[r].slug \in SlugTexts \cup {Keep}
      /\ t \in TenantIds /\ t \in Stored(tenants)
  BY DEF UpdateTenant, Shape, OpInv, TenantUpdateOps
<1>2. tenants[t] \in TenantRow
  BY <1>1 DEF Shape, TypeOK, Stored
<1>3. row \in TenantRow
  BY <1>1, <1>2, SentSlug DEF TenantRow
<1>4. /\ tenants' = [tenants EXCEPT ![t] = row]
      /\ id' = [id EXCEPT ![r] = t] /\ out' = [out EXCEPT ![r] = row]
  BY DEF UpdateTenant, Returns
<1> HIDE DEF row, t
<1>5. QED
  BY <1>1, <1>3, <1>4

\* a row of a contract, and what is returned with it
Contracts(r, k, row, codes) ==
  /\ contracts' = [contracts EXCEPT ![k] = row]
  /\ contractProducts' = [contractProducts EXCEPT ![k] = codes]
  /\ out' = [out EXCEPT ![r] = [contract |-> row, codes |-> codes]]

LEMMA CreateContractWrites ==
  ASSUME Shape, NEW r \in Requests, CreateContract(r)
  PROVE  \E k \in ContractIds, row \in ContractRow, codes \in SUBSET products :
           /\ k \in Fresh(contracts) /\ Contracts(r, k, row, codes)
           /\ id' = [id EXCEPT ![r] = k]
           /\ DatesOrdered(row.start, row.end)
<1> DEFINE o == op[r]
           row == [tenant |-> o.tenant, status |-> o.status, start |-> o.start, end |-> o.end]
<1>1. /\ o.tenant \in TenantIds /\ o.status \in {"DRAFT", "ACTIVE"} /\ o.start \in Days /\ o.end \in Days \cup {NoDay}
      /\ o.codes \subseteq products
      /\ DatesOrdered(o.start, o.end)
  BY DEF CreateContract, InCatalog, Shape, OpInv, DateInv, ContractCreateOps
<1>2. row \in ContractRow /\ DatesOrdered(row.start, row.end)
  BY <1>1 DEF ContractRow
<1>3. \E k \in Fresh(contracts) : Contracts(r, k, row, o.codes) /\ id' = [id EXCEPT ![r] = k]
  BY DEF CreateContract, Returns, Contracts
<1> HIDE DEF row, o
<1>4. \A k \in Fresh(contracts) : k \in ContractIds
  BY DEF Shape, TypeOK, Fresh
<1>5. QED
  BY <1>1, <1>2, <1>3, <1>4

LEMMA UpdateContractWrites ==
  ASSUME Shape, NEW r \in Requests, UpdateContract(r)
  PROVE  \E k \in ContractIds, row \in ContractRow, codes \in SUBSET products :
           /\ k \in Stored(contracts) /\ Contracts(r, k, row, codes)
           /\ id' = [id EXCEPT ![r] = k]
           /\ row.tenant = contracts[k].tenant
           /\ stale \subseteq stale' /\ stale' \subseteq stale \cup {k}
           /\ k \notin stale' => DatesOrdered(row.start, row.end)
<1> DEFINE o == op[r]
           k == o.target
           row == [contracts[k] EXCEPT !.status = Patched(o.status, @), !.start = Patched(o.start, @),
                                       !.end = Patched(o.end, @)]
           codes == Patched(o.codes, contractProducts[k])
<1>1. /\ k \in ContractIds /\ k \in Stored(contracts)
      /\ o.status \in {"DRAFT", "ACTIVE", Keep} /\ o.start \in Days \cup {Keep} /\ o.end \in Days \cup {NoDay, Keep}
  BY DEF UpdateContract, Shape, OpInv, ContractUpdateOps
<1>2. contracts[k] \in ContractRow
  BY <1>1 DEF Shape, TypeOK, Stored
<1>3. codes \in SUBSET products
  BY <1>1 DEF UpdateContract, InCatalog, Patched, Shape, TypeOK
<1>4. /\ row \in ContractRow
      /\ row.tenant = contracts[k].tenant
      /\ row.start = Patched(o.start, contracts[k].start) /\ row.end = Patched(o.end, contracts[k].end)
  BY <1>1, <1>2 DEF ContractRow, Patched
<1>5. contracts[k] = current[r] => DatesOrdered(row.start, row.end)
  <2>1. DatesOrdered(Patched(o.start, current[r].start),
                     IF o.end \in {Keep, NoDay} THEN current[r].end ELSE o.end)
    BY DEF UpdateContract, Shape, DateInv
  <2>2. QED
    BY <1>4, <2>1 DEF DatesOrdered, Patched
<1>6. /\ Contracts(r, k, row, codes)
      /\ id' = [id EXCEPT ![r] = k]
      /\ stale' = IF contracts[k] # current[r] THEN stale \cup {k} ELSE stale
  BY DEF UpdateContract, Returns, Contracts
<1> HIDE DEF row, codes, k, o
<1>7. /\ stale \subseteq stale' /\ stale' \subseteq stale \cup {k}
      /\ k \notin stale' => DatesOrdered(row.start, row.end)
  BY <1>5, <1>6
<1>8. QED
  BY <1>1, <1>3, <1>4, <1>6, <1>7

\* the rows of an onboarding, and its two events
Onboarded(r, t, c, k, tenant, company, row, codes) ==
  /\ t \in Fresh(tenants) /\ c \in Fresh(companies) /\ k \in Fresh(contracts)
  /\ tenants' = [tenants EXCEPT ![t] = tenant]
  /\ companies' = [companies EXCEPT ![c] = company] /\ company.rut = Normalize(op[r].rut)
  /\ Contracts(r, k, row, codes) /\ DatesOrdered(row.start, row.end)
  /\ id' = [id EXCEPT ![r] = c]
  /\ events' = events \o << [request |-> r, about |-> t, row |-> tenant],
                            [request |-> r, about |-> k, row |-> [contract |-> row, codes |-> codes]] >>
  /\ emails' = emails \cup {op[r].email} /\ op[r].email \in Emails

LEMMA OnboardWrites ==
  ASSUME Shape, NEW r \in Requests, Onboard(r)
  PROVE  \E t \in TenantIds, c \in CompanyIds, k \in ContractIds,
            tenant \in TenantRow, company \in CompanyRow, row \in ContractRow, codes \in SUBSET products :
           Onboarded(r, t, c, k, tenant, company, row, codes)
<1> DEFINE o == op[r]
           tenant == [name |-> o.name, slug |-> SlugOf(o.name, o.slug)]
           company(t) == [tenant |-> t, rut |-> Normalize(o.rut)]
           row(t) == [tenant |-> t, status |-> "ACTIVE", start |-> o.start, end |-> o.end]
<1>1. /\ o \in OnboardOps /\ o.name \in Names /\ o.rut \in ValidInputs /\ o.email \in Emails
      /\ o.start \in Days /\ o.end \in Days \cup {NoDay} /\ o.kind = "customer.onboard"
  BY DEF Onboard, Shape, OpInv, OnboardOps
<1>2. DatesOrdered(o.start, o.end) /\ o.codes \subseteq products
  BY <1>1 DEF Onboard, InCatalog, Shape, DateInv
<1>3. tenant \in TenantRow
  BY <1>1, CreatedSlug DEF TenantRow
<1>4. \A t \in TenantIds :
        /\ company(t) \in CompanyRow /\ company(t).rut = Normalize(o.rut)
        /\ row(t) \in ContractRow /\ DatesOrdered(row(t).start, row(t).end)
  BY <1>1, <1>2 DEF CompanyRow, ContractRow
<1>5. PICK t \in Fresh(tenants), c \in Fresh(companies), k \in Fresh(contracts) :
        /\ tenants' = [tenants EXCEPT ![t] = tenant]
        /\ companies' = [companies EXCEPT ![c] = company(t)]
        /\ Contracts(r, k, row(t), o.codes)
        /\ events' = events \o << [request |-> r, about |-> t, row |-> tenant],
                                  [request |-> r, about |-> k, row |-> [contract |-> row(t), codes |-> o.codes]] >>
        /\ id' = [id EXCEPT ![r] = c]
        /\ emails' = emails \cup {o.email}
  BY DEF Onboard, Returns, Contracts
<1> HIDE DEF tenant, company, row
<1>6. t \in TenantIds /\ c \in CompanyIds /\ k \in ContractIds
  BY DEF Shape, TypeOK, Fresh
<1>7. Onboarded(r, t, c, k, tenant, company(t), row(t), o.codes)
  BY <1>1, <1>4, <1>5, <1>6 DEF Onboarded
<1>8. QED
  BY <1>2, <1>3, <1>4, <1>6, <1>7
-----------------------------------------------------------------------------
\* What every step keeps of the rows that are there.
Kept ==
  /\ \A t \in Stored(tenants) : t \in Stored(tenants)'
  /\ \A c \in Stored(companies) : c \in Stored(companies)' /\ companies'[c] = companies[c]
  /\ \A k \in Stored(contracts) : k \in Stored(contracts)' /\ contracts'[k].tenant = contracts[k].tenant

LEMMA OnlyWritesChange ==
  ASSUME Shape, NEW r \in Requests, Request(r),
         ~CreateTenant(r), ~UpdateTenant(r), ~Onboard(r), ~CreateContract(r), ~UpdateContract(r)
  PROVE  UNCHANGED << tables, id, out, stale >>
<1> USE DEF tables, locals, logs, Proceed, Refuse
<1>1. CASE Begin(r)
  BY <1>1, BeginGoes DEF Shape
<1>2. CASE Find(r)
  BY <1>2, FindGoes
<1>3. CASE CheckTenant(r) \/ CheckCompany(r) \/ CheckEmail(r) \/ EnsureTenant(r) \/ ReadContract(r)
  BY <1>3 DEF CheckTenant, CheckCompany, CheckEmail, EnsureTenant, ReadContract
<1>4. CASE Publish(r) \/ Answer(r) \/ Audit(r) \/ Fail(r) \/ Read(r) \/ AttachProducts(r)
  BY <1>4 DEF Publish, Answer, Audit, Fail, Read, AttachProducts
<1>5. QED
  BY <1>1, <1>2, <1>3, <1>4 DEF Request

LEMMA RowsAreKept ==
  ASSUME Shape, NEW r \in Requests, Request(r)
  PROVE  Kept
<1> USE DEF Kept, Stored, Fresh, Shape, TypeOK
<1>1. CASE CreateTenant(r)
  <2>1. UNCHANGED << companies, contracts >>
    BY <1>1 DEF CreateTenant
  <2>2. PICK t \in TenantIds, row \in TenantRow : tenants' = [tenants EXCEPT ![t] = row]
    BY <1>1, CreateTenantWrites
  <2>3. QED
    BY <2>1, <2>2, NullAssumption
<1>2. CASE UpdateTenant(r)
  <2>1. UNCHANGED << companies, contracts >>
    BY <1>2 DEF UpdateTenant
  <2>2. PICK t \in TenantIds, row \in TenantRow : tenants' = [tenants EXCEPT ![t] = row]
    BY <1>2, UpdateTenantWrites
  <2>3. QED
    BY <2>1, <2>2, NullAssumption
<1>3. CASE Onboard(r)
  <2>1. PICK t \in TenantIds, c \in CompanyIds, k \in ContractIds,
             tenant \in TenantRow, company \in CompanyRow, row \in ContractRow, codes \in SUBSET products :
          Onboarded(r, t, c, k, tenant, company, row, codes)
    BY <1>3, OnboardWrites
  <2>2. QED
    BY <2>1, NullAssumption DEF Onboarded, Contracts
<1>4. CASE CreateContract(r)
  <2>1. UNCHANGED << tenants, companies >>
    BY <1>4 DEF CreateContract
  <2>2. PICK k \in ContractIds, row \in ContractRow :
          k \in Fresh(contracts) /\ contracts' = [contracts EXCEPT ![k] = row]
    BY <1>4, CreateContractWrites DEF Contracts
  <2>3. QED
    BY <2>1, <2>2, NullAssumption
<1>5. CASE UpdateContract(r)
  <2>1. UNCHANGED << tenants, companies >>
    BY <1>5 DEF UpdateContract
  <2>2. PICK k \in ContractIds, row \in ContractRow :
          contracts' = [contracts EXCEPT ![k] = row] /\ row.tenant = contracts[k].tenant
    BY <1>5, UpdateContractWrites DEF Contracts
  <2>3. QED
    BY <2>1, <2>2, NullAssumption
<1>6. CASE ~(CreateTenant(r) \/ UpdateTenant(r) \/ Onboard(r) \/ CreateContract(r) \/ UpdateContract(r))
  BY <1>6, OnlyWritesChange DEF tables
<1>7. QED
  BY <1>1, <1>2, <1>3, <1>4, <1>5, <1>6

LEMMA OpStep ==
  ASSUME Shape, NEW r \in Requests, Request(r)
  PROVE  OpInv'
<1>1. Kept
  BY RowsAreKept
<1>2. SUFFICES ASSUME NEW q \in Requests
      PROVE  /\ pc'[q] = "checkTenant" => op'[q] \in TenantCreateOps \cup OnboardOps
             /\ pc'[q] = "createTenant" => op'[q] \in TenantCreateOps
             /\ pc'[q] \in {"checkCompany", "checkEmail", "onboard"} => op'[q] \in OnboardOps
             /\ pc'[q] \in {"ensureTenant", "createContract"} => op'[q] \in ContractCreateOps
             /\ pc'[q] = "find" => op'[q] \in TenantUpdateOps \cup ContractUpdateOps
             /\ pc'[q] = "updateTenant" => op'[q] \in TenantUpdateOps /\ op'[q].target \in Stored(tenants)'
             /\ pc'[q] \in {"readContract", "updateContract"} =>
                  op'[q] \in ContractUpdateOps /\ op'[q].target \in Stored(contracts)'
  BY DEF OpInv
<1>3. CASE q # r
  <2>1. pc'[q] = pc[q] /\ op'[q] = op[q]
    BY <1>3, OthersKept
  <2>2. QED
    BY <1>1, <2>1 DEF Shape, OpInv, Kept
<1>4. CASE q = r
  <2> USE <1>4 DEF Goto, locals, Proceed, Shape, TypeOK
  <2>1. CASE Refuse(r)
    BY <2>1 DEF Refuse
  <2>2. CASE Begin(r) /\ ~Refuse(r)
    BY <2>2, BeginGoes
  <2>3. CASE Find(r) /\ ~Refuse(r)
    BY <1>1, <2>3, FindGoes DEF Kept
  <2>4. CASE CheckTenant(r) /\ ~Refuse(r)
    BY <2>4, Kinds DEF CheckTenant, OpInv
  <2>5. CASE CheckCompany(r) /\ ~Refuse(r)
    BY <2>5 DEF CheckCompany, OpInv
  <2>6. CASE CheckEmail(r) /\ ~Refuse(r)
    BY <2>6 DEF CheckEmail, OpInv
  <2>7. CASE EnsureTenant(r) /\ ~Refuse(r)
    BY <2>7 DEF EnsureTenant, OpInv
  <2>8. CASE ReadContract(r) /\ ~Refuse(r)
    BY <1>1, <2>8 DEF ReadContract, OpInv, Kept
  <2>9. CASE CreateTenant(r) \/ UpdateTenant(r) \/ Onboard(r) \/ CreateContract(r) \/ UpdateContract(r)
    BY <2>9 DEF CreateTenant, UpdateTenant, Onboard, CreateContract, UpdateContract, Returns
  <2>10. CASE Publish(r) \/ Answer(r) \/ Audit(r) \/ Fail(r) \/ Read(r) \/ AttachProducts(r)
    BY <2>10 DEF Publish, Answer, Audit, Fail, Read, AttachProducts
  <2>11. QED
    BY <2>1, <2>2, <2>3, <2>4, <2>5, <2>6, <2>7, <2>8, <2>9, <2>10 DEF Request
<1>5. QED
  BY <1>3, <1>4

LEMMA SlugStep ==
  ASSUME Shape, NEW r \in Requests, Request(r)
  PROVE  SlugInv'
<1>1. SUFFICES ASSUME NEW q \in Requests, op'[q].kind \in {"tenant.create", "customer.onboard"}
      PROVE  SlugOf(op'[q].name, op'[q].slug) # << >>
  BY DEF SlugInv
<1>2. ASSUME op'[q] = op[q]
      PROVE  SlugOf(op'[q].name, op'[q].slug) # << >>
  BY <1>1, <1>2 DEF Shape, SlugInv
<1>3. CASE q # r
  BY <1>2, <1>3, OthersKept
<1>4. CASE q = r
  <2> USE <1>4 DEF Goto, locals, Proceed, Shape, TypeOK
  <2>1. CASE Refuse(r)
    BY <1>1, <2>1 DEF Refuse, NoOp
  <2>2. CASE Begin(r) /\ ~Refuse(r)
    BY <1>1, <2>2, BeginGoes
  <2>3. CASE Find(r) /\ ~Refuse(r)
    BY <1>2, <2>3, FindGoes
  <2>4. CASE (CheckTenant(r) \/ CheckCompany(r) \/ CheckEmail(r) \/ EnsureTenant(r) \/ ReadContract(r)) /\ ~Refuse(r)
    BY <1>2, <2>4 DEF CheckTenant, CheckCompany, CheckEmail, EnsureTenant, ReadContract
  <2>5. CASE CreateTenant(r) \/ UpdateTenant(r) \/ Onboard(r) \/ CreateContract(r) \/ UpdateContract(r)
    BY <1>2, <2>5 DEF CreateTenant, UpdateTenant, Onboard, CreateContract, UpdateContract, Returns
  <2>6. CASE Publish(r) \/ Answer(r) \/ Audit(r) \/ Fail(r) \/ Read(r) \/ AttachProducts(r)
    BY <1>2, <2>6 DEF Publish, Answer, Audit, Fail, Read, AttachProducts
  <2>7. QED
    BY <2>1, <2>2, <2>3, <2>4, <2>5, <2>6 DEF Request
<1>5. QED
  BY <1>3, <1>4

LEMMA DateStep ==
  ASSUME Shape, NEW r \in Requests, Request(r)
  PROVE  DateInv'
<1>1. SUFFICES ASSUME NEW q \in Requests
      PROVE  /\ op'[q].kind = "customer.onboard" => DatesOrdered(op'[q].start, op'[q].end)
             /\ pc'[q] = "createContract" => DatesOrdered(op'[q].start, op'[q].end)
             /\ pc'[q] = "updateContract" =>
                  /\ current'[q] \in ContractRow
                  /\ DatesOrdered(Patched(op'[q].start, current'[q].start),
                                  IF op'[q].end \in {Keep, NoDay} THEN current'[q].end ELSE op'[q].end)
  BY DEF DateInv
<1>2. ASSUME op'[q] = op[q], current'[q] = current[q],
             pc'[q] \in {"createContract", "updateContract"} => pc'[q] = pc[q]
      PROVE  /\ op'[q].kind = "customer.onboard" => DatesOrdered(op'[q].start, op'[q].end)
             /\ pc'[q] = "createContract" => DatesOrdered(op'[q].start, op'[q].end)
             /\ pc'[q] = "updateContract" =>
                  /\ current'[q] \in ContractRow
                  /\ DatesOrdered(Patched(op'[q].start, current'[q].start),
                                  IF op'[q].end \in {Keep, NoDay} THEN current'[q].end ELSE op'[q].end)
  BY <1>2 DEF Shape, DateInv
<1>3. CASE q # r
  BY <1>2, <1>3, OthersKept
<1>4. CASE q = r
  <2> USE <1>4 DEF Goto, locals, Proceed, Shape, TypeOK
  <2>1. CASE Refuse(r)
    BY <2>1 DEF Refuse, NoOp
  <2>2. CASE Begin(r) /\ ~Refuse(r)
    <3>1. pc'[r] \notin {"createContract", "updateContract"}
      BY <2>2, BeginGoes
    <3>2. op'[r].kind = "customer.onboard" => DatesOrdered(op'[r].start, op'[r].end)
      BY <2>2, BeginGoes, Kinds
    <3>3. QED
      BY <3>1, <3>2
  <2>3. CASE Find(r) /\ ~Refuse(r)
    BY <1>2, <2>3, FindGoes
  <2>4. CASE (CheckTenant(r) \/ CheckCompany(r) \/ CheckEmail(r)) /\ ~Refuse(r)
    BY <1>2, <2>4 DEF CheckTenant, CheckCompany, CheckEmail
  <2>5. CASE EnsureTenant(r) /\ ~Refuse(r)
    BY <2>5 DEF EnsureTenant, DateInv
  <2>6. CASE ReadContract(r) /\ ~Refuse(r)
    <3>1. contracts[op[r].target] \in ContractRow
      BY <2>6 DEF ReadContract, OpInv, Stored
    <3>2. /\ op' = op /\ pc'[r] = "updateContract" /\ current'[r] = contracts[op[r].target]
          /\ DatesOrdered(Patched(op[r].start, current'[r].start),
                          IF op[r].end \in {Keep, NoDay} THEN current'[r].end ELSE op[r].end)
      BY <2>6 DEF ReadContract
    <3>3. op[r].kind # "customer.onboard"
      BY <2>6, Kinds DEF ReadContract, OpInv
    <3>4. QED
      BY <3>1, <3>2, <3>3
  <2>7. CASE CreateTenant(r) \/ UpdateTenant(r) \/ Onboard(r) \/ CreateContract(r) \/ UpdateContract(r)
    BY <1>2, <2>7 DEF CreateTenant, UpdateTenant, Onboard, CreateContract, UpdateContract, Returns
  <2>8. CASE Publish(r) \/ Answer(r) \/ Audit(r) \/ Fail(r) \/ Read(r) \/ AttachProducts(r)
    BY <1>2, <2>8 DEF Publish, Answer, Audit, Fail, Read, AttachProducts
  <2>9. QED
    BY <2>1, <2>2, <2>3, <2>4, <2>5, <2>6, <2>7, <2>8 DEF Request
<1>5. QED
  BY <1>3, <1>4

LEMMA RutStep ==
  ASSUME Shape, NEW r \in Requests, Request(r)
  PROVE  RutInv'
<1>1. Kept
  BY RowsAreKept
<1>2. SUFFICES ASSUME NEW q \in Requests, pc'[q] \in {"checkEmail", "onboard"}, NEW c \in looked'[q]
      PROVE  c \in Stored(companies)' /\ companies'[c].rut # Normalize(op'[q].rut)
  BY DEF RutInv
<1>3. ASSUME pc[q] \in {"checkEmail", "onboard"}, op'[q] = op[q], looked'[q] = looked[q]
      PROVE  c \in Stored(companies)' /\ companies'[c].rut # Normalize(op'[q].rut)
  BY <1>1, <1>3 DEF Shape, RutInv, Kept
<1>4. CASE q # r
  BY <1>2, <1>3, <1>4, OthersKept
<1>5. CASE q = r
  <2> USE <1>5 DEF Goto, locals, logs, Proceed, Shape, TypeOK
  <2>1. CASE Refuse(r)
    BY <1>2, <2>1 DEF Refuse
  <2>2. CASE Begin(r) /\ ~Refuse(r)
    BY <1>2, <2>2, BeginGoes
  <2>3. CASE Find(r) /\ ~Refuse(r)
    BY <1>2, <2>3, FindGoes
  <2>4. CASE CheckCompany(r) /\ ~Refuse(r)
    <3>1. looked'[r] = Stored(companies) /\ op'[r] = op[r]
      BY <2>4 DEF CheckCompany
    <3>2. c \in Stored(companies) /\ companies[c].rut # Normalize(op[r].rut)
      BY <2>4, <3>1 DEF CheckCompany
    <3>3. QED
      BY <1>1, <3>1, <3>2 DEF Kept
  <2>5. CASE CheckEmail(r) /\ ~Refuse(r)
    BY <1>3, <2>5 DEF CheckEmail
  <2>6. CASE (CheckTenant(r) \/ EnsureTenant(r) \/ ReadContract(r)) /\ ~Refuse(r)
    BY <1>2, <2>6 DEF CheckTenant, EnsureTenant, ReadContract
  <2>7. CASE CreateTenant(r) \/ UpdateTenant(r) \/ Onboard(r) \/ CreateContract(r) \/ UpdateContract(r)
    BY <1>2, <2>7 DEF CreateTenant, UpdateTenant, Onboard, CreateContract, UpdateContract, Returns
  <2>8. CASE Publish(r) \/ Answer(r) \/ Audit(r) \/ Fail(r) \/ Read(r) \/ AttachProducts(r)
    BY <1>2, <2>8 DEF Publish, Answer, Audit, Fail, Read, AttachProducts
  <2>9. QED
    BY <2>1, <2>2, <2>3, <2>4, <2>5, <2>6, <2>7, <2>8 DEF Request
<1>6. QED
  BY <1>4, <1>5

LEMMA Returnable ==
  /\ \A row \in TenantRow : row \in Returned /\ row # Nothing
  /\ \A row \in ContractRow, codes \in SUBSET Codes :
       [contract |-> row, codes |-> codes] \in Returned /\ [contract |-> row, codes |-> codes] # Nothing
BY DEF TenantRow, Returned, Nothing

\* A write returns what it wrote, and goes on to announce it.
LEMMA WritesReturn ==
  ASSUME Shape, NEW r \in Requests,
         CreateTenant(r) \/ UpdateTenant(r) \/ Onboard(r) \/ CreateContract(r) \/ UpdateContract(r)
  PROVE  /\ pc[r] \in {"createTenant", "updateTenant", "onboard", "createContract", "updateContract"}
         /\ out'[r] \in Returned /\ out'[r] # Nothing
         /\ out' = [out EXCEPT ![r] = out'[r]] /\ id' = [id EXCEPT ![r] = id'[r]]
         /\ pc' = [pc EXCEPT ![r] = pc'[r]]
         /\ Onboard(r) => pc'[r] = "answer" /\ id'[r] \in CompanyIds
         /\ ~Onboard(r) => pc'[r] = "publish" /\ id'[r] \in TenantIds \cup ContractIds /\ events' = events
         /\ UNCHANGED << op, scope, current, view, audits, products, looked >>
<1> USE DEF Shape, TypeOK, Returns, Goto
<1>1. CASE CreateTenant(r)
  <2>1. \E t \in TenantIds, row \in TenantRow : id' = [id EXCEPT ![r] = t] /\ out' = [out EXCEPT ![r] = row]
    BY <1>1, CreateTenantWrites
  <2>2. QED
    BY <1>1, <2>1, Returnable DEF CreateTenant, Onboard
<1>2. CASE UpdateTenant(r)
  <2>1. \E t \in TenantIds, row \in TenantRow : id' = [id EXCEPT ![r] = t] /\ out' = [out EXCEPT ![r] = row]
    BY <1>2, UpdateTenantWrites
  <2>2. QED
    BY <1>2, <2>1, Returnable DEF UpdateTenant, Onboard
<1>3. CASE CreateContract(r)
  <2>1. \E k \in ContractIds, row \in ContractRow, codes \in SUBSET products :
          id' = [id EXCEPT ![r] = k] /\ out' = [out EXCEPT ![r] = [contract |-> row, codes |-> codes]]
    BY <1>3, CreateContractWrites DEF Contracts
  <2>2. QED
    BY <1>3, <2>1, Returnable DEF CreateContract, Onboard
<1>4. CASE UpdateContract(r)
  <2>1. \E k \in ContractIds, row \in ContractRow, codes \in SUBSET products :
          id' = [id EXCEPT ![r] = k] /\ out' = [out EXCEPT ![r] = [contract |-> row, codes |-> codes]]
    BY <1>4, UpdateContractWrites DEF Contracts
  <2>2. QED
    BY <1>4, <2>1, Returnable DEF UpdateContract, Onboard
<1>5. CASE Onboard(r)
  <2>1. PICK t \in TenantIds, c \in CompanyIds, k \in ContractIds,
             tenant \in TenantRow, company \in CompanyRow, row \in ContractRow, codes \in SUBSET products :
          Onboarded(r, t, c, k, tenant, company, row, codes)
    BY <1>5, OnboardWrites
  <2>2. id' = [id EXCEPT ![r] = c] /\ out' = [out EXCEPT ![r] = [contract |-> row, codes |-> codes]]
    BY <2>1 DEF Onboarded, Contracts
  <2>3. [contract |-> row, codes |-> codes] \in Returned /\ [contract |-> row, codes |-> codes] # Nothing
    BY Returnable
  <2>4. /\ pc[r] = "onboard" /\ pc' = [pc EXCEPT ![r] = "answer"]
        /\ UNCHANGED << op, scope, current, view, audits, products, looked >>
    BY <1>5 DEF Onboard
  <2> HIDE DEF Returns, Goto
  <2>5. QED
    BY <1>5, <2>2, <2>3, <2>4
<1>6. QED
  BY <1>1, <1>2, <1>3, <1>4, <1>5

\* Where the steps that write no row go.
LEMMA OthersGo ==
  ASSUME Shape, NEW r \in Requests, Request(r),
         ~(CreateTenant(r) \/ UpdateTenant(r) \/ Onboard(r) \/ CreateContract(r) \/ UpdateContract(r)),
         ~(Publish(r) \/ Answer(r) \/ Audit(r))
  PROVE  /\ UNCHANGED << tables, id, out, events, audits, stale >>
         /\ pc' = [pc EXCEPT ![r] = pc'[r]]
         /\ pc'[r] \in Steps \ {"publish", "answer", "answered", "audited"}
         /\ pc[r] \notin {"answer", "answered", "audited"}
         /\ pc[r] = "publish" => pc'[r] = "failed"
         /\ pc'[r] = "failed" => Fail(r)
         /\ out[r] # Nothing => pc'[r] = "failed"
         /\ op' = [op EXCEPT ![r] = op'[r]] /\ op'[r] \in Bodies \cup {NoOp}
         /\ current' = [current EXCEPT ![r] = current'[r]] /\ current'[r] \in ContractRow \cup {NoRow}
         /\ looked' = [looked EXCEPT ![r] = looked'[r]] /\ looked'[r] \subseteq CompanyIds
<1> USE DEF tables, locals, logs, Goto, Proceed, Refuse, Shape, TypeOK, Steps, OutInv
<1>1. CASE Refuse(r)
  BY <1>1 DEF Request, Begin, Find, CheckTenant, CheckCompany, CheckEmail, EnsureTenant, ReadContract,
              Fail, Read, AttachProducts
<1>2. CASE Begin(r) /\ ~Refuse(r)
  BY <1>2, BeginGoes DEF Begin
<1>3. CASE Find(r) /\ ~Refuse(r)
  BY <1>3, FindGoes DEF Find
<1>4. CASE (CheckTenant(r) \/ CheckEmail(r) \/ EnsureTenant(r)) /\ ~Refuse(r)
  BY <1>4 DEF CheckTenant, CheckEmail, EnsureTenant
<1>5. CASE CheckCompany(r) /\ ~Refuse(r)
  <2>1. Stored(companies) \subseteq CompanyIds
    BY DEF Stored
  <2>2. QED
    BY <1>5, <2>1 DEF CheckCompany
<1>6. CASE ReadContract(r) /\ ~Refuse(r)
  <2>1. contracts[op[r].target] \in ContractRow
    BY <1>6 DEF ReadContract, OpInv, Stored
  <2>2. QED
    BY <1>6, <2>1 DEF ReadContract
<1>7. CASE Fail(r) \/ Read(r) \/ AttachProducts(r)
  BY <1>7 DEF Fail, Read, AttachProducts
<1>8. QED
  BY <1>1, <1>2, <1>3, <1>4, <1>5, <1>6, <1>7 DEF Request

LEMMA LastSteps ==
  ASSUME Shape, NEW r \in Requests, Publish(r) \/ Answer(r) \/ Audit(r)
  PROVE  /\ UNCHANGED << tables, locals, looked, stale >>
         /\ pc' = [pc EXCEPT ![r] = pc'[r]]
         /\ \/ Publish(r) /\ pc[r] = "publish" /\ pc'[r] = "answer" /\ audits' = audits
               /\ events' = Append(events, [request |-> r, about |-> id[r], row |-> out[r]])
            \/ Answer(r) /\ pc[r] = "answer" /\ pc'[r] = "answered" /\ UNCHANGED << events, audits >>
            \/ Audit(r) /\ pc[r] = "answered" /\ pc'[r] = "audited" /\ events' = events /\ audits' = audits \cup {r}
BY DEF Publish, Answer, Audit, locals, logs, Goto, Proceed, Shape, TypeOK

LEMMA OutStep ==
  ASSUME Shape, NEW r \in Requests, Request(r)
  PROVE  OutInv'
<1>1. SUFFICES ASSUME NEW q \in Requests
      PROVE  /\ out'[q] # Nothing => pc'[q] \in {"publish", "answer", "answered", "audited", "failed"}
             /\ pc'[q] = "publish" => out'[q] # Nothing /\ id'[q] \in TenantIds \cup ContractIds
  BY DEF OutInv
<1>2. CASE q # r
  BY <1>2, OthersKept DEF Shape, OutInv
<1>3. CASE q = r
  <2>1. CASE CreateTenant(r) \/ UpdateTenant(r) \/ Onboard(r) \/ CreateContract(r) \/ UpdateContract(r)
    BY <1>3, <2>1, WritesReturn
  <2>2. CASE Publish(r) \/ Answer(r) \/ Audit(r)
    BY <1>3, <2>2, LastSteps
  <2>3. CASE ~(CreateTenant(r) \/ UpdateTenant(r) \/ Onboard(r) \/ CreateContract(r) \/ UpdateContract(r))
             /\ ~(Publish(r) \/ Answer(r) \/ Audit(r))
    BY <1>3, <2>3, OthersGo
  <2>4. QED
    BY <2>1, <2>2, <2>3
<1>4. QED
  BY <1>2, <1>3

LEMMA TablesTyped ==
  ASSUME Shape, NEW r \in Requests, Request(r)
  PROVE  /\ tenants' \in [TenantIds -> TenantRow \cup {NoRow}]
         /\ companies' \in [CompanyIds -> CompanyRow \cup {NoRow}]
         /\ contracts' \in [ContractIds -> ContractRow \cup {NoRow}]
         /\ contractProducts' \in [ContractIds -> SUBSET products]
         /\ products' = products
         /\ emails' \subseteq Emails
         /\ stale' \subseteq ContractIds
<1> USE DEF Shape, TypeOK
<1>1. CASE CreateTenant(r)
  <2>1. \E t \in TenantIds, row \in TenantRow : tenants' = [tenants EXCEPT ![t] = row]
    BY <1>1, CreateTenantWrites
  <2>2. QED
    BY <1>1, <2>1 DEF CreateTenant
<1>2. CASE UpdateTenant(r)
  <2>1. \E t \in TenantIds, row \in TenantRow : tenants' = [tenants EXCEPT ![t] = row]
    BY <1>2, UpdateTenantWrites
  <2>2. QED
    BY <1>2, <2>1 DEF UpdateTenant
<1>3. CASE CreateContract(r)
  <2>1. PICK k \in ContractIds, row \in ContractRow, codes \in SUBSET products : Contracts(r, k, row, codes)
    BY <1>3, CreateContractWrites
  <2>2. QED
    BY <1>3, <2>1 DEF CreateContract, Contracts
<1>4. CASE UpdateContract(r)
  <2>1. PICK k \in ContractIds, row \in ContractRow, codes \in SUBSET products :
          Contracts(r, k, row, codes) /\ stale' \subseteq stale \cup {k}
    BY <1>4, UpdateContractWrites
  <2>2. UNCHANGED << tenants, companies, products, emails >>
    BY <1>4 DEF UpdateContract
  <2>3. contracts' = [contracts EXCEPT ![k] = row] /\ contractProducts' = [contractProducts EXCEPT ![k] = codes]
    BY <2>1 DEF Contracts
  <2>4. QED
    BY <2>1, <2>2, <2>3
<1>5. CASE Onboard(r)
  <2>1. PICK t \in TenantIds, c \in CompanyIds, k \in ContractIds,
             tenant \in TenantRow, company \in CompanyRow, row \in ContractRow, codes \in SUBSET products :
          Onboarded(r, t, c, k, tenant, company, row, codes)
    BY <1>5, OnboardWrites
  <2>2. products' = products /\ stale' = stale
    BY <1>5 DEF Onboard
  <2>3. QED
    BY <2>1, <2>2 DEF Onboarded, Contracts
<1>6. CASE ~(CreateTenant(r) \/ UpdateTenant(r) \/ Onboard(r) \/ CreateContract(r) \/ UpdateContract(r))
  BY <1>6, OnlyWritesChange DEF tables
<1>7. QED
  BY <1>1, <1>2, <1>3, <1>4, <1>5, <1>6

\* the events as a set
Outbox == {events[i] : i \in DOMAIN events}

\* What a request adds to the events.
LEMMA EventsGrow ==
  ASSUME Shape, NEW r \in Requests, Request(r)
  PROVE  /\ events' \in Seq(EventRow)
         /\ Publish(r) => \E e \in EventRow : Outbox' = Outbox \cup {e} /\ e.request = r /\ e.row = out[r]
         /\ Onboard(r) => \E e, f \in EventRow : /\ Outbox' = Outbox \cup {e, f}
                                                 /\ e.request = r /\ f.request = r /\ f.row = out'[r]
         /\ ~Publish(r) /\ ~Onboard(r) => events' = events
<1>1. events \in Seq(EventRow)
  BY DEF Shape, TypeOK
<1>2. CASE Publish(r)
  <2> DEFINE e == [request |-> r, about |-> id[r], row |-> out[r]]
  <2>1. events' = Append(events, e) /\ ~Onboard(r)
    BY <1>2 DEF Publish, Onboard
  <2>2. out[r] \in Returned /\ id[r] \in TenantIds \cup ContractIds
    BY <1>2 DEF Publish, Shape, TypeOK, OutInv
  <2>3. e \in EventRow /\ e.request = r /\ e.row = out[r]
    BY <2>2 DEF EventRow
  <2> HIDE DEF e
  <2>4. /\ events' \in Seq(EventRow)
        /\ Len(events) \in Nat /\ Len(events') = Len(events) + 1
        /\ DOMAIN events = 1 .. Len(events) /\ DOMAIN events' = 1 .. Len(events')
        /\ \A i \in 1 .. Len(events) : events'[i] = events[i]
        /\ events'[Len(events) + 1] = e
    BY <1>1, <2>1, <2>3, AppendProperties, LenProperties
  <2>5. Outbox' = Outbox \cup {e}
    <3>1. \A x \in Outbox' : x \in Outbox \cup {e}
      BY <2>4 DEF Outbox
    <3>2. \A x \in Outbox : x \in Outbox'
      BY <2>4 DEF Outbox
    <3>3. e \in Outbox'
      BY <2>4 DEF Outbox
    <3>4. QED
      BY <3>1, <3>2, <3>3
  <2>6. QED
    BY <1>2, <2>1, <2>3, <2>4, <2>5
<1>3. CASE Onboard(r)
  <2>1. PICK t \in TenantIds, c \in CompanyIds, k \in ContractIds,
             tenant \in TenantRow, company \in CompanyRow, row \in ContractRow, codes \in SUBSET products :
          Onboarded(r, t, c, k, tenant, company, row, codes)
    BY <1>3, OnboardWrites
  <2> DEFINE e == [request |-> r, about |-> t, row |-> tenant]
             f == [request |-> r, about |-> k, row |-> [contract |-> row, codes |-> codes]]
  <2>2. events' = events \o << e, f >>
    BY <2>1 DEF Onboarded
  <2>3. out'[r] = [contract |-> row, codes |-> codes]
    BY <2>1 DEF Onboarded, Contracts, Shape, TypeOK
  <2>4. codes \in SUBSET Codes
    BY DEF Shape, TypeOK
  <2>5. e \in EventRow /\ e.request = r /\ f \in EventRow /\ f.request = r /\ f.row = out'[r]
    BY <2>3, <2>4, Returnable DEF EventRow
  <2>6. ~Publish(r)
    BY <1>3 DEF Publish, Onboard
  <2> HIDE DEF e, f
  <2>7. /\ << e, f >> \in Seq(EventRow) /\ Len(<< e, f >>) = 2
        /\ << e, f >>[1] = e /\ << e, f >>[2] = f
    BY <2>5
  <2>8. /\ events' \in Seq(EventRow)
        /\ Len(events) \in Nat /\ Len(events') = Len(events) + 2
        /\ DOMAIN events = 1 .. Len(events) /\ DOMAIN events' = 1 .. Len(events')
        /\ \A i \in 1 .. Len(events') :
             events'[i] = IF i <= Len(events) THEN events[i] ELSE << e, f >>[i - Len(events)]
    BY <1>1, <2>2, <2>7, ConcatProperties, LenProperties
  <2>9. events'[Len(events) + 1] = e /\ events'[Len(events) + 2] = f
    BY <2>7, <2>8
  <2>10. Outbox' = Outbox \cup {e, f}
    <3>1. \A x \in Outbox' : x \in Outbox \cup {e, f}
      <4>1. TAKE x \in Outbox'
      <4>2. PICK i \in 1 .. Len(events') : x = events'[i]
        BY <2>8 DEF Outbox
      <4>3. CASE i <= Len(events)
        BY <2>8, <4>2, <4>3 DEF Outbox
      <4>4. CASE i = Len(events) + 1 \/ i = Len(events) + 2
        BY <2>9, <4>2, <4>4
      <4>5. QED
        BY <2>8, <4>3, <4>4
    <3>2. \A x \in Outbox : x \in Outbox'
      BY <2>8 DEF Outbox
    <3>3. e \in Outbox' /\ f \in Outbox'
      BY <2>8, <2>9 DEF Outbox
    <3>4. QED
      BY <3>1, <3>2, <3>3
  <2>11. QED
    BY <1>3, <2>5, <2>6, <2>8, <2>10
<1>4. CASE ~Publish(r) /\ ~Onboard(r)
  <2>1. events' = events
    <3>1. CASE CreateTenant(r) \/ UpdateTenant(r) \/ CreateContract(r) \/ UpdateContract(r)
      BY <1>4, <3>1, WritesReturn
    <3>2. CASE Answer(r) \/ Audit(r)
      BY <1>4, <3>2, LastSteps
    <3>3. CASE ~(CreateTenant(r) \/ UpdateTenant(r) \/ CreateContract(r) \/ UpdateContract(r) \/ Answer(r) \/ Audit(r))
      BY <1>4, <3>3, OthersGo
    <3>4. QED
      BY <3>1, <3>2, <3>3
  <2>2. QED
    BY <1>1, <1>4, <2>1
<1>5. QED
  BY <1>2, <1>3, <1>4

LEMMA TypeStep ==
  ASSUME Shape, NEW r \in Requests, Request(r)
  PROVE  TypeOK'
<1>1. events' \in Seq(EventRow)
  BY EventsGrow
<1>2. /\ pc' \in [Requests -> Steps]
      /\ op' \in [Requests -> Bodies \cup {NoOp}]
      /\ current' \in [Requests -> ContractRow \cup {NoRow}]
      /\ id' \in [Requests -> TenantIds \cup CompanyIds \cup ContractIds \cup {Nothing}]
      /\ out' \in [Requests -> Returned \cup {Nothing}]
      /\ audits' \subseteq Requests
      /\ looked' \in [Requests -> SUBSET CompanyIds]
  <2>1. CASE CreateTenant(r) \/ UpdateTenant(r) \/ Onboard(r) \/ CreateContract(r) \/ UpdateContract(r)
    <3>1. pc'[r] \in Steps /\ id'[r] \in TenantIds \cup CompanyIds \cup ContractIds
      BY <2>1, WritesReturn DEF Steps
    <3>2. QED
      BY <2>1, <3>1, WritesReturn DEF Shape, TypeOK
  <2>2. CASE Publish(r) \/ Answer(r) \/ Audit(r)
    <3>1. pc'[r] \in Steps
      BY <2>2, LastSteps DEF Steps
    <3>2. pc' \in [Requests -> Steps]
      BY <2>2, <3>1, LastSteps DEF Shape, TypeOK
    <3>3. audits' \subseteq Requests
      <4>1. audits' = audits \/ audits' = audits \cup {r}
        BY <2>2, LastSteps
      <4>2. QED
        BY <4>1 DEF Shape, TypeOK
    <3>4. UNCHANGED << op, current, id, out, looked >>
      BY <2>2, LastSteps DEF locals
    <3>5. QED
      BY <3>2, <3>3, <3>4 DEF Shape, TypeOK
  <2>3. CASE ~(CreateTenant(r) \/ UpdateTenant(r) \/ Onboard(r) \/ CreateContract(r) \/ UpdateContract(r))
             /\ ~(Publish(r) \/ Answer(r) \/ Audit(r))
    BY <2>3, OthersGo DEF Shape, TypeOK
  <2>4. QED
    BY <2>1, <2>2, <2>3
<1>3. /\ tenants' \in [TenantIds -> TenantRow \cup {NoRow}]
      /\ companies' \in [CompanyIds -> CompanyRow \cup {NoRow}]
      /\ contracts' \in [ContractIds -> ContractRow \cup {NoRow}]
      /\ contractProducts' \in [ContractIds -> SUBSET products]
      /\ products' = products
      /\ emails' \subseteq Emails
      /\ stale' \subseteq ContractIds
  BY TablesTyped
<1>4. products' \subseteq Codes
  BY <1>3 DEF Shape, TypeOK
<1>5. QED
  BY <1>1, <1>2, <1>3, <1>4 DEF TypeOK

LEMMA ShapeInit == Init => Shape
<1> SUFFICES ASSUME Init PROVE Shape
  OBVIOUS
<1>1. TypeOK
  <2>1. << >> \in Seq(EventRow)
    OBVIOUS
  <2>2. QED
    BY <2>1, InitialAssumption DEF Init, TypeOK, Steps
<1>2. OpInv /\ SlugInv /\ DateInv /\ RutInv /\ OutInv
  BY DEF Init, OpInv, SlugInv, DateInv, RutInv, OutInv, NoOp
<1>3. QED
  BY <1>1, <1>2 DEF Shape

LEMMA SeedStep ==
  ASSUME Shape, SeedProducts
  PROVE  Shape'
<1>1. UNCHANGED << tenants, companies, contracts, contractProducts, emails, pc, locals, logs >> /\ products' = Codes
  BY DEF SeedProducts
<1>2. TypeOK'
  BY <1>1 DEF Shape, TypeOK, locals, logs
<1>3. OpInv' /\ SlugInv' /\ DateInv' /\ RutInv' /\ OutInv'
  BY <1>1 DEF Shape, OpInv, SlugInv, DateInv, RutInv, OutInv, Stored, locals, logs
<1>4. QED
  BY <1>2, <1>3 DEF Shape

LEMMA ShapeStep == Shape /\ [Next]_vars => Shape'
<1> SUFFICES ASSUME Shape, [Next]_vars PROVE Shape'
  OBVIOUS
<1>1. CASE UNCHANGED vars
  BY <1>1 DEF vars, tables, locals, logs, Shape, TypeOK, OpInv, SlugInv, DateInv, RutInv, OutInv, Stored
<1>2. ASSUME NEW r \in Requests, Request(r)
      PROVE  Shape'
  BY <1>2, TypeStep, OpStep, SlugStep, DateStep, RutStep, OutStep DEF Shape
<1>3. QED
  BY <1>1, <1>2, SeedStep DEF Next

LEMMA ShapeHolds == Spec => []Shape
  BY ShapeInit, ShapeStep, PTL DEF Spec

\* Every reachable state is well typed: the tables, the requests and the outbox.
THEOREM TypeCorrect == Spec => []TypeOK
<1>1. Shape => TypeOK
  BY DEF Shape
<1>2. QED
  BY <1>1, ShapeHolds, PTL

\* Every tenant has a slug that its validator accepts, and for every text that a
\* client can type the slug of the text is such a slug or nothing, and its own
\* slug: the tenants have slugs (TypeOK), and slugify is what SlugifyIs and
\* SlugOfSlug say of texts of every length (slugify.ts:1).
THEOREM SlugsStayStable == Spec => []SlugsAreStable
<1>1. ASSUME NEW text \in Texts, Slugify(text) # << >>
      PROVE  IsSlug(Slugify(text)) /\ Slugify(Slugify(text)) = Slugify(text)
  <2>1. Slugify(text) \in Seq(TextChars) /\ IsSlug(Slugify(text))
    BY <1>1, TextsAssumption, SlugifyIs
  <2>2. QED
    BY <2>1, SlugOfSlug
<1>2. Shape => SlugsAreStable
  <2> SUFFICES ASSUME TypeOK PROVE \A t \in Stored(tenants) : IsSlug(tenants[t].slug)
    BY <1>1 DEF Shape, SlugsAreStable
  <2> TAKE t \in Stored(tenants)
  <2>1. tenants[t] \in TenantRow
    BY DEF TypeOK, Stored
  <2>2. PICK text \in Names : tenants[t].slug = Slugify(text) /\ Slugify(text) # << >>
    BY <2>1 DEF TenantRow
  <2>3. QED
    BY <1>1, <2>2 DEF Names
<1>3. QED
  BY <1>2, ShapeHolds, PTL

\* Tenants and contracts are never deleted, a contract stays with its tenant, and
\* no tenant or contract service touches a stored company: what a request found
\* or was allowed to see is there when it writes
\* (CustomerContractsRepository.update, InternalCustomersRepository.create).
THEOREM RowsStay == Spec => [][Kept]_vars
<1>1. Shape /\ [Next]_vars => [Kept]_vars
  <2> SUFFICES ASSUME Shape, Next PROVE Kept
    OBVIOUS
  <2>1. CASE SeedProducts
    BY <2>1 DEF SeedProducts, Kept, Stored
  <2>2. QED
    BY <2>1, RowsAreKept DEF Next
<1>2. QED
  BY <1>1, ShapeHolds, PTL DEF Spec
-----------------------------------------------------------------------------
LEMMA DatesKept ==
  ASSUME Shape, DatesInOrder, NEW r \in Requests, Request(r)
  PROVE  DatesInOrder'
<1>1. SUFFICES ASSUME NEW k \in Stored(contracts)' \ stale'
      PROVE  DatesOrdered(contracts'[k].start, contracts'[k].end)
  BY DEF DatesInOrder
<1>2. ASSUME contracts'[k] = contracts[k], k \in Stored(contracts), stale \subseteq stale'
      PROVE  DatesOrdered(contracts'[k].start, contracts'[k].end)
  BY <1>1, <1>2 DEF DatesInOrder
<1> USE DEF Stored, Fresh, Shape, TypeOK
<1>3. CASE Onboard(r)
  <2>1. PICK t \in TenantIds, c \in CompanyIds, new \in ContractIds,
             tenant \in TenantRow, company \in CompanyRow, row \in ContractRow, codes \in SUBSET products :
          Onboarded(r, t, c, new, tenant, company, row, codes)
    BY <1>3, OnboardWrites
  <2>2. contracts' = [contracts EXCEPT ![new] = row] /\ DatesOrdered(row.start, row.end)
    BY <2>1 DEF Onboarded, Contracts
  <2>3. stale' = stale
    BY <1>3 DEF Onboard
  <2>4. QED
    BY <1>1, <1>2, <2>2, <2>3
<1>4. CASE CreateContract(r)
  <2>1. PICK new \in ContractIds, row \in ContractRow, codes \in SUBSET products :
          Contracts(r, new, row, codes) /\ DatesOrdered(row.start, row.end)
    BY <1>4, CreateContractWrites
  <2>2. contracts' = [contracts EXCEPT ![new] = row]
    BY <2>1 DEF Contracts
  <2>3. stale' = stale
    BY <1>4 DEF CreateContract
  <2>4. QED
    BY <1>1, <1>2, <2>1, <2>2, <2>3
<1>5. CASE UpdateContract(r)
  <2>1. PICK c \in ContractIds, row \in ContractRow, codes \in SUBSET products :
          /\ c \in Stored(contracts) /\ Contracts(r, c, row, codes)
          /\ stale \subseteq stale'
          /\ c \notin stale' => DatesOrdered(row.start, row.end)
    BY <1>5, UpdateContractWrites
  <2>2. contracts' = [contracts EXCEPT ![c] = row]
    BY <2>1 DEF Contracts
  <2>3. QED
    BY <1>1, <1>2, <2>1, <2>2
<1>6. CASE CreateTenant(r) \/ UpdateTenant(r)
  BY <1>1, <1>2, <1>6 DEF CreateTenant, UpdateTenant
<1>7. CASE ~(CreateTenant(r) \/ UpdateTenant(r) \/ Onboard(r) \/ CreateContract(r) \/ UpdateContract(r))
  BY <1>1, <1>2, <1>7, OnlyWritesChange DEF tables
<1>8. QED
  BY <1>3, <1>4, <1>5, <1>6, <1>7

\* Contracts end no earlier than they start: updates check the dates on a copy
\* of the contract, and only one whose copy was out of date may break the order
\* (CustomerContractsRepository.update, InternalCustomersService.create).
THEOREM DatesStayInOrder == Spec => []DatesInOrder
<1>1. Init => DatesInOrder
  BY InitialAssumption DEF Init, DatesInOrder, Stored
<1>2. Shape /\ DatesInOrder /\ [Next]_vars => DatesInOrder'
  <2> SUFFICES ASSUME Shape, DatesInOrder, [Next]_vars PROVE DatesInOrder'
    OBVIOUS
  <2>1. CASE UNCHANGED vars
    BY <2>1 DEF vars, tables, logs, DatesInOrder, Stored
  <2>2. CASE SeedProducts
    BY <2>2 DEF SeedProducts, logs, DatesInOrder, Stored
  <2>3. ASSUME NEW r \in Requests, Request(r)
        PROVE  DatesInOrder'
    BY <2>3, DatesKept
  <2>4. QED
    BY <2>1, <2>2, <2>3 DEF Next
<1>3. QED
  BY <1>1, <1>2, ShapeHolds, PTL DEF Spec

\* the company of an onboarding that is done, and those it looked at, are there
OnboardedInv ==
  \A r \in Requests : op[r].kind = "customer.onboard" /\ out[r] # Nothing =>
    /\ id[r] \in Stored(companies) /\ looked[r] \subseteq Stored(companies)
    /\ \A c \in looked[r] : companies[c].rut # companies[id[r]].rut

LEMMA OnboardedStep ==
  ASSUME Shape, OnboardedInv, NEW r \in Requests, Request(r)
  PROVE  OnboardedInv'
<1>1. Kept
  BY RowsAreKept
<1>2. SUFFICES ASSUME NEW q \in Requests, op'[q].kind = "customer.onboard", out'[q] # Nothing
      PROVE  /\ id'[q] \in Stored(companies)' /\ looked'[q] \subseteq Stored(companies)'
             /\ \A c \in looked'[q] : companies'[c].rut # companies'[id'[q]].rut
  BY DEF OnboardedInv
<1>3. ASSUME op'[q] = op[q], out'[q] = out[q], id'[q] = id[q], looked'[q] = looked[q]
      PROVE  /\ id'[q] \in Stored(companies)' /\ looked'[q] \subseteq Stored(companies)'
             /\ \A c \in looked'[q] : companies'[c].rut # companies'[id'[q]].rut
  <2>1. /\ id[q] \in Stored(companies) /\ looked[q] \subseteq Stored(companies)
        /\ \A c \in looked[q] : companies[c].rut # companies[id[q]].rut
    BY <1>2, <1>3 DEF OnboardedInv
  <2>2. QED
    BY <1>1, <1>3, <2>1 DEF Kept
<1>4. CASE q # r
  BY <1>3, <1>4, OthersKept
<1>5. CASE q = r /\ Onboard(r)
  <2>1. PICK t \in TenantIds, new \in CompanyIds, k \in ContractIds,
             tenant \in TenantRow, company \in CompanyRow, row \in ContractRow, codes \in SUBSET products :
          Onboarded(r, t, new, k, tenant, company, row, codes)
    BY <1>5, OnboardWrites
  <2>2. /\ new \in Fresh(companies)
        /\ companies'[new] = company /\ company.rut = Normalize(op[r].rut) /\ id'[r] = new
        /\ \A c \in Stored(companies) : companies'[c] = companies[c]
        /\ new \in Stored(companies)'
    BY <2>1, NullAssumption DEF Onboarded, Shape, TypeOK, Stored, Fresh
  <2>3. looked'[r] = looked[r]
    BY <1>5, WritesReturn
  <2>4. \A c \in looked[r] : c \in Stored(companies) /\ companies[c].rut # Normalize(op[r].rut)
    BY <1>5 DEF Onboard, Shape, RutInv
  <2>5. QED
    BY <1>1, <1>5, <2>2, <2>3, <2>4 DEF Kept
<1>6. CASE q = r /\ (CreateTenant(r) \/ UpdateTenant(r) \/ CreateContract(r) \/ UpdateContract(r))
  <2>1. op'[r] = op[r]
    BY <1>6, WritesReturn
  <2>2. op[r].kind # "customer.onboard"
    BY <1>6, Kinds DEF CreateTenant, UpdateTenant, CreateContract, UpdateContract, Shape, OpInv
  <2>3. QED
    BY <1>2, <1>6, <2>1, <2>2
<1>7. CASE q = r /\ (Publish(r) \/ Answer(r) \/ Audit(r))
  <2>1. UNCHANGED << locals, looked >>
    BY <1>7, LastSteps
  <2>2. QED
    BY <1>3, <2>1 DEF locals
<1>8. CASE q = r /\ ~(CreateTenant(r) \/ UpdateTenant(r) \/ Onboard(r) \/ CreateContract(r) \/ UpdateContract(r))
             /\ ~(Publish(r) \/ Answer(r) \/ Audit(r))
  <2>1. Fail(r)
    BY <1>2, <1>8, OthersGo
  <2>2. UNCHANGED << locals, looked >>
    BY <2>1 DEF Fail
  <2>3. QED
    BY <1>3, <2>2 DEF locals
<1>9. QED
  BY <1>4, <1>5, <1>6, <1>7, <1>8

\* The number of an onboarded owner is none that was there when it was looked up
\* (InternalCustomersRepository.create): rows are inserted and never changed, so
\* that only onboardings at the same time share a number.
THEOREM OwnersAreNew == Spec => []OnboardedRutIsNew
<1>1. Init => OnboardedInv
  BY DEF Init, OnboardedInv
<1>2. Shape /\ OnboardedInv /\ [Next]_vars => OnboardedInv'
  <2> SUFFICES ASSUME Shape, OnboardedInv, [Next]_vars PROVE OnboardedInv'
    OBVIOUS
  <2>1. CASE UNCHANGED vars
    BY <2>1 DEF vars, tables, locals, logs, OnboardedInv, Stored
  <2>2. CASE SeedProducts
    BY <2>2 DEF SeedProducts, locals, logs, OnboardedInv, Stored
  <2>3. ASSUME NEW r \in Requests, Request(r)
        PROVE  OnboardedInv'
    BY <2>3, OnboardedStep
  <2>4. QED
    BY <2>1, <2>2, <2>3 DEF Next
<1>3. OnboardedInv => OnboardedRutIsNew
  BY DEF OnboardedInv, OnboardedRutIsNew
<1>4. QED
  BY <1>1, <1>2, <1>3, ShapeHolds, PTL DEF Spec
-----------------------------------------------------------------------------
\* the rows that have an id of their own in events
Announceable == Stored(tenants) \cup Stored(contracts)

\* requests that have written row x and not published it
Publishing(x) == {r \in Requests : pc[r] = "publish" /\ id[r] = x}

\* Only the last writer of a row has its event to publish, and the row has what
\* that event will carry, or the row is one of those the property leaves out.
CurrentInv ==
  /\ \A r \in Requests : pc[r] = "publish" => id[r] \in Announceable
  /\ \A x \in Announceable \ overlapped :
       /\ \A r \in Publishing(x) : Publishing(x) = {r} /\ out[r] = Current(x)
       /\ Publishing(x) = {} => \A i \in DOMAIN events : LatestAbout(x, i) => events[i].row = Current(x)

LEMMA CurrentInvImplies == CurrentInv => LastEventIsCurrent
BY DEF CurrentInv, LastEventIsCurrent, Announceable, Publishing

\* What a request does that writes the row x and announces it by itself.
RowWritten(r, x) ==
  /\ x \in Announceable' /\ Announceable \subseteq Announceable' /\ Announceable' \subseteq Announceable \cup {x}
  /\ out'[r] = Current(x)' /\ id'[r] = x
  /\ \A y \in Announceable : y # x => Current(y)' = Current(y)
  /\ overlapped' = Late(x)

LEMMA OneRowWritten ==
  ASSUME Shape, CurrentInv, NEW r \in Requests,
         CreateTenant(r) \/ UpdateTenant(r) \/ CreateContract(r) \/ UpdateContract(r)
  PROVE  \E x : RowWritten(r, x)
<1> USE DEF Shape, TypeOK
<1>1. CASE CreateTenant(r) \/ UpdateTenant(r)
  <2>1. PICK t \in TenantIds, row \in TenantRow :
          /\ tenants' = [tenants EXCEPT ![t] = row]
          /\ id' = [id EXCEPT ![r] = t] /\ out' = [out EXCEPT ![r] = row]
          /\ CreateTenant(r) => t \in Fresh(tenants)
          /\ UpdateTenant(r) => overlapped' = Late(t)
    <3>1. CASE CreateTenant(r)
      <4>1. ~UpdateTenant(r)
        BY <3>1 DEF CreateTenant, UpdateTenant
      <4> QED
        BY <3>1, <4>1, CreateTenantWrites
    <3>2. CASE UpdateTenant(r)
      <4>1. ~CreateTenant(r)
        BY <3>2 DEF CreateTenant, UpdateTenant
      <4>2. id' = [id EXCEPT ![r] = op[r].target] /\ overlapped' = Late(op[r].target)
        BY <3>2 DEF UpdateTenant, Returns
      <4>3. PICK t \in TenantIds, row \in TenantRow :
              /\ tenants' = [tenants EXCEPT ![t] = row]
              /\ id' = [id EXCEPT ![r] = t] /\ out' = [out EXCEPT ![r] = row]
        BY <3>2, UpdateTenantWrites
      <4>4. t = op[r].target
        BY <4>2, <4>3
      <4> QED
        BY <4>1, <4>2, <4>3, <4>4
    <3> QED
      BY <1>1, <3>1, <3>2
  <2>2. UNCHANGED << contracts, contractProducts >>
    BY <1>1 DEF CreateTenant, UpdateTenant
  <2>3. /\ Stored(tenants)' = Stored(tenants) \cup {t}
        /\ Stored(contracts)' = Stored(contracts)
    BY <2>1, <2>2, NullAssumption DEF Stored
  <2>4. Current(t)' = row /\ \A y \in Announceable : y # t => Current(y)' = Current(y)
    BY <2>1, <2>2 DEF Current
  <2>5. overlapped' = Late(t)
    <3>1. CASE CreateTenant(r)
      <4>1. t \notin Announceable
        BY <2>1, <3>1, IdsAssumption DEF Announceable, Stored, Fresh
      <4>2. overlapped' = overlapped
        BY <3>1 DEF CreateTenant
      <4> QED
        BY <4>1, <4>2 DEF Late, CurrentInv
    <3> QED
      BY <1>1, <2>1, <3>1
  <2>6. RowWritten(r, t)
    BY <2>1, <2>3, <2>4, <2>5 DEF RowWritten, Announceable
  <2> QED
    BY <2>6
<1>2. CASE CreateContract(r) \/ UpdateContract(r)
  <2>1. PICK k \in ContractIds, row \in ContractRow, codes \in SUBSET products :
          /\ Contracts(r, k, row, codes)
          /\ id' = [id EXCEPT ![r] = k]
          /\ CreateContract(r) => k \in Fresh(contracts)
          /\ UpdateContract(r) => overlapped' = Late(k)
    <3>1. CASE CreateContract(r)
      <4>1. ~UpdateContract(r)
        BY <3>1 DEF CreateContract, UpdateContract
      <4> QED
        BY <3>1, <4>1, CreateContractWrites
    <3>2. CASE UpdateContract(r)
      <4>1. ~CreateContract(r)
        BY <3>2 DEF CreateContract, UpdateContract
      <4>2. id' = [id EXCEPT ![r] = op[r].target] /\ overlapped' = Late(op[r].target)
        BY <3>2 DEF UpdateContract, Returns
      <4>3. PICK k \in ContractIds, row \in ContractRow, codes \in SUBSET products :
              /\ Contracts(r, k, row, codes)
              /\ id' = [id EXCEPT ![r] = k]
        BY <3>2, UpdateContractWrites
      <4>4. k = op[r].target
        BY <4>2, <4>3
      <4> QED
        BY <4>1, <4>2, <4>3, <4>4
    <3> QED
      BY <1>2, <3>1, <3>2
  <2>2. tenants' = tenants
    BY <1>2 DEF CreateContract, UpdateContract
  <2>3. /\ Stored(contracts)' = Stored(contracts) \cup {k}
        /\ Stored(tenants)' = Stored(tenants)
    BY <2>1, <2>2, NullAssumption DEF Contracts, Stored
  <2>4. /\ Current(k)' = [contract |-> row, codes |-> codes]
        /\ \A y \in Announceable : y # k => Current(y)' = Current(y)
    BY <2>1, <2>2, IdsAssumption DEF Contracts, Current, Announceable, Stored
  <2>5. overlapped' = Late(k)
    <3>1. CASE CreateContract(r)
      <4>1. k \notin Announceable
        BY <2>1, <3>1, IdsAssumption DEF Announceable, Stored, Fresh
      <4>2. overlapped' = overlapped
        BY <3>1 DEF CreateContract
      <4> QED
        BY <4>1, <4>2 DEF Late, CurrentInv
    <3> QED
      BY <1>2, <2>1, <3>1
  <2>6. RowWritten(r, k)
    BY <2>1, <2>3, <2>4, <2>5 DEF RowWritten, Announceable, Contracts
  <2> QED
    BY <2>6
<1> QED
  BY <1>1, <1>2

LEMMA RowWrittenStep ==
  ASSUME Shape, CurrentInv, NEW r \in Requests,
         CreateTenant(r) \/ UpdateTenant(r) \/ CreateContract(r) \/ UpdateContract(r)
  PROVE  CurrentInv'
<1>1. PICK x : RowWritten(r, x)
  BY OneRowWritten
<1>2. /\ pc' = [pc EXCEPT ![r] = "publish"] /\ pc[r] # "publish"
      /\ id' = [id EXCEPT ![r] = x] /\ out' = [out EXCEPT ![r] = out'[r]]
      /\ events' = events
  <2>1. ~Onboard(r)
    BY DEF Onboard, CreateTenant, UpdateTenant, CreateContract, UpdateContract
  <2> QED
    BY <1>1, <2>1, WritesReturn DEF RowWritten, Shape, TypeOK
<1>3. \A y : y # x => Publishing(y)' = Publishing(y)
  BY <1>2 DEF Publishing, Shape, TypeOK
<1>4. Publishing(x)' = Publishing(x) \cup {r}
  BY <1>2 DEF Publishing, Shape, TypeOK
<1>5. overlapped \subseteq overlapped' /\ overlapped' \subseteq overlapped \cup {x}
      /\ (x \notin overlapped' => Publishing(x) = {})
      /\ \A q \in Requests : pc[q] = "publish" /\ id[q] = x => x \in overlapped'
  BY <1>1 DEF RowWritten, Late, Publishing
<1>6. ASSUME NEW q \in Requests, pc'[q] = "publish" PROVE id'[q] \in Announceable'
  <2>1. CASE q = r
    BY <1>1, <1>2, <2>1 DEF RowWritten, Shape, TypeOK
  <2>2. CASE q # r
    BY <1>1, <1>2, <1>6, <2>2 DEF RowWritten, CurrentInv, Shape, TypeOK
  <2> QED
    BY <2>1, <2>2
<1>7. ASSUME NEW y \in Announceable' \ overlapped', NEW q \in Publishing(y)'
      PROVE  Publishing(y)' = {q} /\ out'[q] = Current(y)'
  <2>1. CASE y = x
    BY <1>1, <1>4, <1>5, <1>7, <2>1 DEF RowWritten
  <2>2. CASE y # x
    <3>1. y \in Announceable \ overlapped /\ q \in Publishing(y) /\ Publishing(y)' = Publishing(y)
      BY <1>1, <1>3, <1>5, <1>7, <2>2 DEF RowWritten
    <3>2. q # r /\ out'[q] = out[q]
      BY <1>2, <3>1 DEF Publishing, Shape, TypeOK
    <3> QED
      BY <1>1, <2>2, <3>1, <3>2 DEF RowWritten, CurrentInv
  <2> QED
    BY <2>1, <2>2
<1>8. ASSUME NEW y \in Announceable' \ overlapped', Publishing(y)' = {}, NEW i \in DOMAIN events', LatestAbout(y, i)'
      PROVE  events'[i].row = Current(y)'
  <2>1. y # x
    BY <1>4, <1>8
  <2>2. y \in Announceable \ overlapped /\ Publishing(y) = {}
    BY <1>1, <1>3, <1>5, <1>8, <2>1 DEF RowWritten
  <2>3. i \in DOMAIN events /\ LatestAbout(y, i)
    BY <1>2, <1>8 DEF LatestAbout
  <2>4. events[i].row = Current(y)
    BY <2>2, <2>3 DEF CurrentInv
  <2> QED
    BY <1>1, <1>2, <2>1, <2>2, <2>4 DEF RowWritten
<1> QED
  BY <1>6, <1>8, <1>7 DEF CurrentInv

LEMMA OnboardKeepsCurrent ==
  ASSUME Shape, CurrentInv, NEW r \in Requests, Onboard(r)
  PROVE  CurrentInv'
<1>1. PICK t \in TenantIds, c \in CompanyIds, k \in ContractIds,
           tenant \in TenantRow, company \in CompanyRow, row \in ContractRow, codes \in SUBSET products :
        Onboarded(r, t, c, k, tenant, company, row, codes)
  BY OnboardWrites
<1>2. /\ pc' = [pc EXCEPT ![r] = "answer"] /\ pc[r] # "publish"
      /\ id' = [id EXCEPT ![r] = id'[r]] /\ out' = [out EXCEPT ![r] = out'[r]]
      /\ overlapped' = overlapped
  BY WritesReturn DEF Onboard
<1>3. /\ t \notin Announceable /\ k \notin Announceable /\ t # k
      /\ Announceable' = Announceable \cup {t, k}
  BY <1>1, IdsAssumption, NullAssumption DEF Onboarded, Contracts, Announceable, Stored, Fresh, Shape, TypeOK
<1>4. /\ Current(t)' = tenant /\ Current(k)' = [contract |-> row, codes |-> codes]
      /\ \A y \in Announceable : Current(y)' = Current(y)
  <2>1. /\ tenants' = [tenants EXCEPT ![t] = tenant] /\ contracts' = [contracts EXCEPT ![k] = row]
        /\ contractProducts' = [contractProducts EXCEPT ![k] = codes]
    BY <1>1 DEF Onboarded, Contracts
  <2>2. k \notin TenantIds
    BY IdsAssumption
  <2>3. \A y \in Announceable : y # t /\ y # k
    BY <1>3
  <2> QED
    BY <2>1, <2>2, <2>3 DEF Current, Announceable, Stored, Shape, TypeOK
<1>5. \A y : Publishing(y)' = Publishing(y)
  BY <1>2 DEF Publishing, Shape, TypeOK
<1>6. ASSUME NEW q \in Requests, pc'[q] = "publish" PROVE id'[q] \in Announceable'
  BY <1>2, <1>3, <1>6 DEF CurrentInv, Shape, TypeOK
<1>7. ASSUME NEW y \in Announceable' \ overlapped', NEW q \in Publishing(y)'
      PROVE  Publishing(y)' = {q} /\ out'[q] = Current(y)'
  <2>1. q \in Publishing(y) /\ Publishing(y)' = Publishing(y)
    BY <1>5, <1>7
  <2>2. y \in Announceable /\ out'[q] = out[q]
    BY <1>2, <2>1 DEF Publishing, CurrentInv, Shape, TypeOK
  <2> QED
    BY <1>2, <1>4, <1>7, <2>1, <2>2 DEF CurrentInv
<1>8. ASSUME NEW y \in Announceable' \ overlapped', Publishing(y)' = {}, NEW i \in DOMAIN events', LatestAbout(y, i)'
      PROVE  events'[i].row = Current(y)'
  <2> DEFINE n == Len(events)
             first == [request |-> r, about |-> t, row |-> tenant]
             second == [request |-> r, about |-> k, row |-> [contract |-> row, codes |-> codes]]
  <2>1. events \in Seq(EventRow) /\ n \in Nat /\ events' = events \o << first, second >>
    BY <1>1 DEF Onboarded, Shape, TypeOK
  <2>2. /\ DOMAIN events' = 1 .. n + 2 /\ DOMAIN events = 1 .. n
        /\ events'[n + 1] = first /\ events'[n + 2] = second
        /\ \A j \in 1 .. n : events'[j] = events[j]
    <3> HIDE DEF first, second
    <3> QED
      BY <2>1
  <2>3. events'[n + 1].about = t /\ events'[n + 2].about = k
    BY <2>2
  <2>4. /\ i \in 1 .. n + 2 /\ events'[i].about = y
        /\ \A j \in 1 .. n + 2 : j > i => events'[j].about # y
    BY <1>8, <2>2 DEF LatestAbout
  <2>5. n \in Nat
    BY <2>1
  <2>6. CASE y = t
    <3>1. i = n + 1
      <4>1. n + 1 \in 1 .. n + 2 /\ i # n + 2 /\ ~(n + 1 > i)
        BY <1>3, <2>6, <2>3, <2>4, <2>5
      <4> QED
        BY <2>4, <2>5, <4>1
    <3> QED
      BY <1>4, <2>2, <2>6, <3>1
  <2>7. CASE y = k
    <3>1. i = n + 2
      <4>1. n + 2 \in 1 .. n + 2 /\ ~(n + 2 > i)
        BY <2>7, <2>3, <2>4, <2>5
      <4> QED
        BY <2>4, <2>5, <4>1
    <3> QED
      BY <1>4, <2>2, <2>7, <3>1
  <2>8. CASE y # t /\ y # k
    <3>1. y \in Announceable \ overlapped /\ Publishing(y) = {}
      BY <1>2, <1>3, <1>5, <1>8, <2>8
    <3>2. i \in 1 .. n
      BY <1>8, <2>1, <2>2, <2>8 DEF LatestAbout
    <3>3. LatestAbout(y, i)
      BY <1>8, <2>1, <2>2, <3>2 DEF LatestAbout
    <3>4. events[i].row = Current(y)
      BY <2>2, <3>1, <3>2, <3>3 DEF CurrentInv
    <3> QED
      BY <1>4, <2>2, <3>1, <3>2, <3>4
  <2> QED
    BY <2>6, <2>7, <2>8
<1> QED
  BY <1>6, <1>8, <1>7 DEF CurrentInv

LEMMA PublishKeepsCurrent ==
  ASSUME Shape, CurrentInv, NEW r \in Requests, Publish(r)
  PROVE  CurrentInv'
<1> DEFINE n == Len(events)
           e == [request |-> r, about |-> id[r], row |-> out[r]]
<1>1. /\ pc[r] = "publish" /\ pc' = [pc EXCEPT ![r] = "answer"] /\ events' = Append(events, e)
      /\ UNCHANGED << tenants, contracts, contractProducts, id, out, overlapped >>
  BY DEF Publish, Goto, tables, locals
<1>2. Announceable' = Announceable /\ \A y : Current(y)' = Current(y)
  BY <1>1 DEF Announceable, Stored, Current
<1>3. \A y : y # id[r] => Publishing(y)' = Publishing(y)
  BY <1>1 DEF Publishing, Shape, TypeOK
<1>4. events \in Seq(EventRow) /\ n \in Nat
  BY DEF Shape, TypeOK
<1>5. /\ DOMAIN events' = 1 .. n + 1 /\ DOMAIN events = 1 .. n
      /\ events'[n + 1] = e
      /\ \A j \in 1 .. n : events'[j] = events[j]
  <2> HIDE DEF e
  <2> QED
    BY <1>1, <1>4
<1>6. ASSUME NEW q \in Requests, pc'[q] = "publish" PROVE id'[q] \in Announceable'
  BY <1>1, <1>2, <1>6 DEF CurrentInv, Shape, TypeOK
<1>7. ASSUME NEW y \in Announceable' \ overlapped', NEW q \in Publishing(y)'
      PROVE  Publishing(y)' = {q} /\ out'[q] = Current(y)'
  <2>1. q \in Publishing(y) /\ q # r /\ y \in Announceable \ overlapped
    BY <1>1, <1>2, <1>7 DEF Publishing, Shape, TypeOK
  <2>2. Publishing(y) = {q} /\ out[q] = Current(y)
    BY <2>1 DEF CurrentInv
  <2>3. y # id[r]
    BY <1>1, <2>1, <2>2 DEF Publishing
  <2> QED
    BY <1>1, <1>2, <1>3, <2>2, <2>3
<1>8. ASSUME NEW y \in Announceable' \ overlapped', Publishing(y)' = {}, NEW i \in DOMAIN events', LatestAbout(y, i)'
      PROVE  events'[i].row = Current(y)'
  <2>1. CASE y = id[r]
    <3>1. i = n + 1
      BY <1>4, <1>5, <1>8, <2>1 DEF LatestAbout
    <3>2. out[r] = Current(y)
      BY <1>1, <1>2, <1>8, <2>1 DEF CurrentInv, Publishing
    <3> QED
      BY <1>2, <1>5, <3>1, <3>2
  <2>2. CASE y # id[r]
    <3>1. y \in Announceable \ overlapped /\ Publishing(y) = {}
      BY <1>1, <1>2, <1>3, <1>8, <2>2
    <3>2. i \in 1 .. n
      BY <1>4, <1>5, <1>8, <2>2 DEF LatestAbout
    <3>3. LatestAbout(y, i)
      BY <1>4, <1>5, <1>8, <3>2 DEF LatestAbout
    <3>4. events[i].row = Current(y)
      BY <1>5, <3>1, <3>2, <3>3 DEF CurrentInv
    <3> QED
      BY <1>2, <1>5, <3>2, <3>4
  <2> QED
    BY <2>1, <2>2
<1> QED
  BY <1>6, <1>8, <1>7 DEF CurrentInv

LEMMA OthersKeepCurrent ==
  ASSUME Shape, CurrentInv, NEW r \in Requests, Request(r),
         ~(CreateTenant(r) \/ UpdateTenant(r) \/ Onboard(r) \/ CreateContract(r) \/ UpdateContract(r)),
         ~Publish(r)
  PROVE  CurrentInv'
<1>1. /\ UNCHANGED << tables, id, out, events >>
      /\ pc' = [pc EXCEPT ![r] = pc'[r]] /\ pc'[r] # "publish"
      /\ overlapped \subseteq overlapped'
      /\ pc[r] = "publish" => id[r] \in overlapped'
  <2>1. CASE Answer(r) \/ Audit(r)
    BY <2>1 DEF Answer, Audit, Proceed, Goto, locals, logs, Shape, TypeOK
  <2>2. CASE Fail(r)
    BY <2>2 DEF Fail, Goto, locals, Shape, TypeOK
  <2>3. CASE ~(Answer(r) \/ Audit(r)) /\ ~Fail(r)
    <3>1. /\ UNCHANGED << tables, id, out, events >>
          /\ pc' = [pc EXCEPT ![r] = pc'[r]] /\ pc'[r] # "publish" /\ pc[r] # "publish"
      BY <2>3, OthersGo DEF Steps
    <3>2. overlapped' = overlapped
      <4> USE DEF Proceed, Refuse, logs
      <4>1. CASE Begin(r)
        BY <4>1, BeginGoes DEF Shape
      <4>2. CASE Find(r)
        BY <4>2, FindGoes
      <4>3. CASE CheckTenant(r) \/ CheckCompany(r) \/ CheckEmail(r) \/ EnsureTenant(r) \/ ReadContract(r)
        BY <4>3 DEF CheckTenant, CheckCompany, CheckEmail, EnsureTenant, ReadContract
      <4>4. CASE Read(r) \/ AttachProducts(r)
        BY <4>4 DEF Read, AttachProducts
      <4> QED
        BY <2>3, <4>1, <4>2, <4>3, <4>4 DEF Request
    <3> QED
      BY <3>1, <3>2
  <2> QED
    BY <2>1, <2>2, <2>3
<1>2. Announceable' = Announceable /\ \A y : Current(y)' = Current(y)
  BY <1>1 DEF Announceable, Stored, Current, tables
<1>3. \A y : y \notin overlapped' => Publishing(y)' = Publishing(y)
  BY <1>1 DEF Publishing, Shape, TypeOK
<1>4. ASSUME NEW q \in Requests, pc'[q] = "publish" PROVE id'[q] \in Announceable'
  BY <1>1, <1>2, <1>4 DEF CurrentInv, Shape, TypeOK
<1>5. ASSUME NEW y \in Announceable' \ overlapped', NEW q \in Publishing(y)'
      PROVE  Publishing(y)' = {q} /\ out'[q] = Current(y)'
  BY <1>1, <1>2, <1>3, <1>5 DEF CurrentInv
<1>6. ASSUME NEW y \in Announceable' \ overlapped', Publishing(y)' = {}, NEW i \in DOMAIN events', LatestAbout(y, i)'
      PROVE  events'[i].row = Current(y)'
  <2>1. y \in Announceable \ overlapped /\ Publishing(y) = {}
    BY <1>1, <1>2, <1>3, <1>6
  <2>2. i \in DOMAIN events /\ LatestAbout(y, i)
    BY <1>1, <1>6 DEF LatestAbout
  <2> QED
    BY <1>1, <1>2, <2>1, <2>2 DEF CurrentInv
<1> QED
  BY <1>4, <1>6, <1>5 DEF CurrentInv

\* The last event about a tenant or a contract carries its current row once the
\* requests that wrote it have published (CustomerContractsService.create and
\* .update, TenantsService): a row with a writer that failed to publish, or with
\* two that had not, is the only one whose events may say something else.
THEOREM EventsAreCurrent == Spec => []LastEventIsCurrent
<1>1. Init => CurrentInv
  BY DEF Init, CurrentInv, Publishing, LatestAbout
<1>2. Shape /\ CurrentInv /\ [Next]_vars => CurrentInv'
  <2> SUFFICES ASSUME Shape, CurrentInv, [Next]_vars PROVE CurrentInv'
    OBVIOUS
  <2> USE DEF CurrentInv, Announceable, Publishing, Stored, Current, LatestAbout
  <2>1. CASE UNCHANGED vars
    BY <2>1 DEF vars, tables, locals, logs
  <2>2. CASE SeedProducts
    BY <2>2 DEF SeedProducts, locals, logs
  <2>3. ASSUME NEW r \in Requests, Request(r)
        PROVE  CurrentInv'
    <3> HIDE DEF CurrentInv
    <3> QED
      BY <2>3, RowWrittenStep, OnboardKeepsCurrent, PublishKeepsCurrent, OthersKeepCurrent
  <2> HIDE DEF CurrentInv
  <2> QED
    BY <2>1, <2>2, <2>3 DEF Next
<1>3. CurrentInv => LastEventIsCurrent
  BY CurrentInvImplies
<1> QED
  BY <1>1, <1>2, <1>3, ShapeHolds, PTL DEF Spec
-----------------------------------------------------------------------------
Written == {r \in Requests : out[r] # Nothing}
Answered == {r \in Requests : pc[r] \in {"answered", "audited"}}

LEMMA AnnouncedIs ==
  /\ Announced = {r \in Requests : out[r] # Nothing /\ \E e \in Outbox : e.request = r /\ e.row = out[r]}
  /\ Announced' = {r \in Requests : out'[r] # Nothing /\ \E e \in Outbox' : e.request = r /\ e.row = out'[r]}
BY DEF Announced, Outbox

\* what a request has announced, by the statement it runs next
EventInv ==
  /\ \A e \in Outbox : e.request \in Requests /\ pc[e.request] \in {"answer", "answered", "audited"}
  /\ \A r \in Requests : pc[r] \in {"answer", "answered", "audited"} => r \in Announced
  /\ \A r \in audits : pc[r] = "audited"

\* What a step of one request has to show of that request.
LEMMA EventInvOfOne ==
  ASSUME EventInv, audits \subseteq Requests, NEW r \in Requests,
         \A q \in Requests : q # r => pc'[q] = pc[q],
         \A e \in Outbox' : e \in Outbox \/ e.request = r,
         \A e \in Outbox' : e.request = r => pc'[r] \in {"answer", "answered", "audited"},
         Announced \ {r} \subseteq Announced',
         pc'[r] \in {"answer", "answered", "audited"} => r \in Announced',
         \A q \in audits' : q \in audits \/ q = r,
         r \in audits' => pc'[r] = "audited"
  PROVE  EventInv'
<1>1. ASSUME NEW e \in Outbox'
      PROVE  e.request \in Requests /\ pc'[e.request] \in {"answer", "answered", "audited"}
  <2>1. CASE e.request = r
    BY <1>1, <2>1
  <2>2. CASE e.request # r
    <3>1. e.request \in Requests /\ pc[e.request] \in {"answer", "answered", "audited"}
      BY <1>1, <2>2 DEF EventInv
    <3>2. QED
      BY <2>2, <3>1
  <2>3. QED
    BY <2>1, <2>2
<1>2. ASSUME NEW q \in Requests, pc'[q] \in {"answer", "answered", "audited"}
      PROVE  q \in Announced'
  <2>1. CASE q = r
    BY <1>2, <2>1
  <2>2. CASE q # r
    BY <1>2, <2>2 DEF EventInv
  <2>3. QED
    BY <2>1, <2>2
<1>3. ASSUME NEW q \in audits'
      PROVE  pc'[q] = "audited"
  BY <1>3 DEF EventInv
<1>4. QED
  BY <1>1, <1>2, <1>3 DEF EventInv

\* Every step of a request is a step of its announcement, or none.
LEMMA AnnouncementStep ==
  ASSUME Shape, EventInv, NEW r \in Requests, Request(r)
  PROVE  EventInv' /\ [Announcement!Next]_(Announcement!eventVars)
<1> USE DEF Written, Answered
<1>1. \A q \in Requests : q # r => pc'[q] = pc[q] /\ out'[q] = out[q]
  BY OthersKept
<1>2. audits \subseteq Requests
  BY DEF Shape, TypeOK
<1>3. CASE CreateTenant(r) \/ UpdateTenant(r) \/ CreateContract(r) \/ UpdateContract(r)
  <2>1. /\ Outbox' = Outbox /\ audits' = audits
        /\ pc[r] \in {"createTenant", "updateTenant", "createContract", "updateContract"} /\ pc'[r] = "publish"
        /\ out'[r] # Nothing
    <3>1. pc[r] \in {"createTenant", "updateTenant", "createContract", "updateContract"}
      BY <1>3 DEF CreateTenant, UpdateTenant, CreateContract, UpdateContract
    <3>2. ~Onboard(r)
      BY <3>1 DEF Onboard
    <3>3. events' = events /\ audits' = audits /\ pc'[r] = "publish" /\ out'[r] # Nothing
      BY <1>3, <3>2, WritesReturn DEF Shape, TypeOK
    <3>4. QED
      BY <3>1, <3>3 DEF Outbox
  <2>2. out[r] = Nothing /\ \A e \in Outbox : e.request # r
    BY <2>1 DEF EventInv, Shape, OutInv
  <2>3. Written' = Written \cup {r} /\ r \notin Written
    BY <1>1, <2>1, <2>2
  <2>4. Announced' = Announced
    BY <1>1, <2>1, <2>2, AnnouncedIs
  <2>5. Answered' = Answered
    BY <1>1, <2>1
  <2> HIDE DEF Written, Answered
  <2>6. EventInv'
    BY <1>1, <1>2, <2>1, <2>2, <2>4, EventInvOfOne DEF EventInv
  <2>7. Announcement!Write(r)
    BY <2>1, <2>3, <2>4, <2>5 DEF Announcement!Write, Written, Answered
  <2>8. QED
    BY <2>6, <2>7 DEF Announcement!Next
<1>4. CASE Onboard(r)
  <2>1. /\ audits' = audits
        /\ pc[r] = "onboard" /\ pc'[r] = "answer" /\ out'[r] # Nothing
    BY <1>4, WritesReturn DEF Shape, TypeOK, Onboard
  <2>2. PICK e, f \in EventRow : /\ Outbox' = Outbox \cup {e, f}
                                 /\ e.request = r /\ f.request = r /\ f.row = out'[r]
    BY <1>4, EventsGrow
  <2>3. out[r] = Nothing
    BY <2>1 DEF Shape, OutInv
  <2>4. Written' = Written \cup {r} /\ r \notin Written
    BY <1>1, <2>1, <2>3
  <2>5. Announced' = Announced \cup {r} /\ r \notin Announced
    BY <1>1, <2>1, <2>2, <2>3, AnnouncedIs
  <2>6. Answered' = Answered
    BY <1>1, <2>1
  <2> HIDE DEF Written, Answered
  <2>7. EventInv'
    BY <1>1, <1>2, <2>1, <2>2, <2>5, EventInvOfOne DEF EventInv
  <2>8. Announcement!WriteAndAnnounce(r)
    BY <2>1, <2>4, <2>5, <2>6 DEF Announcement!WriteAndAnnounce, Written, Answered
  <2>9. QED
    BY <2>7, <2>8 DEF Announcement!Next
<1>5. CASE Publish(r)
  <2>1. audits' = audits /\ out' = out /\ pc[r] = "publish" /\ pc'[r] = "answer"
    BY <1>5, LastSteps DEF locals, Publish, Answer, Audit, Shape, TypeOK
  <2>2. PICK e \in EventRow : Outbox' = Outbox \cup {e} /\ e.request = r /\ e.row = out[r]
    BY <1>5, EventsGrow
  <2>3. out[r] # Nothing /\ \A f \in Outbox : f.request # r
    BY <2>1 DEF EventInv, Shape, OutInv
  <2>4. Written' = Written /\ r \in Written
    BY <2>1, <2>3
  <2>5. Announced' = Announced \cup {r} /\ r \notin Announced
    BY <2>1, <2>2, <2>3, AnnouncedIs
  <2>6. Answered' = Answered
    BY <1>1, <2>1
  <2> HIDE DEF Written, Answered
  <2>7. EventInv'
    BY <1>1, <1>2, <2>1, <2>2, <2>5, EventInvOfOne DEF EventInv
  <2>8. Announcement!Announce(r)
    BY <2>1, <2>4, <2>5, <2>6 DEF Announcement!Announce, Written, Answered
  <2>9. QED
    BY <2>7, <2>8 DEF Announcement!Next
<1>6. CASE Answer(r)
  <2>1. events' = events /\ audits' = audits /\ out' = out /\ pc[r] = "answer" /\ pc'[r] = "answered"
    BY <1>6, LastSteps DEF locals, Publish, Answer, Audit, Shape, TypeOK
  <2>2. Outbox' = Outbox
    BY <2>1 DEF Outbox
  <2>3. Announced' = Announced /\ Written' = Written /\ r \in Announced
    BY <2>1, <2>2, AnnouncedIs DEF EventInv
  <2>4. Answered' = Answered \cup {r} /\ r \notin Answered
    BY <1>1, <2>1
  <2> HIDE DEF Written, Answered
  <2>5. EventInv'
    BY <1>1, <1>2, <2>1, <2>2, <2>3, EventInvOfOne DEF EventInv
  <2>6. Announcement!Answer(r)
    BY <2>1, <2>3, <2>4 DEF Announcement!Answer, Written, Answered
  <2>7. QED
    BY <2>5, <2>6 DEF Announcement!Next
<1>7. CASE Audit(r)
  <2>1. /\ events' = events /\ audits' = audits \cup {r} /\ out' = out
        /\ pc[r] = "answered" /\ pc'[r] = "audited"
    BY <1>7, LastSteps DEF locals, Publish, Answer, Audit, Shape, TypeOK
  <2>2. Outbox' = Outbox
    BY <2>1 DEF Outbox
  <2>3. Announced' = Announced /\ Written' = Written /\ r \in Announced
    BY <2>1, <2>2, AnnouncedIs DEF EventInv
  <2>4. Answered' = Answered /\ r \in Answered /\ r \notin audits
    BY <1>1, <2>1 DEF EventInv
  <2> HIDE DEF Written, Answered
  <2>5. EventInv'
    BY <1>1, <1>2, <2>1, <2>2, <2>3, EventInvOfOne DEF EventInv
  <2>6. Announcement!Audit(r)
    BY <2>1, <2>3, <2>4 DEF Announcement!Audit, Written, Answered
  <2>7. QED
    BY <2>5, <2>6 DEF Announcement!Next
<1>8. CASE ~(CreateTenant(r) \/ UpdateTenant(r) \/ Onboard(r) \/ CreateContract(r) \/ UpdateContract(r))
           /\ ~(Publish(r) \/ Answer(r) \/ Audit(r))
  <2>1. /\ events' = events /\ audits' = audits /\ out' = out
        /\ pc[r] \notin {"answer", "answered", "audited"} /\ pc'[r] \notin {"answer", "answered", "audited"}
    BY <1>8, OthersGo
  <2>2. Outbox' = Outbox
    BY <2>1 DEF Outbox
  <2>3. Announced' = Announced /\ Written' = Written
    BY <2>1, <2>2, AnnouncedIs
  <2>4. Answered' = Answered
    BY <1>1, <2>1
  <2> HIDE DEF Written, Answered
  <2>5. EventInv'
    BY <1>1, <1>2, <2>1, <2>2, <2>3, EventInvOfOne DEF EventInv
  <2>6. QED
    BY <2>1, <2>3, <2>4, <2>5 DEF Announcement!eventVars, Written, Answered
<1>9. QED
  BY <1>3, <1>4, <1>5, <1>6, <1>7, <1>8

\* Whatever statement fails, an answered change of a tenant or a contract is in
\* the outbox as it was written, and an onboarding and its events are one commit
\* (TenantsService, CustomerContractsService, InternalCustomersRepository.create).
THEOREM EventsAreKept == Spec => ImplementsDomainEvents
<1>1. Init => EventInv /\ Announcement!Init
  <2> SUFFICES ASSUME Init PROVE EventInv /\ Announcement!Init
    OBVIOUS
  <2>1. Outbox = {} /\ Announced = {}
    BY DEF Init, Outbox, Announced
  <2>2. QED
    BY <2>1 DEF Init, EventInv, Announcement!Init
<1>2. Shape /\ EventInv /\ [Next]_vars => EventInv' /\ [Announcement!Next]_(Announcement!eventVars)
  <2> SUFFICES ASSUME Shape, EventInv, [Next]_vars
               PROVE  EventInv' /\ [Announcement!Next]_(Announcement!eventVars)
    OBVIOUS
  <2>1. CASE UNCHANGED vars
    BY <2>1 DEF vars, locals, logs, EventInv, Outbox, Announced, Announcement!eventVars
  <2>2. CASE SeedProducts
    BY <2>2 DEF SeedProducts, locals, logs, EventInv, Outbox, Announced, Announcement!eventVars
  <2>3. ASSUME NEW r \in Requests, Request(r)
        PROVE  EventInv' /\ [Announcement!Next]_(Announcement!eventVars)
    BY <2>3, AnnouncementStep
  <2>4. QED
    BY <2>1, <2>2, <2>3 DEF Next
<1>3. QED
  BY <1>1, <1>2, ShapeHolds, PTL DEF Spec, ImplementsDomainEvents, Announcement!Spec
-----------------------------------------------------------------------------
MembershipsOf(user) == {m \in Memberships : m.user = user}

\* tenant t is one that the active memberships of the user reach
Within(user, t) ==
  \E m \in {n \in Memberships : n.user = user /\ n.status = "ACTIVE"} : m.scope = "GLOBAL" \/ m.tenant = t

ScopeOf(user) == Resolve(MembershipsOf(user), [c \in CompanyIds |-> << c >>])

LEMMA ScopeReaches ==
  ASSUME NEW user, NEW t, TenantVisible(ScopeOf(user), t)
  PROVE  Within(user, t)
BY DEF TenantVisible, ScopeOf, MembershipsOf, Resolve, GlobalScope, Within

\* a read works with the scope of its caller, and shows what that scope reaches
Shows(r) ==
  /\ op[r].kind = "tenant.list" => \A t \in view[r] : Within(op[r].actor, t)
  /\ op[r].kind = "contract.list" =>
       \A k \in DOMAIN view[r] : k \in Stored(contracts) /\ Within(op[r].actor, contracts[k].tenant)
  /\ op[r].kind = "context" => \A tc \in view[r] : Within(op[r].actor, tc[1])

ReadInv ==
  /\ scope = [r \in Requests |-> scope[r]] /\ view = [r \in Requests |-> view[r]]
  /\ \A r \in Requests :
       /\ pc[r] = "read" => op[r] \in ReadOps /\ scope[r] = ScopeOf(op[r].actor)
       /\ pc[r] = "attach" => op[r].kind = "contract.list"
       /\ pc[r] \in {"attach", "shown"} => Shows(r)

LEMMA ViewsKept ==
  ASSUME ReadInv, Shape, NEW r \in Requests, Request(r)
  PROVE  /\ scope' = [scope EXCEPT ![r] = scope'[r]] /\ view' = [view EXCEPT ![r] = view'[r]]
         /\ ~Read(r) /\ ~AttachProducts(r) => view' = view
<1> USE DEF ReadInv, locals, Proceed, Refuse
<1>1. CASE Begin(r)
  <2>1. view' = view
    BY <1>1 DEF Begin
  <2>2. scope' = [scope EXCEPT ![r] = scope'[r]]
    BY <1>1 DEF Begin
  <2>3. QED
    BY <2>1, <2>2
<1>2. CASE Find(r)
  BY <1>2, FindGoes
<1>3. CASE CheckTenant(r) \/ CheckCompany(r) \/ CheckEmail(r) \/ EnsureTenant(r) \/ ReadContract(r)
  BY <1>3 DEF CheckTenant, CheckCompany, CheckEmail, EnsureTenant, ReadContract
<1>4. CASE CreateTenant(r) \/ UpdateTenant(r) \/ Onboard(r) \/ CreateContract(r) \/ UpdateContract(r)
  BY <1>4, WritesReturn
<1>5. CASE Publish(r) \/ Answer(r) \/ Audit(r) \/ Fail(r)
  BY <1>5 DEF Publish, Answer, Audit, Fail
<1>6. CASE Read(r) \/ AttachProducts(r)
  BY <1>6 DEF Read, AttachProducts
<1>7. QED
  BY <1>1, <1>2, <1>3, <1>4, <1>5, <1>6 DEF Request

\* Which steps lead to a read.
LEMMA ReadsComeFrom ==
  ASSUME Shape, NEW r \in Requests, Request(r), pc'[r] \in {"read", "attach", "shown"}
  PROVE  \/ /\ pc'[r] = "read" /\ op'[r] \in ReadOps
            /\ Begin(r) /\ ~Refuse(r)
         \/ Read(r) \/ AttachProducts(r)
<1> USE DEF Goto, Proceed, Shape, TypeOK
<1>1. CASE Refuse(r)
  BY <1>1 DEF Refuse
<1>2. CASE Begin(r) /\ ~Refuse(r)
  BY <1>2, BeginGoes
<1>3. CASE Find(r) /\ ~Refuse(r)
  BY <1>3, FindGoes
<1>4. CASE (CheckTenant(r) \/ CheckCompany(r) \/ CheckEmail(r) \/ EnsureTenant(r) \/ ReadContract(r)) /\ ~Refuse(r)
  BY <1>4 DEF CheckTenant, CheckCompany, CheckEmail, EnsureTenant, ReadContract
<1>5. CASE CreateTenant(r) \/ UpdateTenant(r) \/ Onboard(r) \/ CreateContract(r) \/ UpdateContract(r)
  BY <1>5, WritesReturn
<1>6. CASE Publish(r) \/ Answer(r) \/ Audit(r)
  BY <1>6, LastSteps
<1>7. CASE Fail(r)
  BY <1>7 DEF Fail
<1>8. QED
  BY <1>1, <1>2, <1>3, <1>4, <1>5, <1>6, <1>7 DEF Request

LEMMA ReadStep ==
  ASSUME Shape, ReadInv, NEW r \in Requests, Request(r)
  PROVE  ReadInv'
<1>1. scope' = [q \in Requests |-> scope'[q]] /\ view' = [q \in Requests |-> view'[q]]
      /\ \A q \in Requests : q # r => scope'[q] = scope[q] /\ view'[q] = view[q]
  BY ViewsKept DEF ReadInv
<1>2. Kept
  BY RowsAreKept
<1>3. SUFFICES ASSUME NEW q \in Requests
      PROVE  /\ pc'[q] = "read" => op'[q] \in ReadOps /\ scope'[q] = ScopeOf(op'[q].actor)
             /\ pc'[q] = "attach" => op'[q].kind = "contract.list"
             /\ pc'[q] \in {"attach", "shown"} => Shows(q)'
  BY <1>1 DEF ReadInv
<1>4. CASE q # r
  <2>1. pc'[q] = pc[q] /\ op'[q] = op[q] /\ scope'[q] = scope[q] /\ view'[q] = view[q]
    BY <1>1, <1>4, OthersKept
  <2>2. QED
    BY <1>2, <2>1 DEF ReadInv, Shows, Kept
<1>5. CASE q = r /\ pc'[r] \notin {"read", "attach", "shown"}
  BY <1>5
<1>6. CASE q = r /\ Begin(r) /\ ~Refuse(r) /\ pc'[r] = "read"
  <2>1. \E o \in Bodies :
          /\ op' = [op EXCEPT ![r] = o]
          /\ scope' = [scope EXCEPT ![r] = Resolve({m \in Memberships : m.user = o.actor}, [c \in CompanyIds |-> << c >>])]
    BY <1>6 DEF Begin
  <2>2. scope'[r] = ScopeOf(op'[r].actor)
    BY <2>1 DEF ReadInv, Shape, TypeOK, ScopeOf, MembershipsOf
  <2>3. op'[r] \in ReadOps
    <3>1. ~Read(r) /\ ~AttachProducts(r)
      BY <1>6 DEF Begin, Read, AttachProducts
    <3>2. QED
      BY <1>6, <3>1, ReadsComeFrom
  <2>4. QED
    BY <1>6, <2>2, <2>3
<1>7. CASE q = r /\ Read(r)
  <2> DEFINE s == scope[r]
  <2>1. /\ op'[r] = op[r] /\ contracts' = contracts
        /\ op[r] \in ReadOps /\ s = ScopeOf(op[r].actor)
        /\ pc'[r] = IF op[r].kind = "contract.list" THEN "attach" ELSE "shown"
        /\ view'[r] = CASE op[r].kind = "tenant.list" -> FindTenants(s)
                        [] op[r].kind = "contract.list" ->
                             [k \in FindContracts(s) |-> [contract |-> contracts[k], codes |-> {}]]
                        [] op[r].kind = "context" -> EnabledProducts(s)
    BY <1>7 DEF Read, Goto, tables, ReadInv, Shape, TypeOK
  <2> HIDE DEF s
  <2>2. \A t \in FindTenants(s) : Within(op[r].actor, t)
    BY <2>1, ScopeReaches DEF FindTenants
  <2>3. \A k \in FindContracts(s) : k \in Stored(contracts) /\ Within(op[r].actor, contracts[k].tenant)
    BY <2>1, ScopeReaches DEF FindContracts
  <2>4. \A tc \in EnabledProducts(s) : Within(op[r].actor, tc[1])
    BY <2>3 DEF EnabledProducts
  <2>5. Shows(r)'
    <3>1. CASE op[r].kind = "tenant.list"
      BY <2>1, <2>2, <3>1 DEF Shows
    <3>2. CASE op[r].kind = "contract.list"
      <4>1. DOMAIN view'[r] = FindContracts(s)
        BY <2>1, <3>2
      <4>2. QED
        BY <2>1, <2>3, <3>2, <4>1 DEF Shows
    <3>3. CASE op[r].kind = "context"
      BY <2>1, <2>4, <3>3 DEF Shows
    <3>4. QED
      BY <2>1, <3>1, <3>2, <3>3, Kinds
  <2>6. QED
    BY <1>7, <2>1, <2>5
<1>8. CASE q = r /\ AttachProducts(r)
  <2>1. /\ op'[r] = op[r] /\ contracts' = contracts /\ pc[r] = "attach" /\ pc'[r] = "shown"
        /\ DOMAIN view'[r] = DOMAIN view[r]
    BY <1>8 DEF AttachProducts, Goto, tables, ReadInv, Shape, TypeOK
  <2>2. op[r].kind = "contract.list" /\ Shows(r)
    BY <2>1 DEF ReadInv
  <2>3. QED
    BY <1>8, <2>1, <2>2 DEF Shows
<1>9. QED
  BY <1>4, <1>5, <1>6, <1>7, <1>8, ReadsComeFrom

\* What a listing of tenants or contracts shows, and the products of a session,
\* belong to tenants of the caller's active memberships (the scoped findAll of
\* both repositories, AuthRepository.getUserContext).
THEOREM ReadsStay == Spec => []ReadsStayInTenant
<1>1. Init => ReadInv
  <2> SUFFICES ASSUME Init PROVE ReadInv
    OBVIOUS
  <2>1. scope = [r \in Requests |-> scope[r]] /\ view = [r \in Requests |-> view[r]]
    BY DEF Init
  <2>2. QED
    BY <2>1 DEF Init, ReadInv
<1>2. Shape /\ ReadInv /\ [Next]_vars => ReadInv'
  <2> SUFFICES ASSUME Shape, ReadInv, [Next]_vars PROVE ReadInv'
    OBVIOUS
  <2>1. CASE UNCHANGED vars
    BY <2>1 DEF vars, tables, locals, ReadInv, Shows, Stored
  <2>2. CASE SeedProducts
    BY <2>2 DEF SeedProducts, locals, ReadInv, Shows, Stored
  <2>3. ASSUME NEW r \in Requests, Request(r)
        PROVE  ReadInv'
    BY <2>3, ReadStep
  <2>4. QED
    BY <2>1, <2>2, <2>3 DEF Next
<1>3. ReadInv => ReadsStayInTenant
  BY DEF ReadInv, Shows, Within, ReadsStayInTenant
<1>4. QED
  BY <1>1, <1>2, <1>3, ShapeHolds, PTL DEF Spec
=============================================================================
