------------------------------ MODULE Customers ------------------------------
(***************************************************************************)
(* Tenants, the onboarding of customers, their contracts and the products  *)
(* that the contracts enable.  Every statement runs by itself; onboarding  *)
(* and the writes of contracts are transactions, READ COMMITTED, that read *)
(* before they write.  Memberships of the acting users are given.          *)
(***************************************************************************)
EXTENDS AccessScope, ChileanRut, Slugs

CONSTANTS
  Requests,                         \* requests, one operation each
  TenantIds, CompanyIds, ContractIds,
  Users, Memberships,               \* the acting users and their memberships
  InitialTenants, InitialCompanies, InitialContracts, \* what earlier onboardings left
  Emails,                           \* addresses, in lower case
  Texts, RutInputs,                 \* what clients type as a name or a tax number
  Codes,                            \* product codes
  Days,                             \* days, in order
  Bodies,                           \* what clients ask for
  NoRow, NoText, NoDay, Keep

\* what the validators let through as a name, a slug and a tax number
Names == {text \in Texts : Len(text) > 1}
SlugTexts == {text \in Names : IsSlug(text)}
ValidInputs == {value \in RutInputs : IsValid(value)}

\* rows as they are stored: slugs and tax numbers are normalised, and no tenant
\* is without a slug
TenantRow == [name : Names, slug : {Slugify(text) : text \in Names} \ {<< >>}]
CompanyRow == [tenant : TenantIds, rut : {Normalize(value) : value \in ValidInputs}]
ContractRow == [tenant : TenantIds, status : {"DRAFT", "ACTIVE"}, start : Days, end : Days \cup {NoDay}]

\* the validated bodies; a target is an id, whether it is there or not
TenantCreateOps == [kind : {"tenant.create"}, actor : Users, name : Names, slug : SlugTexts \cup {NoText}]
TenantUpdateOps == [kind : {"tenant.update"}, actor : Users, target : TenantIds, name : Names \cup {Keep},
                    slug : SlugTexts \cup {Keep}]
OnboardOps == [kind : {"customer.onboard"}, actor : Users, name : Names, slug : SlugTexts \cup {NoText},
               rut : ValidInputs, email : Emails, start : Days, end : Days \cup {NoDay}, codes : SUBSET Codes]
ContractCreateOps == [kind : {"contract.create"}, actor : Users, tenant : TenantIds, status : {"DRAFT", "ACTIVE"},
                      start : Days, end : Days \cup {NoDay}, codes : SUBSET Codes]
ContractUpdateOps == [kind : {"contract.update"}, actor : Users, target : ContractIds,
                      status : {"DRAFT", "ACTIVE", Keep}, start : Days \cup {Keep}, end : Days \cup {NoDay, Keep},
                      codes : SUBSET Codes \cup {Keep}]
ReadOps == [kind : {"tenant.list", "contract.list", "context"}, actor : Users]

DatesOrdered(start, end) == end = NoDay \/ start <= end

ASSUME TextsAssumption == \A text \in Texts : text \in Seq(TextChars)
\* ids are uuids
ASSUME IdsAssumption == TenantIds \cap ContractIds = {}
ASSUME DaysAssumption == Days \subseteq Nat /\ NoDay \notin Days
ASSUME NullAssumption == NoRow \notin TenantRow /\ NoRow \notin CompanyRow /\ NoRow \notin ContractRow
ASSUME BodiesAssumption ==
  Bodies \subseteq TenantCreateOps \cup TenantUpdateOps \cup OnboardOps \cup ContractCreateOps
                   \cup ContractUpdateOps \cup ReadOps
ASSUME InitialAssumption ==
  /\ InitialTenants \in [TenantIds -> TenantRow \cup {NoRow}]
  /\ InitialCompanies \in [CompanyIds -> CompanyRow \cup {NoRow}]
  /\ InitialContracts \in [ContractIds -> ContractRow \cup {NoRow}]
  /\ \A k \in ContractIds : InitialContracts[k] # NoRow =>
       DatesOrdered(InitialContracts[k].start, InitialContracts[k].end)

VARIABLES
  tenants, companies, contracts,  \* tables, by id
  contractProducts,               \* the codes of a contract
  products,                       \* the codes of the catalogue
  emails,                         \* addresses of users
  pc,                             \* the statement a request runs next
  op,                             \* what a request asks for
  scope,                          \* the effective scope it resolved
  current,                        \* the contract an update read
  id,                             \* the row it writes
  out,                            \* the row it returns
  view,                           \* what a read showed
  events,                         \* events in the outbox, in order of insertion
  audits,                         \* requests with an audit record
  looked,                         \* companies whose tax numbers an onboarding looked at
  stale,                          \* contracts updated after a read that was out of date
  overlapped                      \* rows with an event that is missing or may be out of order

tables == << tenants, companies, contracts, contractProducts, products, emails >>
locals == << op, scope, current, id, out, view >>
logs == << events, audits, looked, stale, overlapped >>
vars == << tables, pc, locals, logs >>

NoOp == [kind |-> "none"]
Nothing == << >>

Stored(table) == {x \in DOMAIN table : table[x] # NoRow}
Fresh(table) == {x \in DOMAIN table : table[x] = NoRow}

Init ==
  /\ tenants = InitialTenants
  /\ companies = InitialCompanies
  /\ contracts = InitialContracts
  /\ contractProducts = [k \in ContractIds |-> {}]
  /\ products = {}
  /\ emails = {}
  /\ pc = [r \in Requests |-> "idle"]
  /\ op = [r \in Requests |-> NoOp]
  /\ scope = [r \in Requests |-> GlobalScope]
  /\ current = [r \in Requests |-> NoRow]
  /\ id = [r \in Requests |-> Nothing]
  /\ out = [r \in Requests |-> Nothing]
  /\ view = [r \in Requests |-> Nothing]
  /\ events = << >>
  /\ audits = {}
  /\ looked = [r \in Requests |-> {}]
  /\ stale = {}
  /\ overlapped = {}
-----------------------------------------------------------------------------
Goto(r, step) == pc' = [pc EXCEPT ![r] = step]

Proceed(r, step) == Goto(r, step) /\ UNCHANGED << tables, locals, logs >>

\* an exception before any write
Refuse(r) ==
  /\ Goto(r, "refused")
  /\ op' = [op EXCEPT ![r] = NoOp]
  /\ scope' = [scope EXCEPT ![r] = GlobalScope]
  /\ current' = [current EXCEPT ![r] = NoRow]
  /\ UNCHANGED << tables, id, out, view, logs >>

SlugOf(name, slug) == Slugify(IF slug = NoText THEN name ELSE slug)

\* what the services decide from the body and the scope alone
ScopeAllows(o, s) ==
  CASE o.kind = "tenant.create" -> s.isGlobal /\ SlugOf(o.name, o.slug) # << >>
    [] o.kind = "customer.onboard" ->
         s.isGlobal /\ SlugOf(o.name, o.slug) # << >> /\ DatesOrdered(o.start, o.end)
    [] o.kind = "contract.create" -> CanAccessTenant(s, o.tenant)
    [] OTHER -> TRUE

First(kind) ==
  CASE kind \in {"tenant.create", "customer.onboard"} -> "checkTenant"
    [] kind = "contract.create" -> "ensureTenant"
    [] kind \in {"tenant.update", "contract.update"} -> "find"
    [] kind \in {"tenant.list", "contract.list", "context"} -> "read"

Begin(r) ==
  /\ pc[r] = "idle"
  /\ \E o \in Bodies :
       LET s == Resolve({m \in Memberships : m.user = o.actor}, [c \in CompanyIds |-> << c >>]) IN
       IF ScopeAllows(o, s)
         THEN /\ op' = [op EXCEPT ![r] = o]
              /\ scope' = [scope EXCEPT ![r] = s]
              /\ Goto(r, First(o.kind))
              /\ UNCHANGED << tables, current, id, out, view, logs >>
         ELSE Refuse(r)

\* (variant: a scope without tenants is not filtered)
TenantVisibleUnfiltered(s, t) == s.isGlobal \/ s.tenantIds = {} \/ t \in s.tenantIds

\* the scoped findOne of tenants and of contracts, for a scope without tenants too
TenantVisible(s, t) == s.isGlobal \/ t \in s.tenantIds
FindTenants(s) == {t \in Stored(tenants) : TenantVisible(s, t)}
FindContracts(s) == {k \in Stored(contracts) : TenantVisible(s, contracts[k].tenant)}

Find(r) ==
  /\ pc[r] = "find"
  /\ CASE op[r].kind = "tenant.update" ->
            IF op[r].target \in FindTenants(scope[r]) THEN Proceed(r, "updateTenant") ELSE Refuse(r)
       [] op[r].kind = "contract.update" ->
            IF op[r].target \in FindContracts(scope[r]) THEN Proceed(r, "readContract") ELSE Refuse(r)

NameOrSlugTaken(name, slug, but) ==
  \E t \in Stored(tenants) \ but : tenants[t].name = name \/ tenants[t].slug = slug

CheckTenant(r) ==
  /\ pc[r] = "checkTenant"
  /\ IF NameOrSlugTaken(op[r].name, SlugOf(op[r].name, op[r].slug), {})
       THEN Refuse(r)
       ELSE Proceed(r, IF op[r].kind = "tenant.create" THEN "createTenant" ELSE "checkCompany")

\* every write of a row: what is returned, and where the request goes on
Returns(r, row, key, step) ==
  /\ id' = [id EXCEPT ![r] = key]
  /\ out' = [out EXCEPT ![r] = row]
  /\ Goto(r, step)
  /\ UNCHANGED << op, scope, current, view, audits >>

\* the change of row x is announced after those it may overtake
Late(x) == IF \E q \in Requests : pc[q] = "publish" /\ id[q] = x THEN overlapped \cup {x} ELSE overlapped

\* the unique indexes on name and slug stand behind the check
CreateTenant(r) ==
  /\ pc[r] = "createTenant"
  /\ LET row == [name |-> op[r].name, slug |-> SlugOf(op[r].name, op[r].slug)] IN
       /\ ~NameOrSlugTaken(row.name, row.slug, {})
       /\ \E t \in Fresh(tenants) :
            /\ tenants' = [tenants EXCEPT ![t] = row]
            /\ Returns(r, row, t, "publish")
  /\ UNCHANGED << companies, contracts, contractProducts, products, emails, events, looked, stale, overlapped >>

\* a slug that is sent has passed its validator and is normalised again
UpdateTenant(r) ==
  /\ pc[r] = "updateTenant"
  /\ LET t == op[r].target
         row == [name |-> IF op[r].name = Keep THEN tenants[t].name ELSE op[r].name,
                 slug |-> IF op[r].slug = Keep THEN tenants[t].slug ELSE Slugify(op[r].slug)]
     IN /\ ~NameOrSlugTaken(row.name, row.slug, {t})
        /\ tenants' = [tenants EXCEPT ![t] = row]
        /\ overlapped' = Late(t)
        /\ Returns(r, row, t, "publish")
  /\ UNCHANGED << companies, contracts, contractProducts, products, emails, events, looked, stale >>
-----------------------------------------------------------------------------
\* InternalCustomersRepository.create, one transaction: it reads what others
\* have committed, and writes at the end

\* (variant: the tax number is looked up as typed)
CheckCompanyAsTyped(r) ==
  /\ pc[r] = "checkCompany"
  /\ IF \E c \in Stored(companies) : companies[c].rut.body = Front(op[r].rut)
       THEN Refuse(r)
       ELSE /\ Goto(r, "checkEmail")
            /\ looked' = [looked EXCEPT ![r] = Stored(companies)]
            /\ UNCHANGED << tables, locals, events, audits, stale, overlapped >>

CheckCompany(r) ==
  /\ pc[r] = "checkCompany"
  /\ IF \E c \in Stored(companies) : companies[c].rut = Normalize(op[r].rut)
       THEN Refuse(r)
       ELSE /\ Goto(r, "checkEmail")
            /\ looked' = [looked EXCEPT ![r] = Stored(companies)]
            /\ UNCHANGED << tables, locals, events, audits, stale, overlapped >>

CheckEmail(r) ==
  /\ pc[r] = "checkEmail"
  /\ IF op[r].email \in emails THEN Refuse(r) ELSE Proceed(r, "onboard")

\* (variant: unknown codes are stored)
InCatalogUnchecked(codes) == TRUE

\* assignContractProducts and syncContractProducts: the codes of the catalogue, or nothing
InCatalog(codes) == codes \subseteq products

\* tenant, owner company, contract, products, administrator and their events
Onboard(r) ==
  /\ pc[r] = "onboard"
  /\ LET o == op[r]
         tenant == [name |-> o.name, slug |-> SlugOf(o.name, o.slug)]
     IN /\ ~NameOrSlugTaken(tenant.name, tenant.slug, {})
        /\ o.email \notin emails
        /\ InCatalog(o.codes)
        /\ \E t \in Fresh(tenants), c \in Fresh(companies), k \in Fresh(contracts) :
             LET contract == [tenant |-> t, status |-> "ACTIVE", start |-> o.start, end |-> o.end] IN
             /\ tenants' = [tenants EXCEPT ![t] = tenant]
             /\ companies' = [companies EXCEPT ![c] = [tenant |-> t, rut |-> Normalize(o.rut)]]
             /\ contracts' = [contracts EXCEPT ![k] = contract]
             /\ contractProducts' = [contractProducts EXCEPT ![k] = o.codes]
             /\ LET returned == [contract |-> contract, codes |-> o.codes] IN
                  /\ events' = events \o << [request |-> r, about |-> t, row |-> tenant],
                                            [request |-> r, about |-> k, row |-> returned] >>
                  /\ Returns(r, returned, c, "answer")
        /\ emails' = emails \cup {o.email}
  /\ UNCHANGED << products, looked, stale, overlapped >>
-----------------------------------------------------------------------------
\* contracts: a write is a transaction whose first statement creates or locks
\* the row that every other writer of the contract and its products starts
\* with, so that it is one step for all of them

EnsureTenant(r) ==
  /\ pc[r] = "ensureTenant"
  /\ IF op[r].tenant \in Stored(tenants) /\ DatesOrdered(op[r].start, op[r].end)
       THEN Proceed(r, "createContract")
       ELSE Refuse(r)

CreateContract(r) ==
  /\ pc[r] = "createContract"
  /\ LET o == op[r]
         row == [tenant |-> o.tenant, status |-> o.status, start |-> o.start, end |-> o.end]
     IN /\ InCatalog(o.codes)
        /\ \E k \in Fresh(contracts) :
             /\ contracts' = [contracts EXCEPT ![k] = row]
             /\ contractProducts' = [contractProducts EXCEPT ![k] = o.codes]
             /\ Returns(r, [contract |-> row, codes |-> o.codes], k, "publish")
  /\ UNCHANGED << tenants, companies, products, emails, events, looked, stale, overlapped >>

Patched(new, old) == IF new = Keep THEN old ELSE new

\* (variant: the dates are not checked)
ReadContractUnchecked(r) ==
  /\ pc[r] = "readContract"
  /\ current' = [current EXCEPT ![r] = contracts[op[r].target]]
  /\ Goto(r, "updateContract")
  /\ UNCHANGED << tables, op, scope, id, out, view, logs >>

\* update reads the contract and checks the dates it will have: a null end is
\* checked as the old one
ReadContract(r) ==
  /\ pc[r] = "readContract"
  /\ LET o == op[r]
         row == contracts[o.target]
     IN IF DatesOrdered(Patched(o.start, row.start), IF o.end \in {Keep, NoDay} THEN row.end ELSE o.end)
          THEN /\ current' = [current EXCEPT ![r] = row]
               /\ Goto(r, "updateContract")
               /\ UNCHANGED << tables, op, scope, id, out, view, logs >>
          ELSE Refuse(r)

UpdateContract(r) ==
  /\ pc[r] = "updateContract"
  /\ LET o == op[r]
         k == o.target
         row == [contracts[k] EXCEPT !.status = Patched(o.status, @), !.start = Patched(o.start, @),
                                     !.end = Patched(o.end, @)]
         codes == Patched(o.codes, contractProducts[k])
     IN /\ o.codes # Keep => InCatalog(o.codes)
        /\ contracts' = [contracts EXCEPT ![k] = row]
        /\ contractProducts' = [contractProducts EXCEPT ![k] = codes]
        /\ stale' = IF contracts[k] # current[r] THEN stale \cup {k} ELSE stale
        /\ overlapped' = Late(k)
        /\ Returns(r, [contract |-> row, codes |-> codes], k, "publish")
  /\ UNCHANGED << tenants, companies, products, emails, events, looked >>

\* (variant: the event carries the row as it was read)
PublishAsRead(r) ==
  /\ pc[r] = "publish"
  /\ events' = Append(events, [request |-> r, about |-> id[r],
                               row |-> IF current[r] = NoRow THEN out[r] ELSE [out[r] EXCEPT !.contract = current[r]]])
  /\ Goto(r, "answer")
  /\ UNCHANGED << tables, locals, audits, looked, stale, overlapped >>

\* tenant.created, tenant.updated, customer_contract.created or .updated
Publish(r) ==
  /\ pc[r] = "publish"
  /\ events' = Append(events, [request |-> r, about |-> id[r], row |-> out[r]])
  /\ Goto(r, "answer")
  /\ UNCHANGED << tables, locals, audits, looked, stale, overlapped >>

\* (variant: the event is not waited for)
AnswerEarly(r) == pc[r] \in {"publish", "answer"} /\ Proceed(r, "answered")

Answer(r) == pc[r] = "answer" /\ Proceed(r, "answered")

\* AuditInterceptor records after the answer, without being waited for
Audit(r) ==
  /\ pc[r] = "answered"
  /\ audits' = audits \cup {r}
  /\ Goto(r, "audited")
  /\ UNCHANGED << tables, locals, events, looked, stale, overlapped >>

\* a statement fails (the connection, a unique index, a product that is not in
\* the catalogue) or the process dies
Fail(r) ==
  /\ pc[r] \in {"createTenant", "updateTenant", "onboard", "createContract", "updateContract", "publish"}
  /\ overlapped' = IF pc[r] = "publish" THEN overlapped \cup {id[r]} ELSE overlapped
  /\ Goto(r, "failed")
  /\ UNCHANGED << tables, locals, events, audits, looked, stale >>
-----------------------------------------------------------------------------
\* reads

\* the products of each tenant; the dates of a contract do not matter
EnabledProducts(s) ==
  {tc \in TenantIds \X products :
     \E k \in FindContracts(s) : /\ contracts[k].tenant = tc[1] /\ contracts[k].status = "ACTIVE"
                                 /\ tc[2] \in contractProducts[k]}

Read(r) ==
  /\ pc[r] = "read"
  /\ view' = [view EXCEPT ![r] =
       CASE op[r].kind = "tenant.list" -> FindTenants(scope[r])
         [] op[r].kind = "contract.list" -> [k \in FindContracts(scope[r]) |-> [contract |-> contracts[k], codes |-> {}]]
         [] op[r].kind = "context" -> EnabledProducts(scope[r])]
  /\ Goto(r, IF op[r].kind = "contract.list" THEN "attach" ELSE "shown")
  /\ UNCHANGED << tables, op, scope, current, id, out, logs >>

\* the products of the listed contracts, by a second statement
AttachProducts(r) ==
  /\ pc[r] = "attach"
  /\ view' = [view EXCEPT ![r] = [k \in DOMAIN view[r] |-> [view[r][k] EXCEPT !.codes = contractProducts[k]]]]
  /\ Goto(r, "shown")
  /\ UNCHANGED << tables, op, scope, current, id, out, logs >>

\* products.seed inserts the codes that are missing
SeedProducts ==
  /\ products' = Codes
  /\ UNCHANGED << tenants, companies, contracts, contractProducts, emails, pc, locals, logs >>

Request(r) ==
  \/ Begin(r) \/ Find(r) \/ CheckTenant(r) \/ CreateTenant(r) \/ UpdateTenant(r)
  \/ CheckCompany(r) \/ CheckEmail(r) \/ Onboard(r)
  \/ EnsureTenant(r) \/ CreateContract(r) \/ ReadContract(r) \/ UpdateContract(r)
  \/ Publish(r) \/ Answer(r) \/ Audit(r) \/ Fail(r) \/ Read(r) \/ AttachProducts(r)

Next == SeedProducts \/ \E r \in Requests : Request(r)

Spec == Init /\ [][Next]_vars
-----------------------------------------------------------------------------
Steps == {"idle", "refused", "find", "checkTenant", "createTenant", "updateTenant", "checkCompany", "checkEmail",
          "onboard", "ensureTenant", "createContract", "readContract", "updateContract", "publish", "answer",
          "answered", "audited", "failed", "read", "attach", "shown"}

\* what a write returns, of a tenant or of a contract
Returned == TenantRow \cup [contract : ContractRow, codes : SUBSET Codes]
EventRow == [request : Requests, about : TenantIds \cup ContractIds, row : Returned]

TypeOK ==
  /\ tenants \in [TenantIds -> TenantRow \cup {NoRow}]
  /\ companies \in [CompanyIds -> CompanyRow \cup {NoRow}]
  /\ contracts \in [ContractIds -> ContractRow \cup {NoRow}]
  /\ contractProducts \in [ContractIds -> SUBSET products]
  /\ products \subseteq Codes
  /\ emails \subseteq Emails
  /\ pc \in [Requests -> Steps]
  /\ op \in [Requests -> Bodies \cup {NoOp}]
  /\ current \in [Requests -> ContractRow \cup {NoRow}]
  /\ id \in [Requests -> TenantIds \cup CompanyIds \cup ContractIds \cup {Nothing}]
  /\ out \in [Requests -> Returned \cup {Nothing}]
  /\ events \in Seq(EventRow)
  /\ audits \subseteq Requests
  /\ looked \in [Requests -> SUBSET CompanyIds]
  /\ stale \subseteq ContractIds

\* A contract never ends before it starts, unless an update was checked against
\* a row that another update had already replaced (customer-contracts.repository.ts:131).
DatesInOrder ==
  \A k \in Stored(contracts) \ stale : DatesOrdered(contracts[k].start, contracts[k].end)

\* Onboarding looks a tax number up in all tenants although the index guards one
\* tenant: an owner's number is new among all companies that were there when its
\* onboarding looked (internal-customers.repository.ts:52); owners that share a
\* number were onboarded at the same time.
OnboardedRutIsNew ==
  \A r \in Requests : op[r].kind = "customer.onboard" /\ out[r] # Nothing =>
    \A c \in looked[r] : companies[c].rut # companies[id[r]].rut

\* the current state of a tenant or a contract, as its events carry it
Current(x) ==
  IF x \in TenantIds THEN tenants[x] ELSE [contract |-> contracts[x], codes |-> contractProducts[x]]

\* the i-th event is the last one about x
LatestAbout(x, i) ==
  i \in DOMAIN events /\ events[i].about = x /\ \A j \in DOMAIN events : j > i => events[j].about # x

\* What a consumer knows of a tenant or a contract from its last event is what
\* the tables say, once the requests that changed it have published, unless one
\* of them died before or two of them overlapped (the events are inserted after
\* the change, by a statement of their own: customer-contracts.service.ts:50).
LastEventIsCurrent ==
  \A x \in (Stored(tenants) \cup Stored(contracts)) \ overlapped :
    (\A r \in Requests : pc[r] = "publish" => id[r] # x) =>
      \A i \in DOMAIN events : LatestAbout(x, i) => events[i].row = Current(x)

\* Every tenant has a slug, of the form that the validator of slugs asks of those
\* that clients send.  Whatever text it is made from, a slug is letters, digits
\* and single dashes between them, or nothing, and the slug of a slug is itself.
\* (Texts are looked at once, before any request; slugify.ts:1.)
SlugsAreStable ==
  /\ \A t \in Stored(tenants) : IsSlug(tenants[t].slug)
  /\ (\A r \in Requests : pc[r] = "idle") => \A text \in Texts :
       Slugify(text) # << >> => IsSlug(Slugify(text)) /\ Slugify(Slugify(text)) = Slugify(text)

\* A listing of tenants or contracts, and the products that a session enables,
\* stay within the tenants of the caller's active memberships.
ReadsStayInTenant ==
  \A r \in Requests : pc[r] = "shown" =>
    LET mine == {m \in Memberships : m.user = op[r].actor /\ m.status = "ACTIVE"}
        within(t) == \E m \in mine : m.scope = "GLOBAL" \/ m.tenant = t
    IN /\ op[r].kind = "tenant.list" => \A t \in view[r] : within(t)
       /\ op[r].kind = "contract.list" => \A k \in DOMAIN view[r] : within(contracts[k].tenant)
       /\ op[r].kind = "context" => \A tc \in view[r] : within(tc[1])

\* a request has announced its change when an event of it carries what it returns
Announced ==
  {r \in Requests : out[r] # Nothing /\ \E i \in DOMAIN events : events[i].request = r /\ events[i].row = out[r]}

Announcement == INSTANCE DomainEvents WITH
  written <- {r \in Requests : out[r] # Nothing},
  announced <- Announced,
  answered <- {r \in Requests : pc[r] \in {"answered", "audited"}},
  audited <- audits

\* Tenants, contracts and onboarding keep the promises of DomainEvents: what is
\* answered is in the outbox as it was written, whatever fails.
ImplementsDomainEvents == Announcement!Spec
=============================================================================
