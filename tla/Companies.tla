------------------------------ MODULE Companies ------------------------------
(***************************************************************************)
(* CompaniesService and CompaniesRepository: the tree of companies of each *)
(* tenant, which is stored twice, as parent pointers and as paths.  Every  *)
(* request runs its statements one by one, without a transaction, and may  *)
(* stop before any of them.  Memberships are given: they are never changed *)
(* or removed.                                                             *)
(***************************************************************************)
EXTENDS AccessScope, ChileanRut

CONSTANTS
  Requests,         \* requests, one operation each
  CompanyIds,       \* ids that a company may get
  InitialCompanies, \* the table before these requests: owners that onboarding
                    \* created and companies that earlier requests settled
  Tenants, Users,
  Memberships,      \* rows of the memberships table
  RutInputs,        \* what clients type as a tax number
  Bodies,           \* what clients ask for
  Pending,          \* the one step of the path '/pending'
  NoRow,            \* no company
  Keep              \* a field that a request leaves out

Types == {"OWNER", "CONTRACTOR", "SUBCONTRACTOR", "EST"}

ValidInputs == {value \in RutInputs : IsValid(value)}

\* tax numbers as they are stored
Ruts == {Normalize(value) : value \in ValidInputs}

Row == [tenant : Tenants, rut : Ruts, type : Types,
        parent : CompanyIds \cup {NoCompany}, path : Seq(CompanyIds \cup {Pending}), depth : Nat]

AllowedChildren == [OWNER |-> {"CONTRACTOR", "EST"}, CONTRACTOR |-> {"SUBCONTRACTOR", "EST"},
                    SUBCONTRACTOR |-> {"EST"}, EST |-> {}]

CanCreateChildCompany(parentType, type) == type \in AllowedChildren[parentType]

\* the paths of a table form one tree per tenant: a settled path ends in its
\* company, every step of it is a company of the same tenant whose own path
\* is the path up to that step, and depth counts the steps above
PathsFormTrees(table) ==
  \A c \in CompanyIds :
    LET path == table[c].path IN
    table[c] # NoRow /\ path[1] # Pending =>
      /\ Len(path) = table[c].depth + 1
      /\ path[Len(path)] = c
      /\ \A i \in 1 .. Len(path) :
           /\ path[i] \in CompanyIds /\ table[path[i]] # NoRow
           /\ table[path[i]].tenant = table[c].tenant
           /\ table[path[i]].path = SubSeq(path, 1, i)

\* owners have no parent; every other company hangs, within its tenant, below
\* a company whose type allows it, unless an update moved one of the two
TypesAllowed(table, changed) ==
  \A c \in CompanyIds \ changed :
    table[c] # NoRow /\ table[c].type # "OWNER" =>
      LET p == table[c].parent IN
      /\ p \in CompanyIds
      /\ table[p] # NoRow
      /\ table[p].tenant = table[c].tenant
      /\ p \notin changed => CanCreateChildCompany(table[p].type, table[c].type)

\* tax numbers are stored in one spelling, with their verifier, once a tenant
RutsAreKeys(table) ==
  \A c \in CompanyIds : table[c] # NoRow =>
    LET rut == table[c].rut IN
    /\ \A i \in DOMAIN rut.body : rut.body[i] \in Digit
    /\ rut.body = WithoutLeadingZeros(rut.body)
    /\ CalculateVerifier(rut.body) = rut.verifier
    /\ \A d \in CompanyIds \ {c} :
         table[d] # NoRow /\ table[d].tenant = table[c].tenant => table[d].rut # rut

NoOp == [kind |-> "none"]

\* the validated bodies of POST and PATCH, and the listing; a parent id that
\* no company has is found by no statement, as NoCompany
CreateOps == [kind : {"create"}, user : Users, tenant : Tenants, rut : ValidInputs, type : Types,
              parent : CompanyIds \cup {NoCompany}]
UpdateOps == [kind : {"update"}, user : Users, target : CompanyIds, rut : ValidInputs \cup {Keep},
              type : Types \cup {Keep}, parent : CompanyIds \cup {NoCompany, Keep}]
ListOps == [kind : {"list"}, user : Users]

\* what clients type are texts
ASSUME InputAssumption == \A value \in RutInputs : value \in Seq(Char)
ASSUME BodiesAssumption == Bodies \subseteq CreateOps \cup UpdateOps \cup ListOps
ASSUME NullAssumption ==
  NoRow \notin Row /\ Pending \notin CompanyIds /\ NoCompany \notin CompanyIds
ASSUME InitialAssumption ==
  /\ InitialCompanies \in [CompanyIds -> Row \cup {NoRow}]
  /\ \A c \in CompanyIds : InitialCompanies[c] # NoRow =>
       InitialCompanies[c].path # << >> /\ InitialCompanies[c].path[1] # Pending
  /\ PathsFormTrees(InitialCompanies)
  /\ TypesAllowed(InitialCompanies, {})
  /\ RutsAreKeys(InitialCompanies)

VARIABLES
  companies,  \* the companies table, by id
  pc,         \* the statement a request runs next
  op,         \* what a request asks for
  scope,      \* the effective scope it resolved
  id,         \* the company it creates or updates
  parent,     \* the parent row it read
  out,        \* the row it returns, as its last statement left it
  result,     \* the companies it listed
  events,     \* company events in the outbox
  audits,     \* requests with an audit record
  moved       \* companies whose type or parent was ever updated

vars == << companies, pc, op, scope, id, parent, out, result, events, audits, moved >>
locals == << op, scope, id, parent, out, result >>

Stored == {c \in CompanyIds : companies[c] # NoRow}

PathsOf == [c \in CompanyIds |-> IF companies[c] = NoRow THEN << >> ELSE companies[c].path]

Init ==
  /\ companies = InitialCompanies
  /\ pc = [r \in Requests |-> "idle"]
  /\ op = [r \in Requests |-> NoOp]
  /\ scope = [r \in Requests |-> GlobalScope]
  /\ id = [r \in Requests |-> NoCompany]
  /\ parent = [r \in Requests |-> NoRow]
  /\ out = [r \in Requests |-> NoRow]
  /\ result = [r \in Requests |-> {}]
  /\ events = {}
  /\ audits = {}
  /\ moved = {}
-----------------------------------------------------------------------------
\* a row the scope does not reach is not found
FindOne(s, c) == c \in Stored /\ CompanyVisible(s, companies[c].tenant, companies[c].path)

FindAll(s) == {c \in Stored : FindOne(s, c)}

Goto(r, step) == pc' = [pc EXCEPT ![r] = step]

\* an exception before any write
Refuse(r) ==
  /\ Goto(r, "refused")
  /\ op' = [op EXCEPT ![r] = NoOp]
  /\ scope' = [scope EXCEPT ![r] = GlobalScope]
  /\ parent' = [parent EXCEPT ![r] = NoRow]
  /\ UNCHANGED << companies, id, out, result, events, audits, moved >>

\* the request arrives, passes its guards and resolves its scope
Start(r) ==
  /\ pc[r] = "idle"
  /\ \E o \in Bodies :
       /\ o.kind # "list" => o.parent \in Stored \cup {NoCompany, Keep}
       /\ op' = [op EXCEPT ![r] = o]
       /\ scope' = [scope EXCEPT ![r] = Resolve({m \in Memberships : m.user = o.user}, PathsOf)]
       /\ Goto(r, CASE o.kind = "create" -> "scopeParent"
                    [] o.kind = "update" -> "scopeTarget"
                    [] o.kind = "list" -> "list")
  /\ UNCHANGED << companies, id, parent, out, result, events, audits, moved >>

List(r) ==
  /\ pc[r] = "list"
  /\ result' = [result EXCEPT ![r] = FindAll(scope[r])]
  /\ Goto(r, "listed")
  /\ UNCHANGED << companies, op, scope, id, parent, out, events, audits, moved >>

\* CompaniesService.create looks the parent up in the scope
ScopeParent(r) ==
  /\ pc[r] = "scopeParent"
  /\ LET p == op[r].parent IN
       IF p # NoCompany /\ ~(FindOne(scope[r], p) /\ companies[p].tenant = op[r].tenant)
         THEN Refuse(r)
         ELSE Goto(r, "checkRut") /\ UNCHANGED << companies, locals, events, audits, moved >>

CheckRut(r) ==
  /\ pc[r] = "checkRut"
  /\ IF \/ op[r].type = "OWNER"
        \/ op[r].parent = NoCompany
        \/ \E c \in Stored : companies[c].tenant = op[r].tenant /\ companies[c].rut = Normalize(op[r].rut)
       THEN Refuse(r)
       ELSE Goto(r, "readParent") /\ UNCHANGED << companies, locals, events, audits, moved >>

\* (variant: the hierarchy rules are not checked)
ReadParentUnchecked(r) ==
  /\ pc[r] = "readParent"
  /\ parent' = [parent EXCEPT ![r] = companies[op[r].parent]]
  /\ Goto(r, "insert")
  /\ UNCHANGED << companies, op, scope, id, out, result, events, audits, moved >>

\* the parent is read again; this is the copy the child is built from
ReadParent(r) ==
  /\ pc[r] = "readParent"
  /\ LET p == companies[op[r].parent] IN
       IF p = NoRow \/ p.tenant # op[r].tenant \/ ~CanCreateChildCompany(p.type, op[r].type)
         THEN Refuse(r)
         ELSE /\ parent' = [parent EXCEPT ![r] = p]
              /\ Goto(r, "insert")
              /\ UNCHANGED << companies, op, scope, id, out, result, events, audits, moved >>

\* the unique index on tenant and rut
RutTaken(c, tenant, rut) ==
  \E d \in Stored \ {c} : companies[d].tenant = tenant /\ companies[d].rut = rut

Insert(r) ==
  /\ pc[r] = "insert"
  /\ ~RutTaken(NoCompany, op[r].tenant, Normalize(op[r].rut))
  /\ \E c \in CompanyIds \ Stored :
       /\ companies' = [companies EXCEPT ![c] =
            [tenant |-> op[r].tenant, rut |-> Normalize(op[r].rut), type |-> op[r].type,
             parent |-> op[r].parent, path |-> << Pending >>, depth |-> parent[r].depth + 1]]
       /\ id' = [id EXCEPT ![r] = c]
  /\ Goto(r, "setPath")
  /\ UNCHANGED << op, scope, parent, out, result, events, audits, moved >>

SetPathUnder(r, path) ==
  /\ pc[r] = "setPath"
  /\ LET row == [companies[id[r]] EXCEPT !.path = path, !.depth = parent[r].depth + 1] IN
       /\ companies' = [companies EXCEPT ![id[r]] = row]
       /\ out' = [out EXCEPT ![r] = row]
  /\ Goto(r, "publish")
  /\ UNCHANGED << op, scope, id, parent, result, events, audits, moved >>

\* (variant: the path forgets the parent)
SetRootPath(r) == SetPathUnder(r, << id[r] >>)

\* the second statement of the insertion
SetPath(r) == SetPathUnder(r, Append(parent[r].path, id[r]))

\* CompaniesService.update looks the company up in the scope
ScopeTarget(r) ==
  /\ pc[r] = "scopeTarget"
  /\ IF FindOne(scope[r], op[r].target)
       THEN Goto(r, "readTarget") /\ UNCHANGED << companies, locals, events, audits, moved >>
       ELSE Refuse(r)

ReadTarget(r) ==
  /\ pc[r] = "readTarget"
  /\ IF op[r].type = "OWNER" /\ companies[op[r].target].type # "OWNER"
       THEN Refuse(r)
       ELSE Goto(r, "update") /\ UNCHANGED << companies, locals, events, audits, moved >>

\* (variant: a missing field is written)
GivenAsIs(new, old) == new

Given(new, old) == IF new = Keep THEN old ELSE new

UpdateWith(r, rut) ==
  /\ pc[r] = "update"
  /\ LET c == op[r].target
         row == [companies[c] EXCEPT !.rut = rut, !.type = Given(op[r].type, @),
                                     !.parent = Given(op[r].parent, @)]
     IN /\ ~RutTaken(c, row.tenant, row.rut)
        /\ companies' = [companies EXCEPT ![c] = row]
        /\ id' = [id EXCEPT ![r] = c]
        /\ out' = [out EXCEPT ![r] = row]
        /\ moved' = IF op[r].type # Keep \/ op[r].parent # Keep THEN moved \cup {c} ELSE moved
  /\ Goto(r, "publish")
  /\ UNCHANGED << op, scope, parent, result, events, audits >>

\* (variant: the tax number is not normalised)
UpdateRaw(r) ==
  UpdateWith(r, IF op[r].rut = Keep THEN companies[op[r].target].rut
                ELSE [body |-> Front(op[r].rut), verifier |-> Last(op[r].rut)])

\* type and parent are written as they come; path and depth stay
Update(r) ==
  UpdateWith(r, IF op[r].rut = Keep THEN companies[op[r].target].rut ELSE Normalize(op[r].rut))

\* (variant: the event carries the row as it was inserted)
PublishInserted(r) ==
  /\ pc[r] = "publish"
  /\ events' = events \cup {[request |-> r, type |-> op[r].kind, company |-> id[r],
                             row |-> [out[r] EXCEPT !.path = << Pending >>]]}
  /\ Goto(r, "answer")
  /\ UNCHANGED << companies, locals, audits, moved >>

\* outboxService.publish: company.created or company.updated, with the row
Publish(r) ==
  /\ pc[r] = "publish"
  /\ events' = events \cup {[request |-> r, type |-> op[r].kind, company |-> id[r], row |-> out[r]]}
  /\ Goto(r, "answer")
  /\ UNCHANGED << companies, locals, audits, moved >>

Answer(r) ==
  /\ pc[r] = "answer"
  /\ Goto(r, "answered")
  /\ UNCHANGED << companies, locals, events, audits, moved >>

\* AuditInterceptor records after the answer, without being waited for
Audit(r) ==
  /\ pc[r] = "answered"
  /\ audits' = audits \cup {r}
  /\ Goto(r, "audited")
  /\ UNCHANGED << companies, locals, events, moved >>

\* a statement fails (the connection, a unique index) or the process dies
Fail(r) ==
  /\ pc[r] \in {"insert", "setPath", "update", "publish"}
  /\ Goto(r, "failed")
  /\ UNCHANGED << companies, locals, events, audits, moved >>

Request(r) ==
  \/ Start(r) \/ List(r)
  \/ ScopeParent(r) \/ CheckRut(r) \/ ReadParent(r) \/ Insert(r) \/ SetPath(r)
  \/ ScopeTarget(r) \/ ReadTarget(r) \/ Update(r)
  \/ Publish(r) \/ Answer(r) \/ Audit(r) \/ Fail(r)

Next == \E r \in Requests : Request(r)

Spec == Init /\ [][Next]_vars
-----------------------------------------------------------------------------
TypeOK ==
  /\ companies \in [CompanyIds -> Row \cup {NoRow}]
  /\ pc \in [Requests -> {"idle", "list", "listed", "scopeParent", "checkRut", "readParent", "insert",
                         "setPath", "scopeTarget", "readTarget", "update", "publish", "answer",
                         "answered", "audited", "refused", "failed"}]
  /\ op \in [Requests -> Bodies \cup {NoOp}]
  /\ id \in [Requests -> CompanyIds \cup {NoCompany}]
  /\ parent \in [Requests -> Row \cup {NoRow}]
  /\ out \in [Requests -> Row \cup {NoRow}]
  /\ result \in [Requests -> SUBSET CompanyIds]
  /\ audits \subseteq Requests
  /\ moved \subseteq CompanyIds

\* a company shows '/pending' only while its insertion is between its two
\* statements, or for ever when the request stopped there
PendingIsExplained ==
  \A c \in Stored : companies[c].path = << Pending >> =>
    \E r \in Requests : op[r].kind = "create" /\ id[r] = c /\ pc[r] \in {"setPath", "failed"}

\* Whatever moves, races and half-finished insertions happen, the paths that
\* scopes are built from stay trees within one tenant (companies.repository.ts
\* writes a path once and never again), and every company outside of them is an
\* insertion that has not finished, or hangs below one.
PathTree == PathsFormTrees(companies) /\ PendingIsExplained

\* however updates of a type race, a company is an OWNER only if onboarding
\* made it one
OwnersWereOnboarded ==
  \A c \in Stored : companies[c].type = "OWNER" =>
    InitialCompanies[c] # NoRow /\ InitialCompanies[c].type = "OWNER"

\* Companies that no update retyped or moved obey the hierarchy rules against
\* parents that no update retyped, although the rules are checked on a copy of
\* the parent: only PATCH companies/:id, which checks neither, breaks them.  No
\* race of updates makes an owner.
HierarchyRules == TypesAllowed(companies, moved) /\ OwnersWereOnboarded

\* Whatever spelling clients use, a tenant has one company per tax number.
OneCompanyPerRut == RutsAreKeys(companies)

\* The verifier of every number that a client can type completes the official
\* weighted sum to a multiple of 11, so that one wrong digit, or two neighbours
\* swapped, is noticed.  (Looked at once, before any request; chilean-rut.ts:24.)
VerifierCatchesSlips ==
  (\A r \in Requests : pc[r] = "idle") =>
    \A value \in RutInputs : Normalize(value) # Invalid => CatchesSlips(Normalize(value).body)

\* a request has announced its change when its event carries the row it wrote
Announced == {r \in Requests : \E e \in events : e.request = r /\ e.row = out[r] /\ out[r] # NoRow}

Announcement == INSTANCE DomainEvents WITH
  written <- {r \in Requests : out[r] # NoRow},
  announced <- Announced,
  answered <- {r \in Requests : pc[r] \in {"answered", "audited"}},
  audited <- audits

\* The companies service keeps the promises of DomainEvents: an answered change
\* is in the outbox with the row that was written, whatever fails.
ImplementsDomainEvents == Announcement!Spec
=============================================================================
