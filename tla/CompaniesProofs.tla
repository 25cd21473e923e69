--------------------------- MODULE CompaniesProofs ---------------------------
(***************************************************************************)
(* The safety properties of Companies and its refinement of DomainEvents,  *)
(* for every number of requests, companies and tenants.                    *)
(*                                                                         *)
(* A request that is about to write works on a copy of the parent.  The    *)
(* argument is that the tenant and the settled path of a company never     *)
(* change, so that the copy is as good as the row, and that the company    *)
(* between the two statements of its insertion belongs to one request.     *)
(***************************************************************************)
EXTENDS Companies, TextProofs

\* what a request asks for, by the statement it runs next
OpInv ==
  \A r \in Requests :
    /\ pc[r] \in {"scopeParent", "checkRut", "readParent", "insert", "setPath"} => op[r] \in CreateOps
    /\ pc[r] \in {"scopeTarget", "readTarget", "update"} => op[r] \in UpdateOps
    /\ pc[r] \in {"readParent", "insert", "setPath"} => op[r].parent \in CompanyIds /\ op[r].type # "OWNER"
    /\ pc[r] \in {"readTarget", "update"} => op[r].target \in Stored

\* an update that keeps or restores OWNER targets an owner of old
OwnerInv ==
  \A r \in Requests : pc[r] = "update" /\ op[r].type = "OWNER" =>
    InitialCompanies[op[r].target] # NoRow /\ InitialCompanies[op[r].target].type = "OWNER"

\* the copy of the parent agrees with its row
CopyInv ==
  \A r \in Requests : pc[r] \in {"insert", "setPath"} =>
    LET p == op[r].parent IN
    /\ parent[r] \in Row
    /\ p \in Stored
    /\ companies[p].tenant = op[r].tenant
    /\ parent[r].path # << >>
    /\ CanCreateChildCompany(parent[r].type, op[r].type)
    /\ p \notin moved => companies[p].type = parent[r].type
    /\ parent[r].path[1] # Pending =>
         companies[p].path = parent[r].path /\ companies[p].depth = parent[r].depth

\* a company between its two statements belongs to one request
OpenInv ==
  \A r \in Requests : pc[r] = "setPath" =>
    /\ id[r] \in Stored
    /\ companies[id[r]].path = << Pending >>
    /\ companies[id[r]].tenant = op[r].tenant
    /\ \A q \in Requests : pc[q] = "setPath" /\ id[q] = id[r] => q = r

PathsNonEmpty == \A c \in Stored : companies[c].path # << >>

Shape == TypeOK /\ OpInv /\ CopyInv /\ OpenInv /\ PathsNonEmpty
-----------------------------------------------------------------------------
LEMMA PrefixOfAppend ==
  ASSUME NEW S, NEW s \in Seq(S), NEW x \in S, NEW i \in 1 .. Len(s)
  PROVE  SubSeq(Append(s, x), 1, i) = SubSeq(s, 1, i)
<1>1. Len(s) \in Nat /\ i \in Int /\ \A j \in 1 .. Len(s) : s[j] \in S
  BY LenProperties, ElementOfSeq
<1>2. \A j \in 1 .. i : Append(s, x)[j] = s[j] /\ s[j] \in S
  BY <1>1, AppendProperties
<1>3. /\ SubSeq(s, 1, i) \in Seq(S)
      /\ Len(SubSeq(s, 1, i)) = i
      /\ \A j \in 1 .. i : SubSeq(s, 1, i)[j] = s[j]
  BY <1>1, <1>2, SubSeqProperties
<1>4. /\ SubSeq(Append(s, x), 1, i) \in Seq(S)
      /\ Len(SubSeq(Append(s, x), 1, i)) = i
      /\ \A j \in 1 .. i : SubSeq(Append(s, x), 1, i)[j] = s[j]
  BY <1>1, <1>2, SubSeqProperties
<1>5. QED
  BY <1>3, <1>4, SeqEqual

LEMMA RowFields ==
  ASSUME NEW row \in Row
  PROVE  /\ row # NoRow
         /\ row.tenant \in Tenants /\ row.rut \in Ruts /\ row.type \in Types
         /\ row.parent \in CompanyIds \cup {NoCompany}
         /\ row.path \in Seq(CompanyIds \cup {Pending}) /\ row.depth \in Nat
BY NullAssumption DEF Row

\* The rows a request writes.
LEMMA InsertWrites ==
  ASSUME Shape, NEW r \in Requests, Insert(r)
  PROVE  \E c \in CompanyIds \ Stored : \E row \in Row :
           /\ companies' = [companies EXCEPT ![c] = row]
           /\ id' = [id EXCEPT ![r] = c]
           /\ row.tenant = op[r].tenant /\ row.type = op[r].type
           /\ row.parent = op[r].parent /\ row.path = << Pending >>
           /\ ~RutTaken(c, row.tenant, row.rut)
<1>1. op[r] \in CreateOps /\ op[r].parent \in CompanyIds /\ parent[r] \in Row
  BY DEF Insert, Shape, OpInv, CopyInv
<1>2. /\ op[r].tenant \in Tenants /\ op[r].type \in Types
      /\ Normalize(op[r].rut) \in Ruts
  BY <1>1 DEF CreateOps, Ruts
<1>3. parent[r].depth + 1 \in Nat
  BY <1>1, RowFields
<1>4. << Pending >> \in Seq(CompanyIds \cup {Pending})
  OBVIOUS
<1> DEFINE row == [tenant |-> op[r].tenant, rut |-> Normalize(op[r].rut), type |-> op[r].type,
                   parent |-> op[r].parent, path |-> << Pending >>, depth |-> parent[r].depth + 1]
<1>5. row \in Row /\ row.tenant = op[r].tenant /\ row.type = op[r].type
      /\ row.parent = op[r].parent /\ row.path = << Pending >> /\ row.rut = Normalize(op[r].rut)
  BY <1>1, <1>2, <1>3, <1>4 DEF Row
<1>6. PICK c \in CompanyIds \ Stored :
        companies' = [companies EXCEPT ![c] = row] /\ id' = [id EXCEPT ![r] = c]
  BY DEF Insert
<1>7. ~RutTaken(NoCompany, op[r].tenant, Normalize(op[r].rut))
  BY DEF Insert
<1> HIDE DEF row
<1>8. ~RutTaken(c, row.tenant, row.rut)
  BY <1>5, <1>7, NullAssumption DEF RutTaken, Stored
<1>9. QED
  BY <1>5, <1>6, <1>8

LEMMA SetPathWrites ==
  ASSUME Shape, NEW r \in Requests, SetPath(r)
  PROVE  LET c == id[r]
             row == companies'[c]
         IN /\ c \in Stored /\ row \in Row
            /\ companies' = [companies EXCEPT ![c] = row]
            /\ out' = [out EXCEPT ![r] = row]
            /\ row.tenant = companies[c].tenant /\ row.type = companies[c].type
            /\ row.parent = companies[c].parent /\ row.rut = companies[c].rut
            /\ row.path = Append(parent[r].path, c) /\ row.depth = parent[r].depth + 1
<1> DEFINE new == [companies[id[r]] EXCEPT !.path = Append(parent[r].path, id[r]), !.depth = parent[r].depth + 1]
<1>1. parent[r] \in Row /\ id[r] \in Stored
  BY DEF SetPath, SetPathUnder, Shape, CopyInv, OpenInv
<1>2. companies[id[r]] \in Row
  BY <1>1 DEF Shape, TypeOK, Stored
<1>3. Append(parent[r].path, id[r]) \in Seq(CompanyIds \cup {Pending}) /\ parent[r].depth + 1 \in Nat
  BY <1>1, RowFields, AppendProperties DEF Stored
<1>4. /\ new \in Row
      /\ new.tenant = companies[id[r]].tenant /\ new.type = companies[id[r]].type
      /\ new.parent = companies[id[r]].parent /\ new.rut = companies[id[r]].rut
      /\ new.path = Append(parent[r].path, id[r]) /\ new.depth = parent[r].depth + 1
  BY <1>2, <1>3 DEF Row
<1>5. companies' = [companies EXCEPT ![id[r]] = new] /\ out' = [out EXCEPT ![r] = new]
  BY DEF SetPath, SetPathUnder
<1>6. companies'[id[r]] = new
  BY <1>1, <1>5 DEF Shape, TypeOK, Stored
<1>7. QED
  BY <1>1, <1>4, <1>5, <1>6

LEMMA UpdateWrites ==
  ASSUME Shape, NEW r \in Requests, Update(r)
  PROVE  LET c == op[r].target
             row == companies'[c]
         IN /\ c \in Stored /\ row \in Row
            /\ companies' = [companies EXCEPT ![c] = row]
            /\ id' = [id EXCEPT ![r] = c]
            /\ out' = [out EXCEPT ![r] = row]
            /\ row.tenant = companies[c].tenant
            /\ row.path = companies[c].path /\ row.depth = companies[c].depth
            /\ row.type \in {companies[c].type, op[r].type}
            /\ ~RutTaken(c, row.tenant, row.rut)
            /\ \/ moved' = moved /\ row.type = companies[c].type /\ row.parent = companies[c].parent
               \/ moved' = moved \cup {c}
<1> DEFINE c == op[r].target
           rut == IF op[r].rut = Keep THEN companies[c].rut ELSE Normalize(op[r].rut)
           new == [companies[c] EXCEPT !.rut = rut, !.type = Given(op[r].type, @),
                                       !.parent = Given(op[r].parent, @)]
<1>1. op[r] \in UpdateOps /\ c \in Stored
  BY DEF Update, UpdateWith, Shape, OpInv
<1>2. companies[c] \in Row
  BY <1>1 DEF Shape, TypeOK, Stored
<1>3. /\ rut \in Ruts
      /\ Given(op[r].type, companies[c].type) \in Types
      /\ Given(op[r].type, companies[c].type) \in {companies[c].type, op[r].type}
      /\ Given(op[r].parent, companies[c].parent) \in CompanyIds \cup {NoCompany}
  BY <1>1, <1>2, RowFields DEF UpdateOps, Ruts, Given
<1>4. /\ new \in Row
      /\ new.tenant = companies[c].tenant
      /\ new.path = companies[c].path /\ new.depth = companies[c].depth
      /\ new.type = Given(op[r].type, companies[c].type)
      /\ new.parent = Given(op[r].parent, companies[c].parent)
  BY <1>2, <1>3 DEF Row
<1>5. /\ companies' = [companies EXCEPT ![c] = new]
      /\ out' = [out EXCEPT ![r] = new]
      /\ id' = [id EXCEPT ![r] = c]
      /\ moved' = IF op[r].type # Keep \/ op[r].parent # Keep THEN moved \cup {c} ELSE moved
      /\ ~RutTaken(c, new.tenant, new.rut)
  BY DEF Update, UpdateWith
<1>6. companies'[c] = new
  BY <1>1, <1>5 DEF Shape, TypeOK, Stored
<1>7. QED
  BY <1>1, <1>3, <1>4, <1>5, <1>6 DEF Given

\* What every step keeps of the rows that are there.
Kept(c) ==
  /\ companies'[c] # NoRow
  /\ companies'[c].tenant = companies[c].tenant
  /\ companies[c].path[1] # Pending =>
       companies'[c].path = companies[c].path /\ companies'[c].depth = companies[c].depth
  /\ c \notin moved' => companies'[c].type = companies[c].type /\ companies'[c].parent = companies[c].parent

LEMMA OnlyWritesChange ==
  ASSUME NEW r \in Requests, Request(r), ~Insert(r), ~SetPath(r), ~Update(r)
  PROVE  UNCHANGED << companies, id, out, moved >>
BY DEF Request, Start, List, ScopeParent, CheckRut, ReadParent, ScopeTarget, ReadTarget, Publish, Answer,
       Audit, Fail, Refuse, locals

LEMMA RowsAreKept ==
  ASSUME Shape, NEW r \in Requests, Request(r)
  PROVE  moved \subseteq moved' /\ \A c \in Stored : Kept(c)
<1>1. CASE Insert(r)
  <2>1. PICK c \in CompanyIds \ Stored, row \in Row : companies' = [companies EXCEPT ![c] = row]
    BY <1>1, InsertWrites
  <2>2. moved' = moved
    BY <1>1 DEF Insert
  <2>3. \A d \in Stored : companies'[d] = companies[d]
    BY <2>1 DEF Shape, TypeOK, Stored
  <2>4. QED
    BY <2>2, <2>3 DEF Kept, Stored
<1>2. CASE SetPath(r)
  <2>1. /\ id[r] \in Stored
        /\ companies' = [companies EXCEPT ![id[r]] = companies'[id[r]]]
        /\ companies'[id[r]] \in Row
        /\ companies'[id[r]].tenant = companies[id[r]].tenant
        /\ companies'[id[r]].type = companies[id[r]].type
        /\ companies'[id[r]].parent = companies[id[r]].parent
    BY <1>2, SetPathWrites
  <2>2. companies[id[r]].path[1] = Pending
    BY <1>2 DEF SetPath, SetPathUnder, Shape, OpenInv
  <2>3. moved' = moved
    BY <1>2 DEF SetPath, SetPathUnder
  <2>4. ASSUME NEW d \in Stored
        PROVE  Kept(d)
    <3>1. CASE d = id[r]
      BY <2>1, <2>2, <3>1, RowFields DEF Kept
    <3>2. CASE d # id[r]
      <4>1. companies'[d] = companies[d]
        BY <2>1, <3>2 DEF Shape, TypeOK, Stored
      <4>2. QED
        BY <4>1 DEF Kept, Stored
    <3>3. QED
      BY <3>1, <3>2
  <2>5. QED
    BY <2>3, <2>4
<1>3. CASE Update(r)
  <2> DEFINE c == op[r].target
  <2>1. /\ c \in Stored
        /\ companies' = [companies EXCEPT ![c] = companies'[c]]
        /\ companies'[c] \in Row
        /\ companies'[c].tenant = companies[c].tenant
        /\ companies'[c].path = companies[c].path /\ companies'[c].depth = companies[c].depth
        /\ \/ moved' = moved /\ companies'[c].type = companies[c].type /\ companies'[c].parent = companies[c].parent
           \/ moved' = moved \cup {c}
    BY <1>3, UpdateWrites
  <2> HIDE DEF c
  <2>2. ASSUME NEW d \in Stored
        PROVE  Kept(d)
    <3>1. CASE d = c
      BY <2>1, <3>1, RowFields DEF Kept
    <3>2. CASE d # c
      <4>1. companies'[d] = companies[d]
        BY <2>1, <3>2 DEF Shape, TypeOK, Stored
      <4>2. QED
        BY <4>1 DEF Kept, Stored
    <3>3. QED
      BY <3>1, <3>2
  <2>3. QED
    BY <2>1, <2>2
<1>4. CASE ~Insert(r) /\ ~SetPath(r) /\ ~Update(r)
  BY <1>4, OnlyWritesChange DEF Kept, Stored
<1>5. QED
  BY <1>1, <1>2, <1>3, <1>4

LEMMA OthersKept ==
  ASSUME TypeOK, NEW r \in Requests, Request(r), NEW q \in Requests, q # r
  PROVE  pc'[q] = pc[q] /\ op'[q] = op[q] /\ id'[q] = id[q] /\ parent'[q] = parent[q] /\ out'[q] = out[q]
BY DEF TypeOK, Request, Start, List, ScopeParent, CheckRut, ReadParent, Insert, SetPath, SetPathUnder,
       ScopeTarget, ReadTarget, Update, UpdateWith, Publish, Answer, Audit, Fail, Refuse, Goto, locals
-----------------------------------------------------------------------------
LEMMA TypeStep ==
  ASSUME Shape, NEW r \in Requests, Request(r)
  PROVE  TypeOK'
<1> USE DEF TypeOK
<1>1. CASE Insert(r)
  <2>1. PICK c \in CompanyIds \ Stored, row \in Row :
          companies' = [companies EXCEPT ![c] = row] /\ id' = [id EXCEPT ![r] = c]
    BY <1>1, InsertWrites
  <2>2. companies' \in [CompanyIds -> Row \cup {NoRow}] /\ id' \in [Requests -> CompanyIds \cup {NoCompany}]
    BY <2>1 DEF Shape
  <2>3. QED
    BY <1>1, <2>2 DEF Insert, Goto, Shape
<1>2. CASE SetPath(r)
  <2>1. /\ id[r] \in CompanyIds /\ companies'[id[r]] \in Row
        /\ companies' = [companies EXCEPT ![id[r]] = companies'[id[r]]]
        /\ out' = [out EXCEPT ![r] = companies'[id[r]]]
    BY <1>2, SetPathWrites DEF Stored
  <2>2. companies' \in [CompanyIds -> Row \cup {NoRow}] /\ out' \in [Requests -> Row \cup {NoRow}]
    BY <2>1 DEF Shape
  <2>3. QED
    BY <1>2, <2>2 DEF SetPath, SetPathUnder, Goto, Shape
<1>3. CASE Update(r)
  <2> DEFINE c == op[r].target
  <2>1. /\ c \in CompanyIds /\ companies'[c] \in Row
        /\ companies' = [companies EXCEPT ![c] = companies'[c]]
        /\ out' = [out EXCEPT ![r] = companies'[c]]
        /\ id' = [id EXCEPT ![r] = c]
        /\ moved' = moved \/ moved' = moved \cup {c}
    BY <1>3, UpdateWrites DEF Stored
  <2> HIDE DEF c
  <2>2. /\ companies' \in [CompanyIds -> Row \cup {NoRow}]
        /\ out' \in [Requests -> Row \cup {NoRow}]
        /\ id' \in [Requests -> CompanyIds \cup {NoCompany}]
        /\ moved' \subseteq CompanyIds
    BY <2>1 DEF Shape
  <2>3. QED
    BY <1>3, <2>2 DEF Update, UpdateWith, Goto, Shape
<1>4. CASE ReadParent(r)
  <2>1. CASE Refuse(r)
    BY <2>1 DEF Refuse, Goto, Shape
  <2>2. CASE ~Refuse(r)
    <3>1. op[r].parent \in CompanyIds
      BY <1>4 DEF ReadParent, Shape, OpInv
    <3>2. companies[op[r].parent] \in Row \cup {NoRow}
      BY <3>1 DEF Shape
    <3>3. QED
      BY <1>4, <2>2, <3>2 DEF ReadParent, Goto, Shape
  <2>3. QED
    BY <2>1, <2>2
<1>5. CASE Start(r)
  <2>1. PICK o \in Bodies :
          /\ op' = [op EXCEPT ![r] = o]
          /\ Goto(r, CASE o.kind = "create" -> "scopeParent"
                       [] o.kind = "update" -> "scopeTarget"
                       [] o.kind = "list" -> "list")
    BY <1>5 DEF Start
  <2>2. o.kind \in {"create", "update", "list"}
    BY BodiesAssumption DEF CreateOps, UpdateOps, ListOps
  <2>3. QED
    BY <1>5, <2>1, <2>2 DEF Start, Goto, Shape
<1>6. CASE List(r)
  <2>1. FindAll(scope[r]) \subseteq CompanyIds
    BY DEF FindAll, Stored
  <2>2. QED
    BY <1>6, <2>1 DEF List, Goto, Shape
<1>7. CASE ScopeParent(r) \/ CheckRut(r) \/ ScopeTarget(r) \/ ReadTarget(r)
  <2>1. CASE Refuse(r)
    BY <2>1 DEF Refuse, Goto, Shape
  <2>2. CASE ~Refuse(r)
    BY <1>7, <2>2 DEF ScopeParent, CheckRut, ScopeTarget, ReadTarget, Goto, locals, Shape
  <2>3. QED
    BY <2>1, <2>2
<1>8. CASE Publish(r) \/ Answer(r) \/ Audit(r) \/ Fail(r)
  BY <1>8 DEF Publish, Answer, Audit, Fail, Goto, locals, Shape
<1>9. QED
  BY <1>1, <1>2, <1>3, <1>4, <1>5, <1>6, <1>7, <1>8 DEF Request

LEMMA OpStep ==
  ASSUME Shape, NEW r \in Requests, Request(r)
  PROVE  OpInv'
<1>1. \A c \in Stored : c \in Stored'
  BY RowsAreKept DEF Kept, Stored
<1>2. SUFFICES ASSUME NEW q \in Requests
      PROVE  /\ pc'[q] \in {"scopeParent", "checkRut", "readParent", "insert", "setPath"} => op'[q] \in CreateOps
             /\ pc'[q] \in {"scopeTarget", "readTarget", "update"} => op'[q] \in UpdateOps
             /\ pc'[q] \in {"readParent", "insert", "setPath"} =>
                  op'[q].parent \in CompanyIds /\ op'[q].type # "OWNER"
             /\ pc'[q] \in {"readTarget", "update"} => op'[q].target \in Stored'
  BY DEF OpInv
<1>3. CASE q # r
  <2>1. pc'[q] = pc[q] /\ op'[q] = op[q]
    BY <1>3, OthersKept DEF Shape
  <2>2. QED
    BY <1>1, <2>1 DEF Shape, OpInv
<1>4. CASE q = r
  <2> USE <1>4 DEF Shape, TypeOK
  <2>1. CASE Start(r)
    <3>1. PICK o \in Bodies :
            /\ op' = [op EXCEPT ![r] = o]
            /\ Goto(r, CASE o.kind = "create" -> "scopeParent"
                         [] o.kind = "update" -> "scopeTarget"
                         [] o.kind = "list" -> "list")
      BY <2>1 DEF Start
    <3>2. \/ o \in CreateOps /\ o.kind = "create"
          \/ o \in UpdateOps /\ o.kind = "update"
          \/ o.kind = "list"
      BY BodiesAssumption DEF CreateOps, UpdateOps, ListOps
    <3>3. op'[r] = o /\ pc'[r] = (CASE o.kind = "create" -> "scopeParent"
                                  [] o.kind = "update" -> "scopeTarget"
                                  [] o.kind = "list" -> "list")
      BY <3>1 DEF Goto
    <3>4. QED
      BY <3>2, <3>3
  <2>2. CASE CheckRut(r)
    <3>1. op[r] \in CreateOps
      BY <2>2 DEF CheckRut, OpInv
    <3>2. op[r].parent \in CompanyIds \cup {NoCompany}
      BY <3>1 DEF CreateOps
    <3>3. QED
      BY <2>2, <3>1, <3>2 DEF CheckRut, Refuse, Goto, locals
  <2>3. CASE ScopeTarget(r)
    BY <2>3, <1>1 DEF ScopeTarget, Refuse, Goto, locals, OpInv, FindOne
  <2>4. CASE ScopeParent(r) \/ ReadParent(r) \/ ReadTarget(r)
    BY <2>4, <1>1 DEF ScopeParent, ReadParent, ReadTarget, Refuse, Goto, locals, OpInv
  <2>5. CASE Insert(r)
    BY <2>5, <1>1 DEF Insert, Goto, OpInv
  <2>6. CASE SetPath(r) \/ Update(r) \/ List(r)
    BY <2>6 DEF SetPath, SetPathUnder, Update, UpdateWith, List, Goto
  <2>7. CASE Publish(r) \/ Answer(r) \/ Audit(r) \/ Fail(r)
    BY <2>7 DEF Publish, Answer, Audit, Fail, Goto, locals
  <2>8. QED
    BY <2>1, <2>2, <2>3, <2>4, <2>5, <2>6, <2>7 DEF Request
<1>5. QED
  BY <1>3, <1>4

LEMMA CopyStep ==
  ASSUME Shape, NEW r \in Requests, Request(r)
  PROVE  CopyInv'
<1> DEFINE Good(q) ==
      LET p == op[q].parent IN
      /\ parent[q] \in Row
      /\ p \in Stored
      /\ companies[p].tenant = op[q].tenant
      /\ parent[q].path # << >>
      /\ CanCreateChildCompany(parent[q].type, op[q].type)
      /\ p \notin moved => companies[p].type = parent[q].type
      /\ parent[q].path[1] # Pending =>
           companies[p].path = parent[q].path /\ companies[p].depth = parent[q].depth
<1>1. moved \subseteq moved' /\ \A c \in Stored : Kept(c) /\ c \in Stored'
  BY RowsAreKept DEF Kept, Stored
<1>2. SUFFICES ASSUME NEW q \in Requests, pc'[q] \in {"insert", "setPath"}
      PROVE  Good(q)'
  BY DEF CopyInv
<1>3. ASSUME Good(q), op'[q] = op[q], parent'[q] = parent[q]
      PROVE  Good(q)'
  BY <1>1, <1>3 DEF Kept
<1>4. CASE q # r
  <2>1. pc'[q] = pc[q] /\ op'[q] = op[q] /\ parent'[q] = parent[q]
    BY <1>4, OthersKept DEF Shape
  <2>2. Good(q)
    BY <1>2, <2>1 DEF Shape, CopyInv
  <2>3. QED
    BY <1>3, <2>1, <2>2
<1>5. CASE q = r /\ Insert(r)
  <2>1. op'[q] = op[q] /\ parent'[q] = parent[q] /\ pc[q] = "insert"
    BY <1>5 DEF Insert
  <2>2. Good(q)
    BY <2>1 DEF Shape, CopyInv
  <2>3. QED
    BY <1>3, <2>1, <2>2
<1>6. CASE q = r /\ ReadParent(r)
  <2> DEFINE p == op[r].parent
  <2>1. /\ companies[p] # NoRow /\ companies[p].tenant = op[r].tenant
        /\ CanCreateChildCompany(companies[p].type, op[r].type)
        /\ parent'[r] = companies[p]
        /\ UNCHANGED << companies, moved, op >>
    BY <1>2, <1>6 DEF ReadParent, Refuse, Goto, Shape, TypeOK
  <2>2. p \in Stored
    BY <1>6, <2>1 DEF ReadParent, Shape, OpInv, Stored
  <2>3. companies[p] \in Row /\ companies[p].path # << >>
    BY <2>2 DEF Shape, TypeOK, Stored, PathsNonEmpty
  <2>4. QED
    BY <1>6, <2>1, <2>2, <2>3 DEF Stored
<1>7. CASE q = r /\ ~Insert(r) /\ ~ReadParent(r)
  <2>1. CASE Start(r)
    <3>1. PICK o \in Bodies :
            Goto(r, CASE o.kind = "create" -> "scopeParent"
                      [] o.kind = "update" -> "scopeTarget"
                      [] o.kind = "list" -> "list")
      BY <2>1 DEF Start
    <3>2. o.kind \in {"create", "update", "list"}
      BY BodiesAssumption DEF CreateOps, UpdateOps, ListOps
    <3>3. QED
      BY <1>2, <1>7, <3>1, <3>2 DEF Goto, Shape, TypeOK
  <2>2. CASE ~Start(r)
    BY <1>2, <1>7, <2>2 DEF Request, List, ScopeParent, CheckRut, SetPath, SetPathUnder, ScopeTarget,
                            ReadTarget, Update, UpdateWith, Publish, Answer, Audit, Fail, Refuse, Goto,
                            Shape, TypeOK
  <2>3. QED
    BY <2>1, <2>2
<1>8. QED
  BY <1>4, <1>5, <1>6, <1>7

\* Where a request may come from when it is between the two statements of its
\* insertion, or about to publish.
LEMMA OnlyInsertOpens ==
  ASSUME Shape, NEW r \in Requests, Request(r), pc'[r] = "setPath"
  PROVE  Insert(r)
<1>1. CASE Start(r)
  <2>1. PICK o \in Bodies :
          Goto(r, CASE o.kind = "create" -> "scopeParent"
                    [] o.kind = "update" -> "scopeTarget"
                    [] o.kind = "list" -> "list")
    BY <1>1 DEF Start
  <2>2. o.kind \in {"create", "update", "list"}
    BY BodiesAssumption DEF CreateOps, UpdateOps, ListOps
  <2>3. QED
    BY <2>1, <2>2 DEF Goto, Shape, TypeOK
<1>2. CASE ~Start(r)
  BY <1>2 DEF Request, List, ScopeParent, CheckRut, ReadParent, SetPath, SetPathUnder, ScopeTarget,
              ReadTarget, Update, UpdateWith, Publish, Answer, Audit, Fail, Refuse, Goto, Shape, TypeOK
<1>3. QED
  BY <1>1, <1>2

LEMMA OpenStep ==
  ASSUME Shape, NEW r \in Requests, Request(r)
  PROVE  OpenInv'
<1> DEFINE Good(q) ==
      /\ id[q] \in Stored
      /\ companies[id[q]].path = << Pending >>
      /\ companies[id[q]].tenant = op[q].tenant
      /\ \A o \in Requests : pc[o] = "setPath" /\ id[o] = id[q] => o = q
<1>1. SUFFICES ASSUME NEW q \in Requests, pc'[q] = "setPath"
      PROVE  Good(q)'
  BY DEF OpenInv
<1>2. CASE Insert(r)
  <2>1. PICK c \in CompanyIds \ Stored, row \in Row :
          /\ companies' = [companies EXCEPT ![c] = row]
          /\ id' = [id EXCEPT ![r] = c]
          /\ row.tenant = op[r].tenant /\ row.path = << Pending >>
    BY <1>2, InsertWrites
  <2>2. /\ op' = op /\ pc' = [pc EXCEPT ![r] = "setPath"]
        /\ companies'[c] = row /\ c \in Stored' /\ id'[r] = c
        /\ \A d \in Stored : companies'[d] = companies[d] /\ d \in Stored'
    BY <1>2, <2>1, RowFields DEF Insert, Goto, Shape, TypeOK, Stored
  <2>3. \A o \in Requests : o # r => pc'[o] = pc[o] /\ id'[o] = id[o]
    BY <2>1, <2>2 DEF Shape, TypeOK
  <2>4. \A o \in Requests : o # r /\ pc[o] = "setPath" => id[o] # c
    BY <2>1 DEF Shape, OpenInv
  <2>5. CASE q = r
    BY <2>1, <2>2, <2>3, <2>4, <2>5
  <2>6. CASE q # r
    <3>1. pc[q] = "setPath" /\ id'[q] = id[q] /\ op'[q] = op[q]
      BY <1>1, <2>2, <2>3, <2>6
    <3>2. Good(q)
      BY <3>1 DEF Shape, OpenInv
    <3>3. \A o \in Requests : pc'[o] = "setPath" /\ id'[o] = id[q] => o = q
      <4>1. TAKE o \in Requests
      <4>2. CASE o = r
        BY <2>2, <2>4, <2>6, <3>1, <4>2
      <4>3. CASE o # r
        BY <2>3, <3>2, <4>3
      <4>4. QED
        BY <4>2, <4>3
    <3>4. id[q] \in Stored' /\ companies'[id[q]] = companies[id[q]]
      BY <2>2, <3>2
    <3>5. QED
      BY <3>1, <3>2, <3>3, <3>4
  <2>7. QED
    BY <2>5, <2>6
<1>3. CASE ~Insert(r)
  <2>1. q # r
    BY <1>1, <1>3, OnlyInsertOpens
  <2>2. pc'[q] = pc[q] /\ op'[q] = op[q] /\ id'[q] = id[q]
    BY <2>1, OthersKept DEF Shape
  <2>3. Good(q)
    BY <1>1, <2>2 DEF Shape, OpenInv
  <2>4. companies'[id[q]] # NoRow /\ companies'[id[q]].tenant = companies[id[q]].tenant
    BY <2>3, RowsAreKept DEF Kept
  <2>5. companies'[id[q]].path = companies[id[q]].path
    <3>1. CASE SetPath(r)
      <4>1. id[q] # id[r]
        BY <2>1, <2>3, <3>1 DEF SetPath, SetPathUnder
      <4>2. QED
        BY <2>3, <3>1, <4>1, SetPathWrites DEF Shape, TypeOK, Stored
    <3>2. CASE Update(r)
      <4>1. /\ op[r].target \in Stored
            /\ companies' = [companies EXCEPT ![op[r].target] = companies'[op[r].target]]
            /\ companies'[op[r].target].path = companies[op[r].target].path
        BY <3>2, UpdateWrites
      <4>2. QED
        BY <2>3, <4>1 DEF Shape, TypeOK, Stored
    <3>3. CASE ~SetPath(r) /\ ~Update(r)
      BY <1>3, <3>3, OnlyWritesChange
    <3>4. QED
      BY <3>1, <3>2, <3>3
  <2>6. \A o \in Requests : pc'[o] = "setPath" => pc[o] = "setPath" /\ id'[o] = id[o]
    <3>1. TAKE o \in Requests
    <3>2. CASE o = r
      BY <1>3, <3>2, OnlyInsertOpens
    <3>3. CASE o # r
      BY <3>3, OthersKept DEF Shape
    <3>4. QED
      BY <3>2, <3>3
  <2>7. QED
    BY <2>2, <2>3, <2>4, <2>5, <2>6 DEF Stored
<1>4. QED
  BY <1>2, <1>3

LEMMA NonEmptyStep ==
  ASSUME Shape, NEW r \in Requests, Request(r)
  PROVE  PathsNonEmpty'
<1>1. CASE Insert(r)
  <2>1. PICK c \in CompanyIds \ Stored, row \in Row :
          companies' = [companies EXCEPT ![c] = row] /\ row.path = << Pending >>
    BY <1>1, InsertWrites
  <2>2. << Pending >> # << >>
    OBVIOUS
  <2>3. SUFFICES ASSUME NEW d \in Stored'
        PROVE  companies'[d].path # << >>
    BY DEF PathsNonEmpty
  <2>4. CASE d = c
    BY <2>1, <2>2, <2>4 DEF Shape, TypeOK, Stored
  <2>5. CASE d # c
    <3>1. companies'[d] = companies[d] /\ d \in Stored
      BY <2>1, <2>3, <2>5 DEF Shape, TypeOK, Stored
    <3>2. QED
      BY <3>1 DEF Shape, PathsNonEmpty
  <2>6. QED
    BY <2>4, <2>5
<1>2. CASE SetPath(r)
  <2>1. /\ id[r] \in Stored
        /\ companies' = [companies EXCEPT ![id[r]] = companies'[id[r]]]
        /\ companies'[id[r]].path = Append(parent[r].path, id[r])
    BY <1>2, SetPathWrites
  <2>2. parent[r].path \in Seq(CompanyIds \cup {Pending})
    BY <1>2, RowFields DEF SetPath, SetPathUnder, Shape, CopyInv
  <2>3. Append(parent[r].path, id[r]) # << >>
    BY <2>1, <2>2, AppendProperties DEF Stored
  <2>4. QED
    BY <2>1, <2>3 DEF Shape, TypeOK, Stored, PathsNonEmpty
<1>3. CASE Update(r)
  <2>1. /\ op[r].target \in Stored
        /\ companies' = [companies EXCEPT ![op[r].target] = companies'[op[r].target]]
        /\ companies'[op[r].target].path = companies[op[r].target].path
    BY <1>3, UpdateWrites
  <2>2. QED
    BY <2>1 DEF Shape, TypeOK, Stored, PathsNonEmpty
<1>4. CASE ~Insert(r) /\ ~SetPath(r) /\ ~Update(r)
  BY <1>4, OnlyWritesChange DEF Shape, PathsNonEmpty, Stored
<1>5. QED
  BY <1>1, <1>2, <1>3, <1>4

LEMMA ShapeInit == Init => Shape
<1> SUFFICES ASSUME Init PROVE Shape
  OBVIOUS
<1>1. TypeOK
  BY InitialAssumption DEF Init, TypeOK
<1>2. OpInv /\ CopyInv /\ OpenInv
  BY DEF Init, OpInv, CopyInv, OpenInv
<1>3. PathsNonEmpty
  BY InitialAssumption DEF Init, PathsNonEmpty, Stored
<1>4. QED
  BY <1>1, <1>2, <1>3 DEF Shape

LEMMA ShapeStep == Shape /\ [Next]_vars => Shape'
<1> SUFFICES ASSUME Shape, [Next]_vars PROVE Shape'
  OBVIOUS
<1>1. CASE UNCHANGED vars
  BY <1>1 DEF vars, Shape, TypeOK, OpInv, CopyInv, OpenInv, PathsNonEmpty, Stored
<1>2. ASSUME NEW r \in Requests, Request(r)
      PROVE  Shape'
  BY <1>2, TypeStep, OpStep, CopyStep, OpenStep, NonEmptyStep DEF Shape
<1>3. QED
  BY <1>1, <1>2 DEF Next

LEMMA ShapeHolds == Spec => []Shape
  BY ShapeInit, ShapeStep, PTL DEF Spec

\* Every reachable state is well typed: the table, the requests and their copies.
THEOREM TypeCorrect == Spec => []TypeOK
<1>1. Shape => TypeOK
  BY DEF Shape
<1>2. QED
  BY <1>1, ShapeHolds, PTL
-----------------------------------------------------------------------------
\* what PathsFormTrees says of one company with a settled path
InTree(table, c) ==
  LET path == table[c].path IN
  /\ Len(path) = table[c].depth + 1
  /\ path[Len(path)] = c
  /\ \A i \in 1 .. Len(path) :
       /\ path[i] \in CompanyIds /\ table[path[i]] # NoRow
       /\ table[path[i]].tenant = table[c].tenant
       /\ table[path[i]].path = SubSeq(path, 1, i)

LEMMA TreeKept ==
  ASSUME Shape, NEW r \in Requests, Request(r), NEW c \in Stored,
         companies[c].path[1] # Pending, InTree(companies, c)
  PROVE  InTree(companies', c)
<1> DEFINE path == companies[c].path
<1>1. Kept(c) /\ \A d \in Stored : Kept(d)
  BY RowsAreKept
<1>2. companies'[c].path = path /\ companies'[c].depth = companies[c].depth
      /\ companies'[c].tenant = companies[c].tenant
  BY <1>1 DEF Kept
<1>3. path \in Seq(CompanyIds \cup {Pending})
  <2>1. companies[c] \in Row
    BY DEF Shape, TypeOK, Stored
  <2>2. QED
    BY <2>1, RowFields
<1>4. ASSUME NEW i \in 1 .. Len(path)
      PROVE  /\ path[i] \in CompanyIds /\ companies'[path[i]] # NoRow
             /\ companies'[path[i]].tenant = companies[c].tenant
             /\ companies'[path[i]].path = SubSeq(path, 1, i)
  <2>1. /\ path[i] \in Stored /\ companies[path[i]].tenant = companies[c].tenant
        /\ companies[path[i]].path = SubSeq(path, 1, i)
    BY <1>4 DEF InTree, Stored
  <2>2. SubSeq(path, 1, i)[1] = path[1]
    <3>1. Len(path) \in Nat /\ \A j \in 1 .. Len(path) : path[j] \in CompanyIds \cup {Pending}
      BY <1>3, LenProperties, ElementOfSeq
    <3>2. i \in Int /\ \A j \in 1 .. i : path[j] \in CompanyIds \cup {Pending}
      BY <3>1
    <3>3. \A j \in 1 .. i : SubSeq(path, 1, i)[j] = path[j]
      BY <3>1, <3>2, SubSeqProperties
    <3>4. QED
      BY <3>1, <3>3
  <2>3. Kept(path[i]) /\ companies[path[i]].path[1] # Pending
    BY <1>1, <2>1, <2>2
  <2>4. QED
    BY <2>1, <2>3 DEF Kept, Stored
<1>5. QED
  BY <1>2, <1>4 DEF InTree

\* The company that gets its path hangs in the tree when its parent does.
LEMMA TreeGrows ==
  ASSUME Shape, PathsFormTrees(companies), NEW r \in Requests, Request(r), SetPath(r),
         companies'[id[r]].path[1] # Pending
  PROVE  InTree(companies', id[r])
<1> DEFINE c == id[r]
           p == op[r].parent
           above == parent[r].path
           path == Append(above, c)
<1>1. /\ c \in Stored /\ c \in CompanyIds /\ companies'[c] # NoRow
      /\ companies' = [companies EXCEPT ![c] = companies'[c]]
      /\ companies'[c].tenant = companies[c].tenant
      /\ companies'[c].path = path /\ companies'[c].depth = parent[r].depth + 1
  BY SetPathWrites, RowFields DEF Stored
<1>2. /\ companies[c].path = << Pending >> /\ companies[c].tenant = op[r].tenant
      /\ parent[r] \in Row /\ p \in Stored /\ companies[p].tenant = op[r].tenant
      /\ above # << >>
      /\ above[1] # Pending => companies[p].path = above /\ companies[p].depth = parent[r].depth
  BY DEF SetPath, SetPathUnder, Shape, OpenInv, CopyInv
<1>3. above \in Seq(CompanyIds \cup {Pending}) /\ parent[r].depth \in Nat
  BY <1>2, RowFields
<1>4. Len(above) \in Nat /\ Len(above) > 0
  BY <1>2, <1>3, EmptySeq, LenProperties
<1>5. /\ path \in Seq(CompanyIds \cup {Pending})
      /\ Len(path) = Len(above) + 1
      /\ path[Len(path)] = c
      /\ \A i \in 1 .. Len(above) : path[i] = above[i]
  BY <1>1, <1>3, <1>4, AppendProperties
<1>6. above[1] # Pending
  BY <1>1, <1>4, <1>5
<1>7. InTree(companies, p) /\ companies[p].path = above /\ companies[p].depth = parent[r].depth
  BY <1>2, <1>6 DEF PathsFormTrees, InTree, Stored
<1>8. InTree(companies', p)
  BY <1>2, <1>6, <1>7, TreeKept
<1>9. companies'[p].path = above /\ companies'[p].tenant = companies[p].tenant
  BY <1>2, <1>6, <1>7, RowsAreKept DEF Kept
<1> HIDE DEF path, above, p
<1>10. ASSUME NEW i \in 1 .. Len(path)
       PROVE  /\ path[i] \in CompanyIds /\ companies'[path[i]] # NoRow
              /\ companies'[path[i]].tenant = companies'[c].tenant
              /\ companies'[path[i]].path = SubSeq(path, 1, i)
  <2>1. CASE i \in 1 .. Len(above)
    <3>1. /\ above[i] \in CompanyIds /\ companies'[above[i]] # NoRow
          /\ companies'[above[i]].tenant = companies'[p].tenant
          /\ companies'[above[i]].path = SubSeq(above, 1, i)
      BY <1>8, <1>9, <2>1 DEF InTree
    <3>2. SubSeq(path, 1, i) = SubSeq(above, 1, i)
      BY <1>1, <1>3, <2>1, PrefixOfAppend DEF path
    <3>3. QED
      BY <1>1, <1>2, <1>5, <1>9, <2>1, <3>1, <3>2
  <2>2. CASE i = Len(path)
    <3>1. SubSeq(path, 1, Len(path)) = path
      BY <1>5, SubSeqFull
    <3>2. QED
      BY <1>1, <1>5, <2>2, <3>1
  <2>3. QED
    BY <1>4, <1>5, <2>1, <2>2
<1>11. Len(path) = companies'[c].depth + 1
  <2>1. Len(above) = parent[r].depth + 1
    BY <1>7 DEF InTree
  <2>2. QED
    BY <1>1, <1>3, <1>5, <2>1
<1>12. QED
  BY <1>1, <1>5, <1>10, <1>11 DEF InTree

LEMMA TreeStep ==
  ASSUME Shape, PathsFormTrees(companies), NEW r \in Requests, Request(r)
  PROVE  PathsFormTrees(companies')
<1>1. SUFFICES ASSUME NEW c \in CompanyIds, companies'[c] # NoRow, companies'[c].path[1] # Pending
      PROVE  InTree(companies', c)
  BY DEF PathsFormTrees, InTree
<1>2. ASSUME companies'[c] = companies[c]
      PROVE  InTree(companies', c)
  <2>1. c \in Stored /\ InTree(companies, c) /\ companies[c].path[1] # Pending
    BY <1>1, <1>2 DEF PathsFormTrees, InTree, Stored
  <2>2. QED
    BY <2>1, TreeKept
<1>3. CASE Insert(r)
  <2>1. PICK new \in CompanyIds \ Stored, row \in Row :
          companies' = [companies EXCEPT ![new] = row] /\ row.path = << Pending >>
    BY <1>3, InsertWrites
  <2>2. << Pending >>[1] = Pending
    OBVIOUS
  <2>3. c # new
    BY <1>1, <2>1, <2>2 DEF Shape, TypeOK
  <2>4. QED
    BY <1>2, <2>1, <2>3 DEF Shape, TypeOK
<1>4. CASE SetPath(r)
  <2>1. CASE c = id[r]
    BY <1>1, <1>4, <2>1, TreeGrows
  <2>2. CASE c # id[r]
    BY <1>2, <1>4, <2>2, SetPathWrites DEF Shape, TypeOK
  <2>3. QED
    BY <2>1, <2>2
<1>5. CASE Update(r)
  <2>1. /\ op[r].target \in Stored
        /\ companies' = [companies EXCEPT ![op[r].target] = companies'[op[r].target]]
        /\ companies'[op[r].target].path = companies[op[r].target].path
    BY <1>5, UpdateWrites
  <2>2. CASE c = op[r].target
    <3>1. InTree(companies, c) /\ companies[c].path[1] # Pending
      BY <1>1, <2>1, <2>2 DEF PathsFormTrees, InTree, Stored
    <3>2. QED
      BY <2>1, <2>2, <3>1, TreeKept
  <2>3. CASE c # op[r].target
    BY <1>2, <2>1, <2>3 DEF Shape, TypeOK
  <2>4. QED
    BY <2>2, <2>3
<1>6. CASE ~Insert(r) /\ ~SetPath(r) /\ ~Update(r)
  BY <1>2, <1>6, OnlyWritesChange
<1>7. QED
  BY <1>3, <1>4, <1>5, <1>6

LEMMA PendingStep ==
  ASSUME Shape, PendingIsExplained, NEW r \in Requests, Request(r)
  PROVE  PendingIsExplained'
<1> DEFINE Opens(q, c) == op[q].kind = "create" /\ id[q] = c /\ pc[q] \in {"setPath", "failed"}
<1>1. SUFFICES ASSUME NEW c \in Stored', companies'[c].path = << Pending >>
      PROVE  \E q \in Requests : Opens(q, c)'
  BY DEF PendingIsExplained
<1>2. ASSUME c \in Stored, companies[c].path = << Pending >>, ~(SetPath(r) /\ c = id[r])
      PROVE  \E q \in Requests : Opens(q, c)'
  <2>1. PICK q \in Requests : Opens(q, c)
    BY <1>2 DEF PendingIsExplained
  <2>2. CASE q # r
    BY <2>1, <2>2, OthersKept DEF Shape
  <2>3. CASE q = r
    <3>1. ~SetPath(r)
      BY <1>2, <2>1, <2>3
    <3>2. Fail(r)
      BY <2>1, <2>3, <3>1 DEF Request, Start, List, ScopeParent, CheckRut, ReadParent, Insert, ScopeTarget,
                              ReadTarget, Update, UpdateWith, Publish, Answer, Audit
    <3>3. QED
      BY <2>1, <2>3, <3>2 DEF Fail, Goto, locals, Shape, TypeOK
  <2>4. QED
    BY <2>2, <2>3
<1>3. CASE Insert(r)
  <2>1. PICK new \in CompanyIds \ Stored, row \in Row :
          companies' = [companies EXCEPT ![new] = row] /\ id' = [id EXCEPT ![r] = new]
    BY <1>3, InsertWrites
  <2>2. CASE c = new
    <3>1. op[r].kind = "create"
      BY <1>3 DEF Insert, Shape, OpInv, CreateOps
    <3>2. op' = op /\ pc'[r] = "setPath" /\ id'[r] = new
      BY <1>3, <2>1 DEF Insert, Goto, Shape, TypeOK
    <3>3. QED
      BY <2>2, <3>1, <3>2
  <2>3. CASE c # new
    <3>1. companies'[c] = companies[c] /\ ~SetPath(r)
      BY <1>1, <1>3, <2>1, <2>3 DEF Shape, TypeOK, Stored, Insert, SetPath, SetPathUnder
    <3>2. QED
      BY <1>1, <1>2, <3>1 DEF Stored
  <2>4. QED
    BY <2>2, <2>3
<1>4. CASE SetPath(r)
  <2>1. /\ id[r] \in Stored
        /\ companies' = [companies EXCEPT ![id[r]] = companies'[id[r]]]
        /\ companies'[id[r]].path = Append(parent[r].path, id[r])
    BY <1>4, SetPathWrites
  <2>2. parent[r].path \in Seq(CompanyIds \cup {Pending}) /\ parent[r].path # << >>
    BY <1>4, RowFields DEF SetPath, SetPathUnder, Shape, CopyInv
  <2>3. Len(Append(parent[r].path, id[r])) # 1
    <3>1. Len(parent[r].path) \in Nat /\ Len(parent[r].path) # 0
      BY <2>2, EmptySeq, LenProperties
    <3>2. Len(Append(parent[r].path, id[r])) = Len(parent[r].path) + 1
      BY <2>1, <2>2, AppendProperties DEF Stored
    <3>3. QED
      BY <3>1, <3>2
  <2>4. c # id[r]
    <3>1. Len(<< Pending >>) = 1
      OBVIOUS
    <3>2. QED
      BY <1>1, <2>1, <2>3, <3>1
  <2>5. QED
    BY <1>1, <1>2, <2>1, <2>4 DEF Shape, TypeOK, Stored
<1>5. CASE Update(r)
  <2>1. /\ op[r].target \in Stored
        /\ companies' = [companies EXCEPT ![op[r].target] = companies'[op[r].target]]
        /\ companies'[op[r].target].path = companies[op[r].target].path
    BY <1>5, UpdateWrites
  <2>2. ~SetPath(r)
    BY <1>5 DEF Update, UpdateWith, SetPath, SetPathUnder
  <2>3. c \in Stored /\ companies[c].path = << Pending >>
    BY <1>1, <2>1 DEF Shape, TypeOK, Stored
  <2>4. QED
    BY <1>2, <2>2, <2>3
<1>6. CASE ~Insert(r) /\ ~SetPath(r) /\ ~Update(r)
  BY <1>1, <1>2, <1>6, OnlyWritesChange DEF Stored
<1>7. QED
  BY <1>3, <1>4, <1>5, <1>6

\* However updates move companies, insertions race and requests stop half way,
\* the stored paths stay trees within a tenant, and a company is outside of
\* them only by an insertion that has not finished (companies.repository.ts
\* writes '/pending' and then the path).
THEOREM PathsStayTrees == Spec => []PathTree
<1>1. Init => PathTree
  BY InitialAssumption DEF Init, PathTree, PendingIsExplained, Stored
<1>2. Shape /\ PathTree /\ [Next]_vars => PathTree'
  <2> SUFFICES ASSUME Shape, PathTree, [Next]_vars PROVE PathTree'
    OBVIOUS
  <2>1. CASE UNCHANGED vars
    BY <2>1 DEF vars, PathTree, PathsFormTrees, PendingIsExplained, Stored
  <2>2. ASSUME NEW r \in Requests, Request(r)
        PROVE  PathTree'
    BY <2>2, TreeStep, PendingStep DEF PathTree
  <2>3. QED
    BY <2>1, <2>2 DEF Next
<1>3. QED
  BY <1>1, <1>2, ShapeHolds, PTL DEF Spec
-----------------------------------------------------------------------------
\* what TypesAllowed says of one company
WellPlaced(table, c, changed) ==
  LET p == table[c].parent IN
  /\ p \in CompanyIds
  /\ table[p] # NoRow
  /\ table[p].tenant = table[c].tenant
  /\ p \notin changed => CanCreateChildCompany(table[p].type, table[c].type)

\* A company whose row keeps its type and its parent stays well placed.
LEMMA PlaceKept ==
  ASSUME Shape, NEW r \in Requests, Request(r), NEW c \in Stored, c \notin moved',
         companies[c].type # "OWNER", WellPlaced(companies, c, moved)
  PROVE  WellPlaced(companies', c, moved')
<1> DEFINE p == companies[c].parent
<1>1. moved \subseteq moved' /\ Kept(c) /\ p \in Stored /\ Kept(p)
  BY RowsAreKept DEF WellPlaced, Stored
<1>2. companies'[c].parent = p /\ companies'[c].type = companies[c].type
  BY <1>1 DEF Kept
<1>3. QED
  BY <1>1, <1>2 DEF Kept, WellPlaced

LEMMA TypesStep ==
  ASSUME Shape, TypesAllowed(companies, moved), NEW r \in Requests, Request(r)
  PROVE  TypesAllowed(companies', moved')
<1>1. SUFFICES ASSUME NEW c \in CompanyIds \ moved', companies'[c] # NoRow, companies'[c].type # "OWNER"
      PROVE  WellPlaced(companies', c, moved')
  BY DEF TypesAllowed, WellPlaced
<1>2. CASE c \in Stored
  <2>1. Kept(c) /\ c \notin moved
    BY <1>1, <1>2, RowsAreKept
  <2>2. companies[c].type # "OWNER"
    BY <1>1, <2>1 DEF Kept
  <2>3. WellPlaced(companies, c, moved)
    BY <1>1, <1>2, <2>1, <2>2 DEF TypesAllowed, WellPlaced, Stored
  <2>4. QED
    BY <1>1, <1>2, <2>2, <2>3, PlaceKept
<1>3. CASE c \notin Stored
  <2>1. Insert(r)
    <3>1. CASE SetPath(r)
      <4>1. id[r] \in Stored /\ companies' = [companies EXCEPT ![id[r]] = companies'[id[r]]]
        BY <3>1, SetPathWrites
      <4>2. QED
        BY <1>1, <1>3, <4>1 DEF Shape, TypeOK, Stored
    <3>2. CASE Update(r)
      <4>1. /\ op[r].target \in Stored
            /\ companies' = [companies EXCEPT ![op[r].target] = companies'[op[r].target]]
        BY <3>2, UpdateWrites
      <4>2. QED
        BY <1>1, <1>3, <4>1 DEF Shape, TypeOK, Stored
    <3>3. QED
      BY <1>1, <1>3, <3>1, <3>2, OnlyWritesChange DEF Stored
  <2>2. PICK new \in CompanyIds \ Stored, row \in Row :
          /\ companies' = [companies EXCEPT ![new] = row]
          /\ row.tenant = op[r].tenant /\ row.type = op[r].type /\ row.parent = op[r].parent
    BY <2>1, InsertWrites
  <2>3. c = new /\ companies'[c] = row
    BY <1>1, <1>3, <2>2 DEF Shape, TypeOK, Stored
  <2> DEFINE p == op[r].parent
  <2>4. /\ p \in Stored /\ companies[p].tenant = op[r].tenant
        /\ CanCreateChildCompany(parent[r].type, op[r].type)
        /\ p \notin moved => companies[p].type = parent[r].type
    BY <2>1 DEF Insert, Shape, CopyInv
  <2>5. companies'[p] = companies[p] /\ moved' = moved /\ p \in CompanyIds /\ companies[p] # NoRow
    BY <2>1, <2>2, <2>4 DEF Shape, TypeOK, Stored, Insert
  <2>6. QED
    BY <2>2, <2>3, <2>4, <2>5 DEF WellPlaced
<1>4. QED
  BY <1>2, <1>3

WasOwner(c) == InitialCompanies[c] # NoRow /\ InitialCompanies[c].type = "OWNER"

LEMMA OwnersStep ==
  ASSUME Shape, OwnerInv, OwnersWereOnboarded, NEW r \in Requests, Request(r)
  PROVE  OwnersWereOnboarded'
<1>1. SUFFICES ASSUME NEW c \in Stored', companies'[c].type = "OWNER"
      PROVE  WasOwner(c)
  BY DEF OwnersWereOnboarded, WasOwner
<1>2. ASSUME c \in Stored, companies[c].type = "OWNER"
      PROVE  WasOwner(c)
  BY <1>2 DEF OwnersWereOnboarded, WasOwner
<1>3. CASE Insert(r)
  <2>1. PICK new \in CompanyIds \ Stored, row \in Row :
          companies' = [companies EXCEPT ![new] = row] /\ row.type = op[r].type
    BY <1>3, InsertWrites
  <2>2. op[r].type # "OWNER"
    BY <1>3 DEF Insert, Shape, OpInv
  <2>3. c # new
    BY <1>1, <2>1, <2>2 DEF Shape, TypeOK
  <2>4. QED
    BY <1>1, <1>2, <2>1, <2>3 DEF Shape, TypeOK, Stored
<1>4. CASE SetPath(r)
  <2>1. /\ id[r] \in Stored
        /\ companies' = [companies EXCEPT ![id[r]] = companies'[id[r]]]
        /\ companies'[id[r]].type = companies[id[r]].type
    BY <1>4, SetPathWrites
  <2>2. c \in Stored /\ companies'[c].type = companies[c].type
    BY <1>1, <2>1 DEF Shape, TypeOK, Stored
  <2>3. QED
    BY <1>1, <1>2, <2>2
<1>5. CASE Update(r)
  <2>1. /\ op[r].target \in Stored
        /\ companies' = [companies EXCEPT ![op[r].target] = companies'[op[r].target]]
        /\ companies'[op[r].target].type \in {companies[op[r].target].type, op[r].type}
    BY <1>5, UpdateWrites
  <2>2. CASE c = op[r].target /\ op[r].type = "OWNER"
    BY <1>5, <2>2 DEF Update, UpdateWith, OwnerInv, WasOwner
  <2>3. CASE ~(c = op[r].target /\ op[r].type = "OWNER")
    <3>1. c \in Stored /\ companies[c].type = "OWNER"
      BY <1>1, <2>1, <2>3 DEF Shape, TypeOK, Stored
    <3>2. QED
      BY <1>2, <3>1
  <2>4. QED
    BY <2>2, <2>3
<1>6. CASE ~Insert(r) /\ ~SetPath(r) /\ ~Update(r)
  BY <1>1, <1>2, <1>6, OnlyWritesChange DEF Stored
<1>7. QED
  BY <1>3, <1>4, <1>5, <1>6

\* A request that is about to write OWNER has read an owner.
LEMMA OwnerInvStep ==
  ASSUME Shape, OwnerInv, OwnersWereOnboarded, NEW r \in Requests, Request(r)
  PROVE  OwnerInv'
<1>1. SUFFICES ASSUME NEW q \in Requests, pc'[q] = "update", op'[q].type = "OWNER"
      PROVE  WasOwner(op'[q].target)
  BY DEF OwnerInv, WasOwner
<1>2. CASE q # r
  <2>1. pc[q] = "update" /\ op'[q] = op[q]
    BY <1>1, <1>2, OthersKept DEF Shape
  <2>2. QED
    BY <1>1, <2>1 DEF OwnerInv, WasOwner
<1>3. CASE q = r
  <2>1. CASE Start(r)
    <3>1. PICK o \in Bodies :
            Goto(r, CASE o.kind = "create" -> "scopeParent"
                      [] o.kind = "update" -> "scopeTarget"
                      [] o.kind = "list" -> "list")
      BY <2>1 DEF Start
    <3>2. o.kind \in {"create", "update", "list"}
      BY BodiesAssumption DEF CreateOps, UpdateOps, ListOps
    <3>3. QED
      BY <1>1, <1>3, <3>1, <3>2 DEF Goto, Shape, TypeOK
  <2>2. CASE ~Start(r)
    <3>1. ReadTarget(r) /\ pc'[r] = "update"
      BY <1>1, <1>3, <2>2 DEF Request, List, ScopeParent, CheckRut, ReadParent, Insert, SetPath, SetPathUnder,
                              ScopeTarget, ReadTarget, Update, UpdateWith, Publish, Answer, Audit, Fail,
                              Refuse, Goto, Shape, TypeOK
    <3>2. ~(op[r].type = "OWNER" /\ companies[op[r].target].type # "OWNER") /\ op' = op
      BY <3>1 DEF ReadTarget, Refuse, Goto, locals, Shape, TypeOK
    <3>3. op[r].target \in Stored
      BY <3>1 DEF ReadTarget, Shape, OpInv
    <3>4. QED
      BY <1>1, <1>3, <3>2, <3>3 DEF OwnersWereOnboarded, WasOwner
  <2>3. QED
    BY <2>1, <2>2
<1>4. QED
  BY <1>2, <1>3

\* The hierarchy rules are checked on a copy of the parent and the OWNER rule on
\* a row read earlier; nevertheless only an update breaks the first, and nothing
\* breaks the second (CompaniesRepository.create, CompaniesService.update).
THEOREM RulesHold == Spec => []HierarchyRules
<1> DEFINE Rules == HierarchyRules /\ OwnerInv
<1>1. Init => Rules
  BY InitialAssumption DEF Init, HierarchyRules, OwnersWereOnboarded, OwnerInv, Stored
<1>2. Shape /\ Rules /\ [Next]_vars => Rules'
  <2> SUFFICES ASSUME Shape, Rules, [Next]_vars PROVE Rules'
    OBVIOUS
  <2>1. CASE UNCHANGED vars
    BY <2>1 DEF vars, HierarchyRules, TypesAllowed, OwnersWereOnboarded, OwnerInv, Stored
  <2>2. ASSUME NEW r \in Requests, Request(r)
        PROVE  Rules'
    <3>1. TypesAllowed(companies, moved)'
      BY <2>2, TypesStep DEF HierarchyRules
    <3>2. OwnersWereOnboarded' /\ OwnerInv'
      BY <2>2, OwnersStep, OwnerInvStep DEF HierarchyRules
    <3>3. QED
      BY <3>1, <3>2 DEF HierarchyRules
  <2>3. QED
    BY <2>1, <2>2 DEF Next
<1>3. Rules => HierarchyRules
  OBVIOUS
<1>4. QED
  BY <1>1, <1>2, <1>3, ShapeHolds, PTL DEF Spec
-----------------------------------------------------------------------------
\* where a company belongs: its tenant, and once it is settled its path and depth
PlaceStays(c) ==
  /\ c \in Stored'
  /\ companies'[c].tenant = companies[c].tenant
  /\ companies[c].path[1] # Pending =>
       companies'[c].path = companies[c].path /\ companies'[c].depth = companies[c].depth

\* No statement deletes a company, moves it to another tenant or changes a path
\* that is settled, not even the update of its parent; so a scope that was
\* resolved from paths stays right, and Access may take the companies for
\* constants (CompaniesRepository.update, AccessScopeService.resolve).
THEOREM PlacesStay == Spec => [][\A c \in Stored : PlaceStays(c)]_vars
<1>1. Shape /\ [Next]_vars => [\A c \in Stored : PlaceStays(c)]_vars
  BY RowsAreKept DEF Next, Kept, PlaceStays, Stored
<1>2. QED
  BY <1>1, ShapeHolds, PTL DEF Spec

\* The stored numbers are spelled in one way, whatever clients type.
LEMMA RutsAreSpelled ==
  ASSUME NEW rut \in Ruts
  PROVE  /\ \A i \in DOMAIN rut.body : rut.body[i] \in Digit
         /\ rut.body = WithoutLeadingZeros(rut.body)
         /\ CalculateVerifier(rut.body) = rut.verifier
<1>1. PICK value \in RutInputs : IsValid(value) /\ rut = Normalize(value)
  BY DEF Ruts, ValidInputs
<1>2. rut # Invalid /\ CalculateVerifier(rut.body) = rut.verifier
  BY <1>1 DEF IsValid
<1>3. rut.body \in Seq(Digit) /\ WithoutLeadingZeros(rut.body) = rut.body
  BY <1>1, <1>2, InputAssumption, NormalizeIs
<1>4. QED
  BY <1>2, <1>3

\* no two companies of a tenant share a number
RutsDiffer(table) ==
  \A c \in CompanyIds : \A d \in CompanyIds \ {c} :
    table[c] # NoRow /\ table[d] # NoRow /\ table[d].tenant = table[c].tenant => table[d].rut # table[c].rut

LEMMA KeysAre ==
  ASSUME TypeOK
  PROVE  RutsDiffer(companies) <=> OneCompanyPerRut
<1>1. \A c \in CompanyIds : companies[c] # NoRow => companies[c].rut \in Ruts
  BY RowFields DEF TypeOK
<1>2. QED
  BY <1>1, RutsAreSpelled DEF OneCompanyPerRut, RutsAreKeys, RutsDiffer

\* A row whose number is not taken joins the table, or replaces another.
LEMMA RutsDifferStill ==
  ASSUME TypeOK, RutsDiffer(companies), NEW c \in CompanyIds, NEW row \in Row,
         companies' = [companies EXCEPT ![c] = row], ~RutTaken(c, row.tenant, row.rut)
  PROVE  RutsDiffer(companies)'
<1>1. companies'[c] = row /\ \A d \in CompanyIds \ {c} : companies'[d] = companies[d]
  BY DEF TypeOK
<1>2. \A d \in CompanyIds \ {c} :
        companies[d] # NoRow /\ companies[d].tenant = row.tenant => companies[d].rut # row.rut
  BY DEF RutTaken, Stored
<1>3. QED
  BY <1>1, <1>2 DEF RutsDiffer

LEMMA RutStep ==
  ASSUME Shape, RutsDiffer(companies), NEW r \in Requests, Request(r)
  PROVE  RutsDiffer(companies)'
<1>1. CASE Insert(r)
  <2>1. PICK c \in CompanyIds, row \in Row :
          companies' = [companies EXCEPT ![c] = row] /\ ~RutTaken(c, row.tenant, row.rut)
    BY <1>1, InsertWrites
  <2>2. QED
    BY <2>1, RutsDifferStill DEF Shape
<1>2. CASE SetPath(r)
  <2>1. /\ id[r] \in Stored /\ companies'[id[r]] \in Row
        /\ companies' = [companies EXCEPT ![id[r]] = companies'[id[r]]]
        /\ companies'[id[r]].tenant = companies[id[r]].tenant /\ companies'[id[r]].rut = companies[id[r]].rut
    BY <1>2, SetPathWrites
  <2>2. \A c \in CompanyIds : companies'[c] # NoRow =>
          companies[c] # NoRow /\ companies'[c].tenant = companies[c].tenant /\ companies'[c].rut = companies[c].rut
    BY <2>1 DEF Shape, TypeOK, Stored
  <2>3. QED
    BY <2>2 DEF RutsDiffer
<1>3. CASE Update(r)
  <2> DEFINE c == op[r].target
             row == companies'[c]
  <2>1. /\ c \in CompanyIds /\ row \in Row /\ companies' = [companies EXCEPT ![c] = row]
        /\ ~RutTaken(c, row.tenant, row.rut)
    BY <1>3, UpdateWrites DEF Stored
  <2> HIDE DEF c
  <2>2. PICK new \in Row : new = row
    BY <2>1
  <2>3. QED
    BY <2>1, <2>2, RutsDifferStill DEF Shape
<1>4. CASE ~Insert(r) /\ ~SetPath(r) /\ ~Update(r)
  BY <1>4, OnlyWritesChange DEF RutsDiffer
<1>5. QED
  BY <1>1, <1>2, <1>3, <1>4

\* A tenant has one company per tax number, however clients spell it and however
\* creations and updates race: numbers are normalised and checked before they are
\* written, and the unique index stands behind both (companies.repository.ts).
THEOREM NumbersStayKeys == Spec => []OneCompanyPerRut
<1>1. Init => RutsDiffer(companies)
  BY InitialAssumption DEF Init, RutsAreKeys, RutsDiffer
<1>2. Shape /\ RutsDiffer(companies) /\ [Next]_vars => RutsDiffer(companies)'
  BY RutStep DEF Next, vars, RutsDiffer
<1>3. Shape /\ RutsDiffer(companies) => OneCompanyPerRut
  BY KeysAre DEF Shape
<1>4. QED
  BY <1>1, <1>2, <1>3, ShapeHolds, PTL DEF Spec

\* The verifier of every number that a client can type notices one wrong digit
\* and two neighbours that are swapped, for numbers of every length: 11 is prime
\* and no two neighbouring multipliers are equal (VerifiersCatchSlips;
\* chilean-rut.ts:24).
THEOREM VerifiersCatch == Spec => []VerifierCatchesSlips
<1>1. ASSUME NEW value \in RutInputs, Normalize(value) # Invalid
      PROVE  CatchesSlips(Normalize(value).body)
  <2>1. Normalize(value).body \in Seq(Digit)
    BY <1>1, InputAssumption, NormalizeIs
  <2>2. QED
    BY <2>1, VerifiersCatchSlips
<1>2. VerifierCatchesSlips
  BY <1>1 DEF VerifierCatchesSlips
<1>3. QED
  BY <1>2, PTL
-----------------------------------------------------------------------------
\* what a request has written and announced, by the statement it runs next
EventInv ==
  /\ \A e \in events : e.request \in Requests /\ pc[e.request] \in {"answer", "answered", "audited"}
  /\ \A r \in Requests :
       /\ out[r] # NoRow => pc[r] \in {"publish", "answer", "answered", "audited", "failed"}
       /\ pc[r] = "publish" => out[r] # NoRow
       /\ pc[r] \in {"answer", "answered", "audited"} => r \in Announced
  /\ \A r \in audits : pc[r] = "audited"

Written == {r \in Requests : out[r] # NoRow}
Answered == {r \in Requests : pc[r] \in {"answered", "audited"}}

\* What a step of one request has to show of that request.
LEMMA EventInvOfOne ==
  ASSUME EventInv, audits \subseteq Requests, NEW r \in Requests,
         \A q \in Requests : q # r => pc'[q] = pc[q] /\ out'[q] = out[q],
         \A e \in events' : e \in events \/ e.request = r,
         \A e \in events' : e.request = r => pc'[r] \in {"answer", "answered", "audited"},
         Announced \ {r} \subseteq Announced',
         out'[r] # NoRow => pc'[r] \in {"publish", "answer", "answered", "audited", "failed"},
         pc'[r] = "publish" => out'[r] # NoRow,
         pc'[r] \in {"answer", "answered", "audited"} => r \in Announced',
         \A q \in audits' : q \in audits \/ q = r,
         r \in audits' => pc'[r] = "audited"
  PROVE  EventInv'
<1>1. ASSUME NEW e \in events'
      PROVE  e.request \in Requests /\ pc'[e.request] \in {"answer", "answered", "audited"}
  <2>1. CASE e.request = r
    BY <1>1, <2>1
  <2>2. CASE e.request # r
    <3>1. e.request \in Requests /\ pc[e.request] \in {"answer", "answered", "audited"}
      BY <1>1, <2>2 DEF EventInv
    <3>2. QED
      BY <2>2, <3>1
  <2>3. QED
    BY <2>1, <2>2
<1>2. ASSUME NEW q \in Requests
      PROVE  /\ out'[q] # NoRow => pc'[q] \in {"publish", "answer", "answered", "audited", "failed"}
             /\ pc'[q] = "publish" => out'[q] # NoRow
             /\ pc'[q] \in {"answer", "answered", "audited"} => q \in Announced'
  <2>1. CASE q = r
    BY <2>1
  <2>2. CASE q # r
    <3>1. /\ out[q] # NoRow => pc[q] \in {"publish", "answer", "answered", "audited", "failed"}
          /\ pc[q] = "publish" => out[q] # NoRow
          /\ pc[q] \in {"answer", "answered", "audited"} => q \in Announced
      BY DEF EventInv
    <3>2. QED
      BY <2>2, <3>1
  <2>3. QED
    BY <2>1, <2>2
<1>3. ASSUME NEW q \in audits'
      PROVE  pc'[q] = "audited"
  BY <1>3 DEF EventInv
<1>4. QED
  BY <1>1, <1>2, <1>3 DEF EventInv

\* Every step of a request is a step of its announcement, or none.
LEMMA AnnouncementStep ==
  ASSUME Shape, EventInv, NEW r \in Requests, Request(r)
  PROVE  EventInv' /\ [Announcement!Next]_(Announcement!eventVars)
<1> USE DEF Written, Answered
<1>1. \A q \in Requests : q # r => pc'[q] = pc[q] /\ out'[q] = out[q]
  BY OthersKept DEF Shape
<1>2. ASSUME Insert(r) \/ ~(SetPath(r) \/ Update(r) \/ Publish(r) \/ Answer(r) \/ Audit(r))
      PROVE  /\ out' = out /\ events' = events /\ audits' = audits
             /\ pc[r] \in {"idle", "list", "scopeParent", "checkRut", "readParent", "insert", "scopeTarget",
                           "readTarget", "setPath", "update", "publish"}
             /\ pc'[r] \notin {"publish", "answer", "answered", "audited"}
             /\ pc[r] = "publish" => pc'[r] = "failed"
  <2>1. CASE Start(r)
    <3>1. PICK o \in Bodies :
            Goto(r, CASE o.kind = "create" -> "scopeParent"
                      [] o.kind = "update" -> "scopeTarget"
                      [] o.kind = "list" -> "list")
      BY <2>1 DEF Start
    <3>2. o.kind \in {"create", "update", "list"}
      BY BodiesAssumption DEF CreateOps, UpdateOps, ListOps
    <3>3. QED
      BY <2>1, <3>1, <3>2 DEF Start, Goto, Shape, TypeOK
  <2>2. CASE ~Start(r)
    BY <1>2, <2>2 DEF Request, List, ScopeParent, CheckRut, ReadParent, Insert, ScopeTarget, ReadTarget,
                      Fail, Refuse, Goto, locals, Shape, TypeOK
  <2>3. QED
    BY <2>1, <2>2
<1>3. CASE Insert(r) \/ ~(SetPath(r) \/ Update(r) \/ Publish(r) \/ Answer(r) \/ Audit(r))
  <2>1. Announced' = Announced /\ Written' = Written
    BY <1>2, <1>3 DEF Announced
  <2>2. Answered' = Answered
    BY <1>1, <1>2, <1>3
  <2>3. EventInv'
    BY <1>1, <1>2, <1>3, <2>1, EventInvOfOne DEF EventInv, Shape, TypeOK
  <2>4. QED
    BY <1>2, <1>3, <2>1, <2>2, <2>3 DEF Announcement!eventVars
<1>4. CASE SetPath(r) \/ Update(r)
  <2>1. /\ events' = events /\ audits' = audits
        /\ pc[r] \in {"setPath", "update"} /\ pc'[r] = "publish"
    BY <1>4 DEF SetPath, SetPathUnder, Update, UpdateWith, Goto, Shape, TypeOK
  <2>2. out'[r] # NoRow
    <3>1. CASE SetPath(r)
      BY <3>1, SetPathWrites, RowFields DEF Shape, TypeOK
    <3>2. CASE Update(r)
      BY <3>2, UpdateWrites, RowFields DEF Shape, TypeOK
    <3>3. QED
      BY <1>4, <3>1, <3>2
  <2>3. out[r] = NoRow /\ \A e \in events : e.request # r
    BY <2>1 DEF EventInv
  <2>4. Written' = Written \cup {r} /\ r \notin Written
    BY <1>1, <2>2, <2>3
  <2>5. Announced' = Announced
    BY <1>1, <2>1, <2>3 DEF Announced
  <2>6. Answered' = Answered
    BY <1>1, <2>1
  <2>7. EventInv'
    BY <1>1, <2>1, <2>2, <2>3, <2>5, EventInvOfOne DEF EventInv, Shape, TypeOK
  <2>8. Announcement!Write(r)
    BY <2>1, <2>4, <2>5, <2>6 DEF Announcement!Write
  <2>9. QED
    BY <2>7, <2>8 DEF Announcement!Next
<1>5. CASE Publish(r)
  <2> DEFINE e == [request |-> r, type |-> op[r].kind, company |-> id[r], row |-> out[r]]
  <2>1. /\ events' = events \cup {e} /\ audits' = audits /\ out' = out
        /\ pc[r] = "publish" /\ pc'[r] = "answer"
    BY <1>5 DEF Publish, Goto, locals, Shape, TypeOK
  <2>2. e.request = r /\ e.row = out[r]
    OBVIOUS
  <2> HIDE DEF e
  <2>3. out[r] # NoRow /\ r \notin Announced
    BY <2>1 DEF EventInv, Announced
  <2>4. Announced' = Announced \cup {r} /\ Written' = Written /\ r \in Written
    BY <2>1, <2>2, <2>3 DEF Announced
  <2>5. Answered' = Answered
    BY <1>1, <2>1
  <2>6. EventInv'
    BY <1>1, <2>1, <2>2, <2>3, <2>4, EventInvOfOne DEF EventInv, Shape, TypeOK
  <2>7. Announcement!Announce(r)
    BY <2>1, <2>3, <2>4, <2>5 DEF Announcement!Announce
  <2>8. QED
    BY <2>6, <2>7 DEF Announcement!Next
<1>6. CASE Answer(r)
  <2>1. /\ events' = events /\ audits' = audits /\ out' = out
        /\ pc[r] = "answer" /\ pc'[r] = "answered"
    BY <1>6 DEF Answer, Goto, locals, Shape, TypeOK
  <2>2. Announced' = Announced /\ Written' = Written /\ r \in Announced
    BY <2>1 DEF Announced, EventInv
  <2>3. Answered' = Answered \cup {r} /\ r \notin Answered
    BY <1>1, <2>1
  <2>4. EventInv'
    BY <1>1, <2>1, <2>2, EventInvOfOne DEF EventInv, Shape, TypeOK
  <2>5. Announcement!Answer(r)
    BY <2>1, <2>2, <2>3 DEF Announcement!Answer
  <2>6. QED
    BY <2>4, <2>5 DEF Announcement!Next
<1>7. CASE Audit(r)
  <2>1. /\ events' = events /\ audits' = audits \cup {r} /\ out' = out
        /\ pc[r] = "answered" /\ pc'[r] = "audited"
    BY <1>7 DEF Audit, Goto, locals, Shape, TypeOK
  <2>2. Announced' = Announced /\ Written' = Written
    BY <2>1 DEF Announced
  <2>3. Answered' = Answered /\ r \in Answered /\ r \notin audits
    BY <1>1, <2>1 DEF EventInv
  <2>4. EventInv'
    BY <1>1, <2>1, <2>2, EventInvOfOne DEF EventInv, Shape, TypeOK
  <2>5. Announcement!Audit(r)
    BY <2>1, <2>2, <2>3 DEF Announcement!Audit
  <2>6. QED
    BY <2>4, <2>5 DEF Announcement!Next
<1>8. QED
  BY <1>3, <1>4, <1>5, <1>6, <1>7

\* Whatever statement fails, an answered change is in the outbox with the row it
\* wrote, each change is announced at most once, and the audit log knows only
\* answered requests (CompaniesService.create and update, AuditInterceptor).
THEOREM EventsAreKept == Spec => ImplementsDomainEvents
<1>1. Init => EventInv /\ Announcement!Init
  BY DEF Init, EventInv, Announced, Announcement!Init
<1>2. Shape /\ EventInv /\ [Next]_vars => EventInv' /\ [Announcement!Next]_(Announcement!eventVars)
  <2> SUFFICES ASSUME Shape, EventInv, [Next]_vars
               PROVE  EventInv' /\ [Announcement!Next]_(Announcement!eventVars)
    OBVIOUS
  <2>1. CASE UNCHANGED vars
    BY <2>1 DEF vars, EventInv, Announced, Announcement!eventVars
  <2>2. ASSUME NEW r \in Requests, Request(r)
        PROVE  EventInv' /\ [Announcement!Next]_(Announcement!eventVars)
    BY <2>2, AnnouncementStep
  <2>3. QED
    BY <2>1, <2>2 DEF Next
<1>3. QED
  BY <1>1, <1>2, ShapeHolds, PTL DEF Spec, ImplementsDomainEvents, Announcement!Spec
=============================================================================
