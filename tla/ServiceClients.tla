---------------------------- MODULE ServiceClients ----------------------------
(***************************************************************************)
(* One service client: its row of auth.service_clients, the versions of    *)
(* its secret in auth.service_client_secrets, and who works on them:       *)
(* administrators (create, update, rotate), the seed script, and requests  *)
(* of other services that the guard lets in.  No statement touches the     *)
(* rows of two clients, so one client is all of it.                        *)
(*                                                                         *)
(* Every statement is an action.  A rotation is a READ COMMITTED           *)
(* transaction: its statements read what is committed when they start, its *)
(* writes appear when it commits, and until then its insert keeps others   *)
(* from inserting the same version and its update keeps the row locked.    *)
(* The seed has no transaction.  Names, scopes, last_used_at and           *)
(* replaced_by_secret_id decide nothing here and are left out.             *)
(***************************************************************************)
EXTENDS Integers, FiniteSets

CONSTANTS
  Admins,      \* slots for calls of rotateSecret
  Seeds,       \* slots for runs of the seed script
  Callers,     \* slots for requests with client credentials
  Configured,  \* the secrets the seed's environment may hold
  Generated,   \* the secrets the service may generate
  NoSecret,
  MaxVersion,  \* bound on the versions of the secret
  Window       \* how many versions the seed looks at: 20

Secrets  == Configured \union Generated
Slots    == Admins \union Seeds
Versions == 1 .. MaxVersion

ASSUME SecretAssumption == Configured \intersect Generated = {} /\ NoSecret \notin Secrets
ASSUME SlotAssumption ==
  /\ Admins \intersect Seeds = {}
  /\ Admins \intersect Callers = {}
  /\ Seeds \intersect Callers = {}
ASSUME BoundAssumption == MaxVersion \in Nat \ {0} /\ Window \in Nat \ {0}

VARIABLES
  status,   \* of the client, "NONE" while it has no row
  \* auth.service_client_secrets, by version
  secret,   \* what secret_hash was made from, NoSecret without a row
  primary,  \* is_primary
  until,    \* valid_until: never (null), later, over
  revoked,  \* revoked_at is set
  \* the calls in flight
  pc,       \* the statement a call waits for
  mine,     \* the secret a rotation or a seed wants to store
  next,     \* the version it is to get, 0 if undefined
  prev,     \* the primary version a rotation replaces, 0 if there is none
  targets,  \* the versions the seed's update revokes
  shown,    \* the secret a caller presented
  \* history
  owed,     \* callers whose secret was current when the request began, and only
            \* rotated since
  cut       \* a seed ended between its statements and left no lasting secret

secretVars == << secret, primary, until, revoked >>
slotVars   == << mine, next, prev, targets >>
callerVars == << shown, owed >>
vars == << status, secretVars, pc, slotVars, callerVars, cut >>

Statuses    == {"ACTIVE", "REVOKED", "DISABLED"}
Ends        == {"never", "later", "over"}
AdminSteps  == {"idle", "latest", "primary", "inserting", "demoting", "committing"}
SeedSteps   == {"idle", "creating", "first", "listing", "matched",
                "bootstrap", "revoking", "waiting", "replacing"}
CallerSteps == {"idle", "active", "admitted"}

TypeOK ==
  /\ status \in Statuses \union {"NONE"}
  /\ secret \in [Versions -> Secrets \union {NoSecret}]
  /\ primary \in [Versions -> BOOLEAN]
  /\ until \in [Versions -> Ends]
  /\ revoked \in [Versions -> BOOLEAN]
  /\ pc \in [Slots \union Callers -> AdminSteps \union SeedSteps \union CallerSteps]
  /\ \A a \in Admins : pc[a] \in AdminSteps
  /\ \A d \in Seeds : pc[d] \in SeedSteps
  /\ \A c \in Callers : pc[c] \in CallerSteps
  /\ mine \in [Slots -> Secrets \union {NoSecret}]
  /\ next \in [Slots -> 0 .. MaxVersion]
  /\ prev \in [Admins -> 0 .. MaxVersion]
  /\ targets \in [Seeds -> SUBSET Versions]
  /\ shown \in [Callers -> Secrets \union {NoSecret}]
  /\ owed \subseteq Callers
  /\ cut \in BOOLEAN

Init ==
  /\ status = "NONE"
  /\ secret = [v \in Versions |-> NoSecret]
  /\ primary = [v \in Versions |-> FALSE]
  /\ until = [v \in Versions |-> "never"]
  /\ revoked = [v \in Versions |-> FALSE]
  /\ pc = [s \in Slots \union Callers |-> "idle"]
  /\ mine = [s \in Slots |-> NoSecret]
  /\ next = [s \in Slots |-> 0]
  /\ prev = [a \in Admins |-> 0]
  /\ targets = [d \in Seeds |-> {}]
  /\ shown = [c \in Callers |-> NoSecret]
  /\ owed = {}
  /\ cut = FALSE

-----------------------------------------------------------------------------
(* Helpers.                                                                *)

Exists(v)  == secret[v] # NoSecret
Stored     == {v \in Versions : Exists(v)}
Unrevoked(v) == Exists(v) /\ ~revoked[v]
\* what the guard accepts, and what stays accepted until somebody acts
Accepted(v)  == Unrevoked(v) /\ until[v] # "over"
Lasting(v)   == Unrevoked(v) /\ until[v] = "never"

LockedOut    == \A v \in Versions : ~Lasting(v)

Newest(S, v) == v \in S /\ \A w \in S : w <= v

\* the version a transaction inserted, and the one it updated, before its commit
Held(v)      == \E a \in Admins : next[a] = v /\ pc[a] \in {"demoting", "committing"}
RowLocked(v) == \E a \in Admins : prev[a] = v /\ pc[a] = "committing"

Goto(s, step) == pc' = [pc EXCEPT ![s] = step]

End(s) ==
  /\ Goto(s, "idle")
  /\ mine' = [mine EXCEPT ![s] = NoSecret]
  /\ next' = [next EXCEPT ![s] = 0]
  /\ prev' = [a \in Admins |-> IF a = s THEN 0 ELSE prev[a]]
  /\ targets' = [d \in Seeds |-> IF d = s THEN {} ELSE targets[d]]

\* a row of a new secret: primary, never revoked, no end
Insert(v, x) ==
  /\ secret' = [secret EXCEPT ![v] = x]
  /\ primary' = [primary EXCEPT ![v] = TRUE]
  /\ UNCHANGED << until, revoked >>

Unused(x) == (\A v \in Versions : secret[v] # x) /\ (\A s \in Slots : mine[s] # x)

-----------------------------------------------------------------------------
(* Administration.                                                         *)

\* create: the client and version 1 in one transaction; 409 if it exists
CreateClient(x, st) ==
  /\ status = "NONE"
  /\ x \in Configured \/ Unused(x)
  /\ status' = st
  /\ Insert(1, x)
  /\ UNCHANGED << pc, slotVars, callerVars, cut >>

\* (variant: the new status is not validated)
UpdateClientUnchecked(st) ==
  /\ status # "NONE"
  /\ status' \in {st, "SUSPENDED"}
  /\ UNCHANGED << secretVars, pc, slotVars, callerVars, cut >>

\* update, enable, disable, revoke: any status after any other
UpdateClient(st) ==
  /\ status # "NONE"
  /\ status' = st
  /\ UNCHANGED << secretVars, pc, slotVars, callerVars, cut >>

\* rotateSecret: the secret is generated, the client found
StartRotation(a, x) ==
  /\ pc[a] = "idle"
  /\ status # "NONE"
  /\ Unused(x)
  /\ mine' = [mine EXCEPT ![a] = x]
  /\ Goto(a, "latest")
  /\ UNCHANGED << status, secretVars, next, prev, targets, callerVars, cut >>

ReadLatest(a) ==
  /\ pc[a] = "latest"
  /\ \/ Stored = {} /\ next' = [next EXCEPT ![a] = 1]
     \/ \E v \in Versions :
          /\ Newest(Stored, v)
          /\ v < MaxVersion    \* bound
          /\ next' = [next EXCEPT ![a] = v + 1]
  /\ Goto(a, "primary")
  /\ UNCHANGED << status, secretVars, mine, prev, targets, callerVars, cut >>

ReadPrimary(a) ==
  LET current == {v \in Versions : primary[v] /\ Accepted(v)} IN
  /\ pc[a] = "primary"
  /\ \/ current = {} /\ prev' = [prev EXCEPT ![a] = 0]
     \/ \E v \in current : Newest(current, v) /\ prev' = [prev EXCEPT ![a] = v]
  /\ Goto(a, "inserting")
  /\ UNCHANGED << status, secretVars, mine, next, targets, callerVars, cut >>

\* (variant: the version is computed by the insert, not by the earlier read)
InsertSecretLate(a) ==
  /\ pc[a] = "inserting"
  /\ \E v \in Versions \ Stored :
       /\ \A w \in Versions : w < v => Exists(w)
       /\ ~Held(v)
       /\ next' = [next EXCEPT ![a] = v]
  /\ Goto(a, "demoting")
  /\ UNCHANGED << status, secretVars, mine, prev, targets, callerVars, cut >>

\* waits for another transaction with the same version; a duplicate rolls back
InsertSecret(a) ==
  /\ pc[a] = "inserting"
  /\ ~Held(next[a])
  /\ \/ Exists(next[a]) /\ End(a)
     \/ ~Exists(next[a]) /\ Goto(a, "demoting") /\ UNCHANGED slotVars
  /\ UNCHANGED << status, secretVars, callerVars, cut >>

Demote(a) ==
  /\ pc[a] = "demoting"
  /\ prev[a] = 0 \/ ~RowLocked(prev[a])
  /\ Goto(a, "committing")
  /\ UNCHANGED << status, secretVars, slotVars, callerVars, cut >>

\* (variants: the old secret is made valid again, gets no grace period, or every
\* primary is demoted, the new one too)
CommitRotationRestores(a) ==
  /\ pc[a] = "committing"
  /\ secret' = [secret EXCEPT ![next[a]] = mine[a]]
  /\ primary' = [v \in Versions |-> v = next[a] \/ (primary[v] /\ v # prev[a])]
  /\ until' = [v \in Versions |-> IF v = prev[a] THEN "later" ELSE until[v]]
  /\ revoked' = [v \in Versions |-> revoked[v] /\ v # prev[a]]
  /\ cut' = FALSE
  /\ End(a)
  /\ UNCHANGED << status, callerVars >>
CommitRotationAtOnce(a) ==
  /\ pc[a] = "committing"
  /\ secret' = [secret EXCEPT ![next[a]] = mine[a]]
  /\ primary' = [v \in Versions |-> v = next[a] \/ (primary[v] /\ v # prev[a])]
  /\ until' = [v \in Versions |-> IF v = prev[a] THEN "over" ELSE until[v]]
  /\ cut' = FALSE
  /\ End(a)
  /\ UNCHANGED << status, revoked, callerVars >>
CommitRotationDemotesAll(a) ==
  /\ pc[a] = "committing"
  /\ secret' = [secret EXCEPT ![next[a]] = mine[a]]
  /\ primary' = [v \in Versions |-> FALSE]
  /\ until' = [v \in Versions |->
                 IF primary[v] \/ v = next[a] THEN "later" ELSE until[v]]
  /\ cut' = FALSE
  /\ End(a)
  /\ UNCHANGED << status, revoked, callerVars >>

CommitRotation(a) ==
  LET new == next[a]
      old == prev[a] IN
  /\ pc[a] = "committing"
  /\ secret' = [secret EXCEPT ![new] = mine[a]]
  /\ primary' = [v \in Versions |-> v = new \/ (primary[v] /\ v # old)]
  /\ until' = [v \in Versions |-> IF v = old THEN "later" ELSE until[v]]
  /\ cut' = FALSE
  /\ UNCHANGED revoked
  /\ End(a)
  /\ UNCHANGED << status, callerVars >>

-----------------------------------------------------------------------------
(* The seed script, for one client of its list.                            *)

\* the environment holds x; the client is looked for
StartSeed(d, x) ==
  /\ pc[d] = "idle"
  /\ mine' = [mine EXCEPT ![d] = x]
  /\ Goto(d, IF status = "NONE" THEN "creating" ELSE "listing")
  /\ UNCHANGED << status, secretVars, next, prev, targets, callerVars, cut >>

SeedClient(d) ==
  /\ pc[d] = "creating"
  /\ \/ /\ status = "NONE"
        /\ status' = "ACTIVE"
        /\ Goto(d, "first")
        /\ UNCHANGED slotVars
     \/ /\ status # "NONE"    \* unique client_id
        /\ End(d)
        /\ UNCHANGED status
  /\ UNCHANGED << secretVars, callerVars, cut >>

\* the newest versions are listed and compared, revoked or not
ListSecrets(d) ==
  LET seen == {v \in Stored : Cardinality({w \in Stored : w > v}) < Window} IN
  /\ pc[d] = "listing"
  /\ \/ /\ seen = {}
        /\ Goto(d, "bootstrap")
        /\ UNCHANGED next
     \/ /\ \E v \in seen : secret[v] = mine[d]
        /\ Goto(d, "matched")
        /\ UNCHANGED next
     \/ \E v \in Versions :
        /\ Newest(seen, v)
        /\ \A w \in seen : secret[w] # mine[d]
        /\ v < MaxVersion    \* bound
        /\ next' = [next EXCEPT ![d] = v + 1]
        /\ Goto(d, "revoking")
  /\ UNCHANGED << status, secretVars, mine, prev, targets, callerVars, cut >>

\* skipped_existing
SkipExisting(d) ==
  /\ pc[d] = "matched"
  /\ End(d)
  /\ UNCHANGED << status, secretVars, callerVars, cut >>

\* version 1 of a client that has none; the script then goes on as if it had
\* compared, or, with a client of its own making, is done
SeedFirst(d) ==
  /\ pc[d] \in {"first", "bootstrap"}
  /\ ~Held(1)
  /\ \/ /\ Exists(1)
        /\ End(d)
        /\ UNCHANGED << secretVars, cut >>
     \/ /\ ~Exists(1)
        /\ Insert(1, mine[d])
        /\ cut' = FALSE
        /\ \/ pc[d] = "first" /\ End(d)
           \/ pc[d] = "bootstrap" /\ Goto(d, "revoking") /\ UNCHANGED slotVars
  /\ UNCHANGED << status, callerVars >>

\* the update of all versions starts: it sees those that are committed
StartRevoking(d) ==
  /\ pc[d] = "revoking"
  /\ targets' = [targets EXCEPT ![d] = Stored]
  /\ Goto(d, "waiting")
  /\ UNCHANGED << status, secretVars, mine, next, prev, callerVars, cut >>

\* and ends when it got the locks of all of them
RevokeSecrets(d) ==
  /\ pc[d] = "waiting"
  /\ \A v \in targets[d] : ~RowLocked(v)
  /\ primary' = [v \in Versions |-> primary[v] /\ v \notin targets[d]]
  /\ until' = [v \in Versions |-> IF v \in targets[d] THEN "over" ELSE until[v]]
  /\ revoked' = [v \in Versions |-> revoked[v] \/ v \in targets[d]]
  /\ owed' = {}
  /\ Goto(d, "replacing")
  /\ UNCHANGED << status, secret, slotVars, shown, cut >>

\* existingSecret is undefined after a bootstrap, and a version that another
\* call stored meanwhile is a duplicate: the script throws
ReplaceSecret(d) ==
  /\ pc[d] = "replacing"
  /\ ~Held(next[d])
  /\ \/ /\ next[d] \notin Versions \ Stored
        /\ cut' = (cut \/ LockedOut)
        /\ UNCHANGED secretVars
     \/ /\ next[d] \in Versions \ Stored
        /\ Insert(next[d], mine[d])
        /\ cut' = FALSE
  /\ End(d)
  /\ UNCHANGED << status, callerVars >>

-----------------------------------------------------------------------------
(* The guard.                                                              *)

CheckClient(c, x) ==
  /\ pc[c] = "idle"
  /\ status = "ACTIVE"
  /\ shown' = [shown EXCEPT ![c] = x]
  /\ owed' = IF \E v \in Versions : Lasting(v) /\ secret[v] = x
               THEN owed \union {c} ELSE owed
  /\ Goto(c, "active")
  /\ UNCHANGED << status, secretVars, slotVars, cut >>

Leave(c) ==
  /\ Goto(c, "idle")
  /\ shown' = [shown EXCEPT ![c] = NoSecret]
  /\ owed' = owed \ {c}

\* one of the accepted versions must match
AdmitCaller(c) ==
  /\ pc[c] = "active"
  /\ \E v \in Versions : Accepted(v) /\ secret[v] = shown[c]
  /\ Goto(c, "admitted")
  /\ UNCHANGED << status, secretVars, slotVars, callerVars, cut >>

RefuseCaller(c) ==
  /\ pc[c] = "active"
  /\ ~ \E v \in Versions : Accepted(v) /\ secret[v] = shown[c]
  /\ Leave(c)
  /\ UNCHANGED << status, secretVars, slotVars, cut >>

\* the scope check and the handler
AnswerCaller(c) ==
  /\ pc[c] = "admitted"
  /\ Leave(c)
  /\ UNCHANGED << status, secretVars, slotVars, cut >>

-----------------------------------------------------------------------------
\* the grace period of a demoted version ends
Lapse(v) ==
  /\ until[v] = "later"
  /\ until' = [until EXCEPT ![v] = "over"]
  /\ owed' = {c \in owed : shown[c] # secret[v]}
  /\ UNCHANGED << status, secret, primary, revoked, pc, slotVars, shown, cut >>

\* a crash or a failed statement: a rotation rolls back, a seed stops half-way
Abort(s) ==
  /\ pc[s] # "idle"
  /\ cut' = (cut \/ (pc[s] \in {"first", "replacing"} /\ LockedOut))
  /\ End(s)
  /\ UNCHANGED << status, secretVars, callerVars >>

RotationStep(a) ==
  \/ \E x \in Generated : StartRotation(a, x)
  \/ ReadLatest(a)
  \/ ReadPrimary(a)
  \/ InsertSecret(a)
  \/ Demote(a)
  \/ CommitRotation(a)

SeedStep(d) ==
  \/ \E x \in Configured : StartSeed(d, x)
  \/ SeedClient(d)
  \/ ListSecrets(d)
  \/ SkipExisting(d)
  \/ SeedFirst(d)
  \/ StartRevoking(d)
  \/ RevokeSecrets(d)
  \/ ReplaceSecret(d)

CallerStep(c) ==
  \/ \E x \in Secrets : CheckClient(c, x)
  \/ AdmitCaller(c)
  \/ RefuseCaller(c)
  \/ AnswerCaller(c)

Next ==
  \/ \E x \in Secrets, st \in Statuses : CreateClient(x, st)
  \/ \E st \in Statuses : UpdateClient(st)
  \/ \E a \in Admins : RotationStep(a)
  \/ \E d \in Seeds : SeedStep(d)
  \/ \E c \in Callers : CallerStep(c)
  \/ \E v \in Versions : Lapse(v)
  \/ \E s \in Slots : Abort(s)

Spec == Init /\ [][Next]_vars

-----------------------------------------------------------------------------
(* Properties.                                                             *)

\* However rotations and seeds interleave, at most one secret is current: one is
\* primary, and no other lasts beyond a grace period.
OneCurrentSecret ==
  \A v, w \in Versions :
    /\ primary[v] /\ primary[w] => v = w
    /\ Lasting(v) => primary[v]

\* A secret that was revoked or whose grace period ended is never accepted again,
\* even by a rotation that read it as primary before.
DeadSecretStaysDead ==
  [][\A v \in Versions : Exists(v) /\ ~Accepted(v) => ~Accepted(v)']_vars

\* A rotation locks nobody out: a request with the secret that was current when
\* it began is refused only if a grace period ended or a seed revoked it.
RotationRefusesNobody ==
  [][\A c \in Callers : pc[c] = "active" /\ pc'[c] = "idle" => c \notin owed]_vars

\* A client always has a lasting secret, save while a seed is between its
\* statements, or after one stopped there.
NoLockout ==
  status # "NONE" /\ LockedOut =>
    cut \/ \E d \in Seeds : pc[d] \in {"first", "replacing"}

\* README.md:141: the secrets of the seeded clients are configured in the
\* environment, so a seed that finds nothing to do leaves a secret that works.
SkippedSecretWorks ==
  [][\A d \in Seeds : SkipExisting(d) =>
       \E v \in Versions : Accepted(v) /\ secret[v] = mine[d]]_vars
=============================================================================
