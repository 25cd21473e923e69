------------------------------ MODULE Sessions ------------------------------
(***************************************************************************)
(* User sessions: rows of auth.sessions, and the requests of AuthService   *)
(* that create, refresh and revoke them.                                   *)
(*                                                                         *)
(* A login or a refresh is a chain of awaited calls, so each database call *)
(* is an action and other requests run in between.  A logout, a logout-all *)
(* and an update of the user are one statement each.  The k-th refresh     *)
(* token stored for a session is the token k; 0 is the provisional token,  *)
(* which names no session and is never handed out.                         *)
(*                                                                         *)
(* Sessions are numbered by created_at.  A bad signature, a wrong password *)
(* or an unknown user changes nothing here and is left out.  A refresh     *)
(* token may be presented as long as its session's row exists: its own     *)
(* lifetime is JWT_REFRESH_TTL, which is configured apart from the seven   *)
(* days of the row.                                                        *)
(***************************************************************************)
EXTENDS Integers, FiniteSets

CONSTANTS
  Users,
  Requests,     \* slots for login and refresh requests
  MaxSessions,  \* bound on the rows of the table
  MaxTokens,    \* bound on the refresh tokens stored for one session
  MaxActive,    \* AUTH_MAX_ACTIVE_SESSIONS_PER_USER
  NoUser        \* the owner of a row that does not exist

ASSUME NoUserAssumption == NoUser \notin Users
ASSUME BoundAssumption ==
  MaxSessions \in Nat /\ MaxTokens \in Nat \ {0} /\ MaxActive \in Nat \ {0}

Sessions == 1 .. MaxSessions
Reasons  == {"LOGOUT", "REUSE", "MAX"}    \* LOGOUT for logout and logout-all
Steps    == {"idle", "creating", "hashing", "listing", "pruning",
             "marking", "revoking", "checking", "rotating", "reply"}
Token    == Sessions \X (1 .. MaxTokens)

VARIABLES
  activated,  \* users.status = 'ACTIVATED'
  \* auth.sessions
  owner,      \* user_id
  hash,       \* the token refresh_token_hash was made from
  fresh,      \* expires_at > now()
  revoked,    \* revoked_reason, "NO" while revoked_at is null
  reuse,      \* reuse_detected_at is set
  \* the requests
  pc,         \* the call a request waits for
  user,       \* the user who logs in
  sess,       \* the session of the request, 0 if it has none
  tok,        \* the token presented, then the one to hand out
  victims,    \* sessions a login still has to revoke
  \* history
  given,      \* tokens a client received
  presented,  \* tokens presented to a refresh
  replayed,   \* tokens presented more than once
  exchanged,  \* tokens a new token was stored for
  unpruned,   \* sessions whose login did not get through its pruning
  revived,    \* sessions a refresh extended after they had expired
  silenced    \* sessions whose reuse alarm was cut short

rowVars     == << owner, hash, fresh, revoked, reuse >>
requestVars == << pc, user, sess, tok, victims >>
historyVars == << given, presented, replayed, exchanged, unpruned, revived, silenced >>
vars == << activated, rowVars, requestVars, historyVars >>

TypeOK ==
  /\ activated \in [Users -> BOOLEAN]
  /\ owner \in [Sessions -> Users \union {NoUser}]
  /\ hash \in [Sessions -> 0 .. MaxTokens]
  /\ fresh \in [Sessions -> BOOLEAN]
  /\ revoked \in [Sessions -> Reasons \union {"NO"}]
  /\ reuse \in [Sessions -> BOOLEAN]
  /\ pc \in [Requests -> Steps]
  /\ user \in [Requests -> Users \union {NoUser}]
  /\ sess \in [Requests -> Sessions \union {0}]
  /\ tok \in [Requests -> 0 .. MaxTokens]
  /\ victims \in [Requests -> SUBSET Sessions]
  /\ given \subseteq Token /\ presented \subseteq Token
  /\ replayed \subseteq Token /\ exchanged \subseteq Token
  /\ unpruned \subseteq Sessions /\ revived \subseteq Sessions
  /\ silenced \subseteq Sessions

Init ==
  /\ activated = [u \in Users |-> TRUE]
  /\ owner = [s \in Sessions |-> NoUser]
  /\ hash = [s \in Sessions |-> 0]
  /\ fresh = [s \in Sessions |-> FALSE]
  /\ revoked = [s \in Sessions |-> "NO"]
  /\ reuse = [s \in Sessions |-> FALSE]
  /\ pc = [r \in Requests |-> "idle"]
  /\ user = [r \in Requests |-> NoUser]
  /\ sess = [r \in Requests |-> 0]
  /\ tok = [r \in Requests |-> 0]
  /\ victims = [r \in Requests |-> {}]
  /\ given = {} /\ presented = {} /\ replayed = {} /\ exchanged = {}
  /\ unpruned = {} /\ revived = {} /\ silenced = {}

-----------------------------------------------------------------------------
(* Helpers.                                                                *)

Rows      == {s \in Sessions : owner[s] # NoUser}
Active(s) == s \in Rows /\ revoked[s] = "NO" /\ fresh[s]
OwnedBy(u) == {s \in Rows : owner[s] = u}

Goto(r, step) == pc' = [pc EXCEPT ![r] = step] /\ UNCHANGED << user, sess, tok, victims >>

\* the request ends: answered, refused, or cut short
End(r) ==
  /\ pc' = [pc EXCEPT ![r] = "idle"]
  /\ user' = [user EXCEPT ![r] = NoUser]
  /\ sess' = [sess EXCEPT ![r] = 0]
  /\ tok' = [tok EXCEPT ![r] = 0]
  /\ victims' = [victims EXCEPT ![r] = {}]

\* (variant: the default reason)
RevokeByDefault(S, reason) ==
  revoked' = [s \in Sessions |-> IF s \in S THEN "SESSION_REVOKED" ELSE revoked[s]]

Revoke(S, reason) ==
  revoked' = [s \in Sessions |-> IF s \in S THEN reason ELSE revoked[s]]

-----------------------------------------------------------------------------
(* AuthService.login.                                                      *)

\* the user is found, activated, and the password matches
StartLogin(r, u) ==
  /\ pc[r] = "idle"
  /\ activated[u]
  /\ pc' = [pc EXCEPT ![r] = "creating"]
  /\ user' = [user EXCEPT ![r] = u]
  /\ UNCHANGED << activated, rowVars, sess, tok, victims, historyVars >>

\* createSession, with the hash of the provisional token
CreateSession(r, s) ==
  /\ pc[r] = "creating"
  /\ s \in Sessions \ Rows
  /\ \A t \in Sessions : t < s => t \in Rows
  /\ owner' = [owner EXCEPT ![s] = user[r]]
  /\ fresh' = [fresh EXCEPT ![s] = TRUE]
  /\ sess' = [sess EXCEPT ![r] = s]
  /\ unpruned' = unpruned \union {s}
  /\ pc' = [pc EXCEPT ![r] = "hashing"]
  /\ UNCHANGED << activated, hash, revoked, reuse, user, tok, victims,
                  given, presented, replayed, exchanged, revived, silenced >>

\* (variant: the update clears revoked_at)
StoreTokenReactivates(r) ==
  LET s == sess[r] IN
  /\ hash[s] < MaxTokens
  /\ hash' = [hash EXCEPT ![s] = @ + 1]
  /\ fresh' = [fresh EXCEPT ![s] = TRUE]
  /\ revoked' = [revoked EXCEPT ![s] = "NO"]
  /\ tok' = [tok EXCEPT ![r] = hash[s] + 1]
  /\ revived' = IF fresh[s] THEN revived ELSE revived \union {s}
  /\ UNCHANGED << owner, reuse >>

\* updateSessionRefreshToken: by id alone
StoreToken(r) ==
  LET s == sess[r] IN
  /\ hash[s] < MaxTokens    \* bound
  /\ hash' = [hash EXCEPT ![s] = @ + 1]
  /\ fresh' = [fresh EXCEPT ![s] = TRUE]
  /\ tok' = [tok EXCEPT ![r] = hash[s] + 1]
  /\ revived' = IF fresh[s] THEN revived ELSE revived \union {s}
  /\ UNCHANGED << owner, revoked, reuse >>

StoreFirstToken(r) ==
  /\ pc[r] = "hashing"
  /\ StoreToken(r)
  /\ pc' = [pc EXCEPT ![r] = "listing"]
  /\ UNCHANGED << activated, user, sess, victims, given, presented, replayed,
                  exchanged, unpruned, silenced >>

\* (variants: an off-by-one, and the order reversed)
ExcessOffByOne(S) == {s \in S : Cardinality({t \in S : t > s}) >= MaxActive}
ExcessNewest(S)   == {s \in S : Cardinality({t \in S : t < s}) >= MaxActive - 1}

\* all but the newest MaxActive - 1 of the other active sessions
Excess(S) == {s \in S : Cardinality({t \in S : t > s}) >= MaxActive - 1}

\* the select of revokeOldestActiveSessionsForUser
ListActive(r) ==
  LET others == {s \in OwnedBy(user[r]) : Active(s) /\ s # sess[r]} IN
  /\ pc[r] = "listing"
  /\ victims' = [victims EXCEPT ![r] = Excess(others)]
  /\ pc' = [pc EXCEPT ![r] = "pruning"]
  /\ UNCHANGED << activated, rowVars, user, sess, tok, historyVars >>

\* its updates, sent together and done in any order
PruneOne(r, s) ==
  /\ pc[r] = "pruning"
  /\ s \in victims[r]
  /\ victims' = [victims EXCEPT ![r] = @ \ {s}]
  /\ Revoke({s}, "MAX")
  /\ UNCHANGED << activated, owner, hash, fresh, reuse, pc, user, sess, tok,
                  historyVars >>

Pruned(r) ==
  /\ pc[r] = "pruning"
  /\ victims[r] = {}
  /\ unpruned' = unpruned \ {sess[r]}
  /\ Goto(r, "reply")
  /\ UNCHANGED << activated, rowVars, given, presented, replayed, exchanged, revived,
                  silenced >>

\* after the audit record, the client receives the token
Reply(r) ==
  /\ pc[r] = "reply"
  /\ given' = given \union {<< sess[r], tok[r] >>}
  /\ End(r)
  /\ UNCHANGED << activated, rowVars, presented, replayed, exchanged, unpruned, revived,
                  silenced >>

-----------------------------------------------------------------------------
(* AuthService.refresh.                                                    *)

Present(t) ==
  /\ presented' = presented \union {t}
  /\ replayed' = IF t \in presented THEN replayed \union {t} ELSE replayed

\* findSessionById and the checks of the row it returned
FindSession(r, s, k) ==
  /\ pc[r] = "idle"
  /\ << s, k >> \in given
  /\ Present(<< s, k >>)
  /\ IF Active(s)
       THEN /\ pc' = [pc EXCEPT ![r] = IF hash[s] = k THEN "checking" ELSE "marking"]
            /\ sess' = [sess EXCEPT ![r] = s]
            /\ tok' = [tok EXCEPT ![r] = k]
       ELSE UNCHANGED << pc, sess, tok >>
  /\ UNCHANGED << activated, rowVars, user, victims, given, exchanged, unpruned, revived,
                  silenced >>

\* markSessionRefreshReuseDetected
MarkReuse(r) ==
  /\ pc[r] = "marking"
  /\ reuse' = [reuse EXCEPT ![sess[r]] = TRUE]
  /\ Goto(r, "revoking")
  /\ UNCHANGED << activated, owner, hash, fresh, revoked, historyVars >>

\* (variant: the session of the request is kept)
RevokeOthersOnReuse(r) ==
  /\ pc[r] = "revoking"
  /\ Revoke({s \in OwnedBy(owner[sess[r]]) : Active(s) /\ s # sess[r]}, "REUSE")
  /\ End(r)
  /\ UNCHANGED << activated, owner, hash, fresh, reuse, historyVars >>

\* revokeAllActiveSessionsForUser; the request is refused
RevokeOnReuse(r) ==
  /\ pc[r] = "revoking"
  /\ Revoke({s \in OwnedBy(owner[sess[r]]) : Active(s)}, "REUSE")
  /\ End(r)
  /\ UNCHANGED << activated, owner, hash, fresh, reuse, historyVars >>

\* (variant: an inactive user raises the alarm)
CheckUserAlarms(r) ==
  /\ pc[r] = "checking"
  /\ Goto(r, IF activated[owner[sess[r]]] THEN "rotating" ELSE "marking")
  /\ UNCHANGED << activated, rowVars, historyVars >>

\* findUserById
CheckUser(r) ==
  /\ pc[r] = "checking"
  /\ \/ activated[owner[sess[r]]] /\ Goto(r, "rotating")
     \/ ~activated[owner[sess[r]]] /\ End(r)
  /\ UNCHANGED << activated, rowVars, historyVars >>

\* (variant: the refresh only extends the session)
RotateKeepsHash(r) ==
  /\ pc[r] = "rotating"
  /\ fresh' = [fresh EXCEPT ![sess[r]] = TRUE]
  /\ exchanged' = exchanged \union {<< sess[r], tok[r] >>}
  /\ pc' = [pc EXCEPT ![r] = "reply"]
  /\ UNCHANGED << activated, owner, hash, revoked, reuse, user, sess, tok, victims,
                  given, presented, replayed, unpruned, revived, silenced >>

Rotate(r) ==
  /\ pc[r] = "rotating"
  /\ StoreToken(r)
  /\ exchanged' = exchanged \union {<< sess[r], tok[r] >>}
  /\ pc' = [pc EXCEPT ![r] = "reply"]
  /\ UNCHANGED << activated, user, sess, victims, given, presented, replayed, unpruned,
                  silenced >>

-----------------------------------------------------------------------------
(* Requests of one statement.                                              *)

\* any token with a valid signature revokes its session, revoked or not
Logout(s) ==
  /\ \E k \in 1 .. MaxTokens : << s, k >> \in given
  /\ Revoke({s}, "LOGOUT")
  /\ UNCHANGED << activated, owner, hash, fresh, reuse, requestVars, historyVars >>

\* an access token is enough, so somebody logged in before
LogoutAll(u) ==
  /\ \E s \in OwnedBy(u) : \E k \in 1 .. MaxTokens : << s, k >> \in given
  /\ Revoke({s \in OwnedBy(u) : Active(s)}, "LOGOUT")
  /\ UNCHANGED << activated, owner, hash, fresh, reuse, requestVars, historyVars >>

\* UsersService.update changes the status; sessions are left alone
UpdateStatus(u) ==
  /\ activated' = [activated EXCEPT ![u] = ~@]
  /\ UNCHANGED << rowVars, requestVars, historyVars >>

\* seven days pass for a session
Expire(s) ==
  /\ fresh[s]
  /\ fresh' = [fresh EXCEPT ![s] = FALSE]
  /\ UNCHANGED << activated, owner, hash, revoked, reuse, requestVars, historyVars >>

\* the process crashes or a call fails: the request goes no further
Abort(r) ==
  /\ pc[r] # "idle"
  /\ silenced' = IF pc[r] = "revoking" THEN silenced \union {sess[r]} ELSE silenced
  /\ End(r)
  /\ UNCHANGED << activated, rowVars, given, presented, replayed, exchanged, unpruned,
                  revived >>

-----------------------------------------------------------------------------
LoginStep(r) ==
  \/ \E u \in Users : StartLogin(r, u)
  \/ \E s \in Sessions : CreateSession(r, s)
  \/ StoreFirstToken(r)
  \/ ListActive(r)
  \/ \E s \in Sessions : PruneOne(r, s)
  \/ Pruned(r)

RefreshStep(r) ==
  \/ \E s \in Sessions, k \in 1 .. MaxTokens : FindSession(r, s, k)
  \/ MarkReuse(r)
  \/ RevokeOnReuse(r)
  \/ CheckUser(r)
  \/ Rotate(r)

Next ==
  \/ \E r \in Requests : LoginStep(r)
  \/ \E r \in Requests : RefreshStep(r)
  \/ \E r \in Requests : Reply(r)
  \/ \E r \in Requests : Abort(r)
  \/ \E s \in Sessions : Logout(s)
  \/ \E u \in Users : LogoutAll(u)
  \/ \E u \in Users : UpdateStatus(u)
  \/ \E s \in Sessions : Expire(s)

Spec == Init /\ [][Next]_vars

-----------------------------------------------------------------------------
(* Properties.                                                             *)

\* The requests that may still store a token for session s.
Admitted(s) == {r \in Requests : sess[r] = s /\ pc[r] \in {"hashing", "checking", "rotating"}}

\* Revocation is final and closes the door: a revoked session is never revived,
\* and of all refreshes only those admitted before the revocation still rotate
\* its token, however long they were delayed.
RevokedIsDead ==
  [][\A s \in Sessions : revoked[s] # "NO" =>
       revoked'[s] # "NO" /\ Admitted(s)' \subseteq Admitted(s)]_vars

\* The reuse alarm never blames a client that presents every token once, however
\* its requests interleave, abort, expire or get revoked.
NoFalseAlarm ==
  \A s \in Sessions :
    \/ reuse[s]
    \/ \E r \in Requests : sess[r] = s /\ pc[r] \in {"marking", "revoking"}
    => \E k \in 1 .. MaxTokens : << s, k >> \in replayed

\* Once a new token is stored in exchange for a token, the old one matches no
\* more: presenting it again, even much later, is refused or raises the alarm.
ExchangedIsDead ==
  \A t \in exchanged : hash[t[1]] # t[2]

\* A session whose token was reused stays usable only while the alarm is being
\* handled, was cut short by a crash, or missed an expired session that a refresh
\* admitted earlier revives.
ReuseIsRevoked ==
  \A s \in Sessions : reuse[s] /\ Active(s) =>
    \/ s \in silenced \union revived
    \/ \E r \in Requests : sess[r] = s /\ pc[r] = "revoking"

\* However logins of a user interleave, the sessions whose login finished its
\* pruning never exceed the limit, save for sessions revived after they expired.
SessionCap ==
  \A u \in Users :
    Cardinality({s \in OwnedBy(u) : Active(s)} \ (unpruned \union revived)) <= MaxActive

\* A login revokes old sessions: every session it revokes has MaxActive - 1 newer
\* ones of the same user, even when other logins revoke at the same time.
PrunedIsOld ==
  \A s \in Sessions : revoked[s] = "MAX" =>
    Cardinality({t \in OwnedBy(owner[s]) : t > s}) >= MaxActive - 1

\* test/app.e2e-spec.ts:41 ("detecta refresh token reuse y revoca la sesion
\* activa") expects the second refresh with a token to be refused.
TokenIsExchangedOnce ==
  [][\A r \in Requests :
       pc[r] = "rotating" /\ pc'[r] = "reply" => << sess[r], tok[r] >> \notin exchanged]_vars
=============================================================================
