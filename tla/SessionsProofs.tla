--------------------------- MODULE SessionsProofs ---------------------------
(***************************************************************************)
(* Theorems of Sessions for every set of users and requests and every      *)
(* bound on sessions, tokens and active sessions.                          *)
(***************************************************************************)
EXTENDS Sessions, TLAPS

(***************************************************************************)
(* The inductive invariant.  Its heart is AlarmInv: as long as no token of *)
(* a session was presented twice, the tokens before the current one were   *)
(* all presented, one refresh at most is under way, and it holds the       *)
(* current token; so a token that does not match was presented before.     *)
(***************************************************************************)

\* A row that does not exist yet is blank.
BlankInv ==
  \A s \in Sessions : owner[s] = NoUser =>
    hash[s] = 0 /\ ~fresh[s] /\ revoked[s] = "NO" /\ ~reuse[s]

\* What a request remembers of its session, by the call it waits for.
RequestInv ==
  \A r \in Requests :
    /\ pc[r] = "creating" => user[r] \in Users
    /\ pc[r] \in {"idle", "creating"} => sess[r] = 0
    /\ pc[r] \notin {"idle", "creating"} => sess[r] \in Sessions /\ owner[sess[r]] # NoUser
    /\ pc[r] = "hashing" => hash[sess[r]] = 0
    /\ pc[r] \notin {"idle", "creating", "hashing", "revoking"} =>
         tok[r] >= 1 /\ tok[r] <= hash[sess[r]]
    /\ \A s \in victims[r] : owner[s] # NoUser

\* A session waits for its first token in one login only.
HashingInv ==
  \A r, q \in Requests :
    pc[r] = "hashing" /\ pc[q] = "hashing" /\ sess[r] = sess[q] => r = q

\* Clients only hold tokens that were stored; exchanged tokens are behind.
TokenInv ==
  \A s \in Sessions : \A k \in 1 .. MaxTokens :
    /\ << s, k >> \in given => owner[s] # NoUser /\ k <= hash[s]
    /\ << s, k >> \in exchanged => k < hash[s]

Replayed(s)   == \E k \in 1 .. MaxTokens : << s, k >> \in replayed
Refreshing(r) == pc[r] \in {"checking", "rotating"}
Alarming(r)   == pc[r] \in {"marking", "revoking"}

AlarmAt(s) ==
  /\ ~reuse[s]
  /\ \A r \in Requests : ~(sess[r] = s /\ Alarming(r))
  /\ \A k \in 1 .. MaxTokens : k < hash[s] => << s, k >> \in presented
  /\ \A r \in Requests : sess[r] = s /\ Refreshing(r) =>
       tok[r] = hash[s] /\ << s, hash[s] >> \in presented
  /\ \A r, q \in Requests :
       sess[r] = s /\ sess[q] = s /\ Refreshing(r) /\ Refreshing(q) => r = q

AlarmInv == \A s \in Sessions : ~Replayed(s) => AlarmAt(s)

Inv ==
  /\ TypeOK
  /\ BlankInv
  /\ RequestInv
  /\ HashingInv
  /\ TokenInv
  /\ AlarmInv
  /\ ReuseIsRevoked

LEMMA InitInv == Init => Inv
BY NoUserAssumption, BoundAssumption
   DEF Init, Inv, TypeOK, BlankInv, RequestInv, HashingInv, TokenInv, AlarmInv, ReuseIsRevoked,
       AlarmAt, Replayed, Refreshing, Alarming, Rows, Active, Reasons, Steps, Token, Sessions

\* Storing a token keeps the types, and moves one session to its next token.
LEMMA StoreTokenEffect ==
  ASSUME TypeOK, NEW r \in Requests, sess[r] \in Sessions, StoreToken(r)
  PROVE  /\ hash' \in [Sessions -> 0 .. MaxTokens] /\ fresh' \in [Sessions -> BOOLEAN]
         /\ tok' \in [Requests -> 0 .. MaxTokens] /\ revived' \subseteq Sessions
         /\ hash'[sess[r]] = hash[sess[r]] + 1 /\ tok'[r] = hash[sess[r]] + 1
         /\ \A s \in Sessions \ {sess[r]} : hash'[s] = hash[s]
         /\ \A q \in Requests \ {r} : tok'[q] = tok[q]
BY BoundAssumption DEF TypeOK, StoreToken

LEMMA EndEffect ==
  ASSUME TypeOK, NEW r \in Requests, End(r)
  PROVE  /\ pc' \in [Requests -> Steps] /\ user' \in [Requests -> Users \union {NoUser}]
         /\ sess' \in [Requests -> Sessions \union {0}]
         /\ tok' \in [Requests -> 0 .. MaxTokens]
         /\ victims' \in [Requests -> SUBSET Sessions]
BY BoundAssumption DEF TypeOK, End, Steps

LEMMA StartLoginStep ==
  ASSUME Inv, NEW r \in Requests, NEW u \in Users, StartLogin(r, u)
  PROVE  Inv'
<1> USE NoUserAssumption, BoundAssumption DEF Inv, StartLogin, rowVars, requestVars, historyVars
<1>1. TypeOK'
  BY DEF TypeOK, Steps, Reasons
<1>2. BlankInv'
  BY <1>1 DEF TypeOK, BlankInv, RequestInv, TokenInv, Rows, Active, Token
<1>3. RequestInv'
  BY <1>1 DEF TypeOK, RequestInv, TokenInv, HashingInv, BlankInv, Rows, Active, Token
<1>4. HashingInv'
  BY <1>1 DEF TypeOK, RequestInv, HashingInv, Rows
<1>5. TokenInv'
  BY <1>1 DEF TypeOK, RequestInv, TokenInv, Rows, Token
<1>6. AlarmInv'
  BY <1>1 DEF TypeOK, RequestInv, TokenInv, AlarmInv, AlarmAt, Replayed, Refreshing, Alarming, Rows
<1>7. ReuseIsRevoked'
  BY <1>1 DEF TypeOK, RequestInv, BlankInv, ReuseIsRevoked, Rows, Active
<1> QED
  BY <1>1, <1>2, <1>3, <1>4, <1>5, <1>6, <1>7

LEMMA CreateSessionStep ==
  ASSUME Inv, NEW r \in Requests, NEW s \in Sessions, CreateSession(r, s)
  PROVE  Inv'
<1> USE NoUserAssumption, BoundAssumption DEF Inv, CreateSession, rowVars, requestVars, historyVars
<1>1. TypeOK'
  BY DEF TypeOK, Steps, Reasons
<1>2. BlankInv'
  BY <1>1 DEF TypeOK, BlankInv, RequestInv, TokenInv, Rows, Active, Token
<1>3. RequestInv'
  BY <1>1 DEF TypeOK, RequestInv, TokenInv, HashingInv, BlankInv, Rows, Active, Token
<1>4. HashingInv'
  BY <1>1 DEF TypeOK, RequestInv, HashingInv, Rows
<1>5. TokenInv'
  BY <1>1 DEF TypeOK, RequestInv, TokenInv, Rows, Token
<1>6. AlarmInv'
  BY <1>1 DEF TypeOK, RequestInv, TokenInv, AlarmInv, AlarmAt, Replayed, Refreshing, Alarming, Rows
<1>7. ReuseIsRevoked'
  BY <1>1 DEF TypeOK, RequestInv, BlankInv, ReuseIsRevoked, Rows, Active
<1> QED
  BY <1>1, <1>2, <1>3, <1>4, <1>5, <1>6, <1>7

LEMMA StoreFirstTokenStep ==
  ASSUME Inv, NEW r \in Requests, StoreFirstToken(r)
  PROVE  Inv'
<1> USE NoUserAssumption, BoundAssumption DEF Inv, StoreFirstToken
<1>0. sess[r] \in Sessions /\ hash[sess[r]] = 0
  BY DEF RequestInv
<1>1. TypeOK'
  BY <1>0, StoreTokenEffect DEF TypeOK, Steps, StoreToken
<1>2. BlankInv'
  BY <1>1 DEF TypeOK, BlankInv, RequestInv, StoreToken
<1>3. RequestInv'
  BY <1>1 DEF TypeOK, RequestInv, HashingInv, StoreToken
<1>4. HashingInv'
  BY <1>1 DEF TypeOK, RequestInv, HashingInv
<1>5. TokenInv'
  <2>1. \A s \in Sessions : hash'[s] >= hash[s] /\ owner'[s] = owner[s]
    BY <1>0, StoreTokenEffect DEF TypeOK, StoreToken
  <2>2. hash \in [Sessions -> Int] /\ hash' \in [Sessions -> Int]
    BY <1>1 DEF TypeOK
  <2>3. given' = given /\ exchanged' = exchanged
    OBVIOUS
  <2> HIDE DEF Inv, StoreFirstToken
  <2> SUFFICES ASSUME NEW s \in Sessions, NEW k \in 1 .. MaxTokens
               PROVE  /\ << s, k >> \in given' => owner'[s] # NoUser /\ k <= hash'[s]
                      /\ << s, k >> \in exchanged' => k < hash'[s]
    BY DEF TokenInv
  <2>4. /\ << s, k >> \in given => owner[s] # NoUser /\ k <= hash[s]
        /\ << s, k >> \in exchanged => k < hash[s]
    BY DEF Inv, TokenInv
  <2>5. hash[s] \in Int /\ hash'[s] \in Int /\ k \in Int
    BY <2>2
  <2> QED
    BY <2>1, <2>3, <2>4, <2>5
<1>6. AlarmInv'
  <2> SUFFICES ASSUME NEW s \in Sessions, ~Replayed(s) PROVE AlarmAt(s)'
    BY DEF AlarmInv, Replayed
  <2>1. AlarmAt(s) /\ reuse' = reuse
    BY DEF AlarmInv, StoreToken
  <2>2. \A q \in Requests \ {r} : pc'[q] = pc[q] /\ tok'[q] = tok[q]
    BY <1>0, StoreTokenEffect DEF TypeOK
  <2>3. ~Refreshing(r)' /\ ~Alarming(r)'
    BY DEF TypeOK, Refreshing, Alarming
  <2>4. CASE s # sess[r]
    <3>1. hash'[s] = hash[s]
      BY <1>0, <2>4, StoreTokenEffect
    <3> QED
      BY <2>1, <2>2, <2>3, <3>1 DEF AlarmAt, Refreshing, Alarming
  <2>5. CASE s = sess[r]
    <3>1. hash'[s] = 1
      BY <1>0, <2>5, StoreTokenEffect
    <3>2. \A q \in Requests : ~(sess[q] = s /\ Refreshing(q))
      BY <1>0, <2>5 DEF TypeOK, RequestInv, Refreshing
    <3> QED
      BY <2>1, <2>2, <2>3, <3>1, <3>2 DEF AlarmAt, Refreshing, Alarming
  <2> QED
    BY <2>4, <2>5
<1>7. ReuseIsRevoked'
  BY <1>1 DEF TypeOK, RequestInv, BlankInv, ReuseIsRevoked, Rows, Active, StoreToken
<1> QED
  BY <1>1, <1>2, <1>3, <1>4, <1>5, <1>6, <1>7

LEMMA ListActiveStep ==
  ASSUME Inv, NEW r \in Requests, ListActive(r)
  PROVE  Inv'
<1> USE NoUserAssumption, BoundAssumption DEF Inv, ListActive, Excess, OwnedBy, rowVars, requestVars, historyVars
<1>1. TypeOK'
  BY DEF TypeOK, Steps, Rows
<1>2. BlankInv'
  BY <1>1 DEF TypeOK, BlankInv, RequestInv, TokenInv, Rows, Active, Token
<1>3. RequestInv'
  BY <1>1 DEF TypeOK, RequestInv, TokenInv, HashingInv, BlankInv, Rows, Active, Token
<1>4. HashingInv'
  BY <1>1 DEF TypeOK, RequestInv, HashingInv, Rows
<1>5. TokenInv'
  BY <1>1 DEF TypeOK, RequestInv, TokenInv, Rows, Token
<1>6. AlarmInv'
  BY <1>1 DEF TypeOK, RequestInv, TokenInv, AlarmInv, AlarmAt, Replayed, Refreshing, Alarming, Rows
<1>7. ReuseIsRevoked'
  BY <1>1 DEF TypeOK, RequestInv, BlankInv, ReuseIsRevoked, Rows, Active
<1> QED
  BY <1>1, <1>2, <1>3, <1>4, <1>5, <1>6, <1>7

LEMMA PruneOneStep ==
  ASSUME Inv, NEW r \in Requests, NEW s \in Sessions, PruneOne(r, s)
  PROVE  Inv'
<1> USE NoUserAssumption, BoundAssumption DEF Inv, PruneOne, Revoke, rowVars, requestVars, historyVars
<1>1. TypeOK'
  BY DEF TypeOK, Steps, Reasons
<1>2. BlankInv'
  BY <1>1 DEF TypeOK, BlankInv, RequestInv, TokenInv, Rows, Active, Token
<1>3. RequestInv'
  BY <1>1 DEF TypeOK, RequestInv, TokenInv, HashingInv, BlankInv, Rows, Active, Token
<1>4. HashingInv'
  BY <1>1 DEF TypeOK, RequestInv, HashingInv, Rows
<1>5. TokenInv'
  BY <1>1 DEF TypeOK, RequestInv, TokenInv, Rows, Token
<1>6. AlarmInv'
  BY <1>1 DEF TypeOK, RequestInv, TokenInv, AlarmInv, AlarmAt, Replayed, Refreshing, Alarming, Rows
<1>7. ReuseIsRevoked'
  BY <1>1 DEF TypeOK, RequestInv, BlankInv, ReuseIsRevoked, Rows, Active
<1> QED
  BY <1>1, <1>2, <1>3, <1>4, <1>5, <1>6, <1>7

LEMMA PrunedStep ==
  ASSUME Inv, NEW r \in Requests, Pruned(r)
  PROVE  Inv'
<1> USE NoUserAssumption, BoundAssumption DEF Inv, Pruned, Goto, rowVars, requestVars, historyVars
<1>1. TypeOK'
  BY DEF TypeOK, Steps, Reasons
<1>2. BlankInv'
  BY <1>1 DEF TypeOK, BlankInv, RequestInv, TokenInv, Rows, Active, Token
<1>3. RequestInv'
  BY <1>1 DEF TypeOK, RequestInv, TokenInv, HashingInv, BlankInv, Rows, Active, Token
<1>4. HashingInv'
  BY <1>1 DEF TypeOK, RequestInv, HashingInv, Rows
<1>5. TokenInv'
  BY <1>1 DEF TypeOK, RequestInv, TokenInv, Rows, Token
<1>6. AlarmInv'
  BY <1>1 DEF TypeOK, RequestInv, TokenInv, AlarmInv, AlarmAt, Replayed, Refreshing, Alarming, Rows
<1>7. ReuseIsRevoked'
  BY <1>1 DEF TypeOK, RequestInv, BlankInv, ReuseIsRevoked, Rows, Active
<1> QED
  BY <1>1, <1>2, <1>3, <1>4, <1>5, <1>6, <1>7

\* A token that does not match was presented before, and a token that matches is
\* not presented for the first time while another refresh is under way.
LEMMA FindSessionStep ==
  ASSUME Inv, NEW r \in Requests, NEW s \in Sessions, NEW k \in 1 .. MaxTokens, FindSession(r, s, k)
  PROVE  Inv'
<1> USE NoUserAssumption, BoundAssumption DEF Inv, FindSession
<1>0. /\ << s, k >> \in Token /\ << s, k >> \in given /\ owner[s] # NoUser
      /\ k >= 1 /\ k <= hash[s] /\ pc[r] = "idle" /\ sess[r] = 0
  BY DEF TokenInv, Token, RequestInv
<1>a. CASE Active(s)
  <2>0. /\ pc' = [pc EXCEPT ![r] = IF hash[s] = k THEN "checking" ELSE "marking"]
        /\ sess' = [sess EXCEPT ![r] = s] /\ tok' = [tok EXCEPT ![r] = k]
    BY <1>a
  <2>1. TypeOK'
    BY <1>0, <2>0 DEF TypeOK, Steps, Present, rowVars
  <2>2. BlankInv' /\ HashingInv' /\ TokenInv'
    BY <1>0, <2>0 DEF TypeOK, BlankInv, HashingInv, TokenInv, rowVars
  <2>3. RequestInv'
    BY <1>0, <2>0 DEF TypeOK, RequestInv, rowVars
  <2>4. ReuseIsRevoked'
    BY <1>0, <2>0 DEF TypeOK, ReuseIsRevoked, Active, Rows, rowVars
  <2>5. AlarmInv'
    <3> SUFFICES ASSUME NEW t \in Sessions, ~Replayed(t)' PROVE AlarmAt(t)'
      BY DEF AlarmInv
    <3>1. AlarmAt(t)
      BY DEF AlarmInv, Replayed, Present
    <3>2. \A q \in Requests \ {r} : pc'[q] = pc[q] /\ tok'[q] = tok[q] /\ sess'[q] = sess[q]
      BY <2>0 DEF TypeOK
    <3>3. sess'[r] = s /\ tok'[r] = k /\ pc'[r] = IF hash[s] = k THEN "checking" ELSE "marking"
      BY <2>0 DEF TypeOK
    <3>4. CASE t # s
      BY <3>1, <3>2, <3>3, <3>4 DEF AlarmAt, Refreshing, Alarming, Present, rowVars
    <3>5. CASE t = s
      <4>1. << s, k >> \notin presented
        BY <1>0, <3>5 DEF Replayed, Present
      <4>2. hash[s] = k
        BY <1>0, <3>1, <3>5, <4>1 DEF AlarmAt, TypeOK
      <4>3. \A q \in Requests : ~(sess[q] = s /\ Refreshing(q))
        BY <3>1, <3>5, <4>1, <4>2 DEF AlarmAt
      <4> QED
        BY <3>1, <3>2, <3>3, <3>5, <4>2, <4>3
           DEF AlarmAt, Refreshing, Alarming, Present, rowVars
    <3> QED
      BY <3>4, <3>5
  <2> QED
    BY <2>1, <2>2, <2>3, <2>4, <2>5
<1>b. CASE ~Active(s)
  <2>1. TypeOK'
    BY <1>0, <1>b DEF TypeOK, Present, rowVars
  <2>2. BlankInv' /\ RequestInv' /\ HashingInv' /\ TokenInv' /\ ReuseIsRevoked'
    BY <1>b DEF BlankInv, RequestInv, HashingInv, TokenInv, ReuseIsRevoked, Active, Rows, rowVars
  <2>3. AlarmInv'
    BY <1>b DEF AlarmInv, AlarmAt, Replayed, Refreshing, Alarming, Present, rowVars
  <2> QED
    BY <2>1, <2>2, <2>3
<1> QED
  BY <1>a, <1>b

LEMMA MarkReuseStep ==
  ASSUME Inv, NEW r \in Requests, MarkReuse(r)
  PROVE  Inv'
<1> USE NoUserAssumption, BoundAssumption DEF Inv, MarkReuse, Goto, rowVars, requestVars, historyVars
<1>1. TypeOK'
  BY DEF TypeOK, Steps, Reasons
<1>2. BlankInv'
  BY <1>1 DEF TypeOK, BlankInv, RequestInv, TokenInv, Rows, Active, Token
<1>3. RequestInv'
  BY <1>1 DEF TypeOK, RequestInv, TokenInv, HashingInv, BlankInv, Rows, Active, Token
<1>4. HashingInv'
  BY <1>1 DEF TypeOK, RequestInv, HashingInv, Rows
<1>5. TokenInv'
  BY <1>1 DEF TypeOK, RequestInv, TokenInv, Rows, Token
<1>6. AlarmInv'
  BY <1>1 DEF TypeOK, RequestInv, TokenInv, AlarmInv, AlarmAt, Replayed, Refreshing, Alarming, Rows
<1>7. ReuseIsRevoked'
  BY <1>1 DEF TypeOK, RequestInv, BlankInv, ReuseIsRevoked, Rows, Active
<1> QED
  BY <1>1, <1>2, <1>3, <1>4, <1>5, <1>6, <1>7

LEMMA RevokeOnReuseEffect ==
  ASSUME TypeOK, NEW r \in Requests, RevokeOnReuse(r)
  PROVE  TypeOK'
<1>1. revoked' \in [Sessions -> Reasons \union {"NO"}]
  BY DEF RevokeOnReuse, Revoke, TypeOK, Reasons
<1>2. End(r)
  BY DEF RevokeOnReuse
<1> QED
  BY <1>1, <1>2, EndEffect DEF RevokeOnReuse, TypeOK, historyVars

LEMMA RevokeOnReuseStep ==
  ASSUME Inv, NEW r \in Requests, RevokeOnReuse(r)
  PROVE  Inv'
<1> USE NoUserAssumption, BoundAssumption DEF Inv, RevokeOnReuse, Revoke, End, OwnedBy, rowVars, requestVars, historyVars
<1>1. TypeOK'
  BY RevokeOnReuseEffect
<1>2. BlankInv'
  BY <1>1 DEF TypeOK, BlankInv, RequestInv, TokenInv, Rows, Active, Token
<1>3. RequestInv'
  BY <1>1 DEF TypeOK, RequestInv, TokenInv, HashingInv, BlankInv, Rows, Active, Token
<1>4. HashingInv'
  BY <1>1 DEF TypeOK, RequestInv, HashingInv, Rows
<1>5. TokenInv'
  BY <1>1 DEF TypeOK, RequestInv, TokenInv, Rows, Token
<1>6. AlarmInv'
  BY <1>1 DEF TypeOK, RequestInv, TokenInv, AlarmInv, AlarmAt, Replayed, Refreshing, Alarming, Rows
<1>7. ReuseIsRevoked'
  BY <1>1 DEF TypeOK, RequestInv, BlankInv, ReuseIsRevoked, Rows, Active
<1> QED
  BY <1>1, <1>2, <1>3, <1>4, <1>5, <1>6, <1>7

LEMMA CheckUserStep ==
  ASSUME Inv, NEW r \in Requests, CheckUser(r)
  PROVE  Inv'
<1> USE NoUserAssumption, BoundAssumption DEF Inv, CheckUser, Goto, End, rowVars, requestVars, historyVars
<1>1. TypeOK'
  BY EndEffect DEF TypeOK, Steps
<1>2. BlankInv'
  BY <1>1 DEF TypeOK, BlankInv, RequestInv, TokenInv, Rows, Active, Token
<1>3. RequestInv'
  BY <1>1 DEF TypeOK, RequestInv, TokenInv, HashingInv, BlankInv, Rows, Active, Token
<1>4. HashingInv'
  BY <1>1 DEF TypeOK, RequestInv, HashingInv, Rows
<1>5. TokenInv'
  BY <1>1 DEF TypeOK, RequestInv, TokenInv, Rows, Token
<1>6. AlarmInv'
  BY <1>1 DEF TypeOK, RequestInv, TokenInv, AlarmInv, AlarmAt, Replayed, Refreshing, Alarming, Rows
<1>7. ReuseIsRevoked'
  BY <1>1 DEF TypeOK, RequestInv, BlankInv, ReuseIsRevoked, Rows, Active
<1> QED
  BY <1>1, <1>2, <1>3, <1>4, <1>5, <1>6, <1>7

\* The request holds the current token unless some token was presented twice, so
\* every token before the new one was presented.
LEMMA RotateStep ==
  ASSUME Inv, NEW r \in Requests, Rotate(r)
  PROVE  Inv'
<1> USE NoUserAssumption, BoundAssumption DEF Inv, Rotate
<1>0. /\ sess[r] \in Sessions /\ tok[r] \in 1 .. MaxTokens /\ tok[r] <= hash[sess[r]]
      /\ pc[r] = "rotating"
  BY DEF RequestInv, TypeOK
<1>1. TypeOK'
  BY <1>0, StoreTokenEffect DEF TypeOK, Steps, Token, StoreToken
<1>2. BlankInv'
  BY <1>1 DEF TypeOK, BlankInv, RequestInv, StoreToken
<1>3. RequestInv'
  BY <1>1 DEF TypeOK, RequestInv, HashingInv, StoreToken
<1>4. HashingInv'
  BY <1>1 DEF TypeOK, RequestInv, HashingInv
<1>5. TokenInv'
  <2>1. \A s \in Sessions : hash'[s] >= hash[s] /\ owner'[s] = owner[s]
    BY <1>0, StoreTokenEffect DEF TypeOK, StoreToken
  <2>2. hash'[sess[r]] = hash[sess[r]] + 1
    BY <1>0, StoreTokenEffect
  <2>3. hash \in [Sessions -> Int] /\ hash' \in [Sessions -> Int]
    BY <1>1 DEF TypeOK
  <2>4. given' = given /\ exchanged' = exchanged \union {<< sess[r], tok[r] >>}
    OBVIOUS
  <2> HIDE DEF Inv, Rotate
  <2> SUFFICES ASSUME NEW s \in Sessions, NEW k \in 1 .. MaxTokens
               PROVE  /\ << s, k >> \in given' => owner'[s] # NoUser /\ k <= hash'[s]
                      /\ << s, k >> \in exchanged' => k < hash'[s]
    BY DEF TokenInv
  <2>5. /\ << s, k >> \in given => owner[s] # NoUser /\ k <= hash[s]
        /\ << s, k >> \in exchanged => k < hash[s]
    BY DEF Inv, TokenInv
  <2>6. hash[s] \in Int /\ hash'[s] \in Int /\ k \in Int
    BY <2>3
  <2>7. << s, k >> = << sess[r], tok[r] >> => k < hash'[s]
    BY <1>0, <2>2, <2>3, <2>6
  <2> QED
    BY <2>1, <2>4, <2>5, <2>6, <2>7
<1>6. AlarmInv'
  <2> SUFFICES ASSUME NEW s \in Sessions, ~Replayed(s) PROVE AlarmAt(s)'
    BY DEF AlarmInv, Replayed
  <2>1. AlarmAt(s) /\ reuse' = reuse
    BY DEF AlarmInv, StoreToken
  <2>2. \A q \in Requests \ {r} : pc'[q] = pc[q] /\ tok'[q] = tok[q]
    BY <1>0, StoreTokenEffect DEF TypeOK
  <2>3. ~Refreshing(r)' /\ ~Alarming(r)'
    BY DEF TypeOK, Refreshing, Alarming
  <2>4. CASE s # sess[r]
    <3>1. hash'[s] = hash[s]
      BY <1>0, <2>4, StoreTokenEffect
    <3> QED
      BY <2>1, <2>2, <2>3, <3>1 DEF AlarmAt, Refreshing, Alarming
  <2>5. CASE s = sess[r]
    <3>1. hash'[s] = hash[s] + 1 /\ hash[s] \in Nat
      BY <1>0, <2>5, StoreTokenEffect DEF TypeOK
    <3>2. << s, hash[s] >> \in presented
      BY <1>0, <2>1, <2>5 DEF AlarmAt, Refreshing
    <3>3. \A q \in Requests : sess[q] = s /\ Refreshing(q) => q = r
      BY <1>0, <2>1, <2>5 DEF AlarmAt, Refreshing
    <3>4. \A k \in 1 .. MaxTokens : k < hash'[s] => << s, k >> \in presented
      BY <2>1, <3>1, <3>2 DEF AlarmAt
    <3> QED
      BY <2>1, <2>2, <2>3, <3>3, <3>4 DEF AlarmAt, Refreshing, Alarming
  <2> QED
    BY <2>4, <2>5
<1>7. ReuseIsRevoked'
  BY <1>1 DEF TypeOK, RequestInv, BlankInv, ReuseIsRevoked, Rows, Active, StoreToken
<1> QED
  BY <1>1, <1>2, <1>3, <1>4, <1>5, <1>6, <1>7

LEMMA ReplyStep ==
  ASSUME Inv, NEW r \in Requests, Reply(r)
  PROVE  Inv'
<1> USE NoUserAssumption, BoundAssumption DEF Inv, Reply, End, rowVars, requestVars, historyVars
<1>0. << sess[r], tok[r] >> \in Token
  BY DEF RequestInv, TypeOK, Token
<1>1. TypeOK'
  BY <1>0, EndEffect DEF TypeOK
<1>2. BlankInv'
  BY <1>1 DEF TypeOK, BlankInv, RequestInv, TokenInv, Rows, Active, Token
<1>3. RequestInv'
  BY <1>1 DEF TypeOK, RequestInv, TokenInv, HashingInv, BlankInv, Rows, Active, Token
<1>4. HashingInv'
  BY <1>1 DEF TypeOK, RequestInv, HashingInv, Rows
<1>5. TokenInv'
  BY <1>1 DEF TypeOK, RequestInv, TokenInv, Rows, Token
<1>6. AlarmInv'
  BY <1>1 DEF TypeOK, RequestInv, TokenInv, AlarmInv, AlarmAt, Replayed, Refreshing, Alarming, Rows
<1>7. ReuseIsRevoked'
  BY <1>1 DEF TypeOK, RequestInv, BlankInv, ReuseIsRevoked, Rows, Active
<1> QED
  BY <1>1, <1>2, <1>3, <1>4, <1>5, <1>6, <1>7

LEMMA AbortStep ==
  ASSUME Inv, NEW r \in Requests, Abort(r)
  PROVE  Inv'
<1> USE NoUserAssumption, BoundAssumption DEF Inv, Abort, End, rowVars, requestVars, historyVars
<1>0. pc[r] = "revoking" => sess[r] \in Sessions
  BY DEF RequestInv
<1>1. TypeOK'
  BY <1>0, EndEffect DEF TypeOK
<1>2. BlankInv'
  BY <1>1 DEF TypeOK, BlankInv, RequestInv, TokenInv, Rows, Active, Token
<1>3. RequestInv'
  BY <1>1 DEF TypeOK, RequestInv, TokenInv, HashingInv, BlankInv, Rows, Active, Token
<1>4. HashingInv'
  BY <1>1 DEF TypeOK, RequestInv, HashingInv, Rows
<1>5. TokenInv'
  BY <1>1 DEF TypeOK, RequestInv, TokenInv, Rows, Token
<1>6. AlarmInv'
  BY <1>1 DEF TypeOK, RequestInv, TokenInv, AlarmInv, AlarmAt, Replayed, Refreshing, Alarming, Rows
<1>7. ReuseIsRevoked'
  BY <1>1 DEF TypeOK, RequestInv, BlankInv, ReuseIsRevoked, Rows, Active
<1> QED
  BY <1>1, <1>2, <1>3, <1>4, <1>5, <1>6, <1>7

LEMMA LogoutStep ==
  ASSUME Inv, NEW s \in Sessions, Logout(s)
  PROVE  Inv'
<1> USE NoUserAssumption, BoundAssumption DEF Inv, Logout, Revoke, rowVars, requestVars, historyVars
<1>1. TypeOK'
  BY DEF TypeOK, Steps, Reasons
<1>2. BlankInv'
  BY <1>1 DEF TypeOK, BlankInv, RequestInv, TokenInv, Rows, Active, Token
<1>3. RequestInv'
  BY <1>1 DEF TypeOK, RequestInv, TokenInv, HashingInv, BlankInv, Rows, Active, Token
<1>4. HashingInv'
  BY <1>1 DEF TypeOK, RequestInv, HashingInv, Rows
<1>5. TokenInv'
  BY <1>1 DEF TypeOK, RequestInv, TokenInv, Rows, Token
<1>6. AlarmInv'
  BY <1>1 DEF TypeOK, RequestInv, TokenInv, AlarmInv, AlarmAt, Replayed, Refreshing, Alarming, Rows
<1>7. ReuseIsRevoked'
  BY <1>1 DEF TypeOK, RequestInv, BlankInv, ReuseIsRevoked, Rows, Active
<1> QED
  BY <1>1, <1>2, <1>3, <1>4, <1>5, <1>6, <1>7

LEMMA LogoutAllStep ==
  ASSUME Inv, NEW u \in Users, LogoutAll(u)
  PROVE  Inv'
<1> USE NoUserAssumption, BoundAssumption DEF Inv, LogoutAll, Revoke, OwnedBy, rowVars, requestVars, historyVars
<1>1. TypeOK'
  BY DEF TypeOK, Steps, Reasons
<1>2. BlankInv'
  BY <1>1 DEF TypeOK, BlankInv, RequestInv, TokenInv, Rows, Active, Token
<1>3. RequestInv'
  BY <1>1 DEF TypeOK, RequestInv, TokenInv, HashingInv, BlankInv, Rows, Active, Token
<1>4. HashingInv'
  BY <1>1 DEF TypeOK, RequestInv, HashingInv, Rows
<1>5. TokenInv'
  BY <1>1 DEF TypeOK, RequestInv, TokenInv, Rows, Token
<1>6. AlarmInv'
  BY DEF AlarmInv, AlarmAt, Replayed, Refreshing, Alarming
<1>7. ReuseIsRevoked'
  BY <1>1 DEF TypeOK, RequestInv, BlankInv, ReuseIsRevoked, Rows, Active
<1> QED
  BY <1>1, <1>2, <1>3, <1>4, <1>5, <1>6, <1>7

LEMMA UpdateStatusStep ==
  ASSUME Inv, NEW u \in Users, UpdateStatus(u)
  PROVE  Inv'
<1> USE NoUserAssumption, BoundAssumption DEF Inv, UpdateStatus, rowVars, requestVars, historyVars
<1>1. TypeOK'
  BY DEF TypeOK, Steps, Reasons
<1>2. BlankInv'
  BY <1>1 DEF TypeOK, BlankInv, RequestInv, TokenInv, Rows, Active, Token
<1>3. RequestInv'
  BY <1>1 DEF TypeOK, RequestInv, TokenInv, HashingInv, BlankInv, Rows, Active, Token
<1>4. HashingInv'
  BY <1>1 DEF TypeOK, RequestInv, HashingInv, Rows
<1>5. TokenInv'
  BY <1>1 DEF TypeOK, RequestInv, TokenInv, Rows, Token
<1>6. AlarmInv'
  BY DEF AlarmInv, AlarmAt, Replayed, Refreshing, Alarming
<1>7. ReuseIsRevoked'
  BY <1>1 DEF TypeOK, RequestInv, BlankInv, ReuseIsRevoked, Rows, Active
<1> QED
  BY <1>1, <1>2, <1>3, <1>4, <1>5, <1>6, <1>7

LEMMA ExpireStep ==
  ASSUME Inv, NEW s \in Sessions, Expire(s)
  PROVE  Inv'
<1> USE NoUserAssumption, BoundAssumption DEF Inv, Expire, rowVars, requestVars, historyVars
<1>1. TypeOK'
  BY DEF TypeOK, Steps, Reasons
<1>2. BlankInv'
  BY <1>1 DEF TypeOK, BlankInv, RequestInv, TokenInv, Rows, Active, Token
<1>3. RequestInv'
  BY <1>1 DEF TypeOK, RequestInv, TokenInv, HashingInv, BlankInv, Rows, Active, Token
<1>4. HashingInv'
  BY <1>1 DEF TypeOK, RequestInv, HashingInv, Rows
<1>5. TokenInv'
  BY <1>1 DEF TypeOK, RequestInv, TokenInv, Rows, Token
<1>6. AlarmInv'
  BY <1>1 DEF TypeOK, RequestInv, TokenInv, AlarmInv, AlarmAt, Replayed, Refreshing, Alarming, Rows
<1>7. ReuseIsRevoked'
  BY <1>1 DEF TypeOK, RequestInv, BlankInv, ReuseIsRevoked, Rows, Active
<1> QED
  BY <1>1, <1>2, <1>3, <1>4, <1>5, <1>6, <1>7

LEMMA NextInv == Inv /\ [Next]_vars => Inv'
<1> SUFFICES ASSUME Inv, [Next]_vars PROVE Inv'
  OBVIOUS
<1>1. CASE UNCHANGED vars
  <2> USE <1>1 DEF vars, rowVars, requestVars, historyVars, Inv
  <2>1. TypeOK'
    BY DEF TypeOK
  <2>2. BlankInv' /\ RequestInv' /\ HashingInv' /\ TokenInv'
    BY DEF BlankInv, RequestInv, HashingInv, TokenInv
  <2>3. AlarmInv'
    BY DEF AlarmInv, AlarmAt, Replayed, Refreshing, Alarming
  <2>4. ReuseIsRevoked'
    BY DEF ReuseIsRevoked, Active, Rows
  <2> QED
    BY <2>1, <2>2, <2>3, <2>4
<1>2. CASE Next
  BY <1>2, StartLoginStep, CreateSessionStep, StoreFirstTokenStep, ListActiveStep, PruneOneStep, PrunedStep, FindSessionStep, MarkReuseStep, RevokeOnReuseStep, CheckUserStep, RotateStep, ReplyStep, AbortStep, LogoutStep, LogoutAllStep, UpdateStatusStep, ExpireStep
     DEF Next, LoginStep, RefreshStep
<1> QED
  BY <1>1, <1>2

LEMMA Invariance == Spec => []Inv
  BY InitInv, NextInv, PTL DEF Spec

-----------------------------------------------------------------------------
(* The theorems.                                                           *)

\* Every variable keeps its type.
THEOREM TypeCorrect == Spec => []TypeOK
  BY Invariance, PTL DEF Inv

\* A client that presents each of its tokens once never sets off the reuse alarm,
\* with any number of concurrent requests, crashes, logouts and expiries.
THEOREM AlarmIsRight == Spec => []NoFalseAlarm
<1>1. Inv => NoFalseAlarm
  BY DEF Inv, NoFalseAlarm, AlarmInv, AlarmAt, Replayed, Alarming
<1> QED
  BY <1>1, Invariance, PTL

\* A token that was exchanged never matches again.
THEOREM ExchangedStaysDead == Spec => []ExchangedIsDead
<1>1. Inv => ExchangedIsDead
  BY DEF Inv, TypeOK, ExchangedIsDead, TokenInv, Token
<1> QED
  BY <1>1, Invariance, PTL

\* A session whose token was reused is revoked, unless its alarm is still being
\* handled, was cut short, or it had expired and was revived.
THEOREM ReuseRevokes == Spec => []ReuseIsRevoked
  BY Invariance, PTL DEF Inv

\* No step takes a revocation back, or admits a refresh to a revoked session.
LEMMA RevokedStep ==
  ASSUME Inv, Next, NEW s \in Sessions, revoked[s] # "NO"
  PROVE  revoked'[s] # "NO" /\ Admitted(s)' \subseteq Admitted(s)
<1> DEFINE Goal == revoked'[s] # "NO" /\ Admitted(s)' \subseteq Admitted(s)
<1> USE DEF Inv, rowVars, requestVars
<1>0. owner[s] # NoUser
  BY DEF BlankInv
<1>1. ASSUME NEW r \in Requests, NEW u \in Users, StartLogin(r, u) PROVE Goal
  BY <1>0, <1>1 DEF StartLogin, Admitted, TypeOK, RequestInv, Rows, Active
<1>2. ASSUME NEW r \in Requests, NEW t \in Sessions, CreateSession(r, t) PROVE Goal
  BY <1>0, <1>2 DEF CreateSession, Admitted, TypeOK, RequestInv, Rows, Active
<1>3. ASSUME NEW r \in Requests, StoreFirstToken(r) PROVE Goal
  BY <1>0, <1>3 DEF StoreFirstToken, StoreToken, Admitted, TypeOK, RequestInv, Rows, Active
<1>4. ASSUME NEW r \in Requests, ListActive(r) PROVE Goal
  BY <1>0, <1>4 DEF ListActive, Excess, OwnedBy, Admitted, TypeOK, RequestInv, Rows, Active
<1>5. ASSUME NEW r \in Requests, NEW t \in Sessions, PruneOne(r, t) PROVE Goal
  BY <1>0, <1>5 DEF PruneOne, Revoke, Admitted, TypeOK, RequestInv, Rows, Active
<1>6. ASSUME NEW r \in Requests, Pruned(r) PROVE Goal
  BY <1>0, <1>6 DEF Pruned, Goto, Admitted, TypeOK, RequestInv, Rows, Active
<1>7. ASSUME NEW r \in Requests, NEW t \in Sessions, NEW k \in 1 .. MaxTokens, FindSession(r, t, k) PROVE Goal
  BY <1>0, <1>7 DEF FindSession, Present, Admitted, TypeOK, RequestInv, Rows, Active
<1>8. ASSUME NEW r \in Requests, MarkReuse(r) PROVE Goal
  BY <1>0, <1>8 DEF MarkReuse, Goto, Admitted, TypeOK, RequestInv, Rows, Active
<1>9. ASSUME NEW r \in Requests, RevokeOnReuse(r) PROVE Goal
  BY <1>0, <1>9 DEF RevokeOnReuse, Revoke, End, OwnedBy, Admitted, TypeOK, RequestInv, Rows, Active
<1>10. ASSUME NEW r \in Requests, CheckUser(r) PROVE Goal
  BY <1>0, <1>10 DEF CheckUser, Goto, End, Admitted, TypeOK, RequestInv, Rows, Active
<1>11. ASSUME NEW r \in Requests, Rotate(r) PROVE Goal
  BY <1>0, <1>11 DEF Rotate, StoreToken, Admitted, TypeOK, RequestInv, Rows, Active
<1>12. ASSUME NEW r \in Requests, Reply(r) PROVE Goal
  BY <1>0, <1>12 DEF Reply, End, Admitted, TypeOK, RequestInv, Rows, Active
<1>13. ASSUME NEW r \in Requests, Abort(r) PROVE Goal
  BY <1>0, <1>13 DEF Abort, End, Admitted, TypeOK, RequestInv, Rows, Active
<1>14. ASSUME NEW t \in Sessions, Logout(t) PROVE Goal
  BY <1>0, <1>14 DEF Logout, Revoke, Admitted, TypeOK, RequestInv, Rows, Active
<1>15. ASSUME NEW u \in Users, LogoutAll(u) PROVE Goal
  BY <1>0, <1>15 DEF LogoutAll, Revoke, OwnedBy, Admitted, TypeOK, RequestInv, Rows, Active
<1>16. ASSUME NEW u \in Users, UpdateStatus(u) PROVE Goal
  BY <1>0, <1>16 DEF UpdateStatus, Admitted, TypeOK, RequestInv, Rows, Active
<1>17. ASSUME NEW t \in Sessions, Expire(t) PROVE Goal
  BY <1>0, <1>17 DEF Expire, Admitted, TypeOK, RequestInv, Rows, Active
<1> QED
  BY <1>1, <1>2, <1>3, <1>4, <1>5, <1>6, <1>7, <1>8, <1>9, <1>10, <1>11, <1>12, <1>13, <1>14, <1>15, <1>16, <1>17 DEF Next, LoginStep, RefreshStep

THEOREM RevocationIsFinal == Spec => RevokedIsDead
<1>1. Inv /\ [Next]_vars =>
        [\A s \in Sessions : revoked[s] # "NO" =>
           revoked'[s] # "NO" /\ Admitted(s)' \subseteq Admitted(s)]_vars
  BY RevokedStep
<1> QED
  BY <1>1, Invariance, PTL DEF Spec, RevokedIsDead
=============================================================================
