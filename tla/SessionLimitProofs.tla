------------------------- MODULE SessionLimitProofs -------------------------
(***************************************************************************)
(* The limit on the active sessions of a user, for every set of users and  *)
(* requests and every limit: what concurrent logins revoke is old, and     *)
(* what they leave is never too much.                                      *)
(***************************************************************************)
EXTENDS SessionsProofs, FiniteSetTheorems

(***************************************************************************)
(* The inductive invariant.  Its heart is CapInv: of too many sessions     *)
(* whose login has listed the active ones, the login that listed last saw  *)
(* all the others, so one of them is still on its list of victims.         *)
(***************************************************************************)

LoggingIn(r) == pc[r] \in {"hashing", "listing", "pruning"}

\* A login owns the session it made, and no other login does.
LoginInv ==
  \A r \in Requests : LoggingIn(r) =>
    /\ sess[r] \in unpruned
    /\ owner[sess[r]] = user[r] /\ user[r] \in Users
    /\ \A q \in Requests : LoggingIn(q) /\ sess[q] = sess[r] => q = r

Newer(s)  == {t \in OwnedBy(owner[s]) : t > s}
Chosen(s) == revoked[s] = "MAX" \/ \E r \in Requests : s \in victims[r]

\* What a login revokes or is about to revoke has enough newer sessions.
OldInv ==
  \A s \in Rows : Chosen(s) => Cardinality(Newer(s)) >= MaxActive - 1

\* The sessions that count and whose login has listed the active ones.
Listed(u) ==
  {s \in OwnedBy(u) :
     /\ Active(s)
     /\ s \notin revived
     /\ \/ s \notin unpruned
        \/ \E r \in Requests : pc[r] = "pruning" /\ sess[r] = s}

CapInv ==
  \A u \in Users : \A T \in SUBSET Listed(u) :
    Cardinality(T) > MaxActive =>
      \E r \in Requests : pc[r] = "pruning" /\ sess[r] \in T /\ victims[r] \cap T # {}

LimitInv == Inv /\ LoginInv /\ OldInv /\ CapInv

-----------------------------------------------------------------------------
(* Counting sessions.                                                      *)

LEMMA SessionsAreFinite ==
  ASSUME NEW S \in SUBSET Sessions
  PROVE  IsFiniteSet(S) /\ Cardinality(S) \in Nat
<1>1. IsFiniteSet(Sessions)
  BY BoundAssumption, FS_Interval DEF Sessions
<1> QED
  BY <1>1, FS_Subset, FS_CardinalityType

LEMMA MoreSessions ==
  ASSUME NEW S \in SUBSET Sessions, NEW T \in SUBSET S
  PROVE  Cardinality(T) <= Cardinality(S)
BY SessionsAreFinite, FS_Subset

\* A set of sessions has an oldest one: of the sets 1 .. s - 1 a least one.
LEMMA Oldest ==
  ASSUME NEW T \in SUBSET Sessions, T # {}
  PROVE  \E s \in T : \A t \in T \ {s} : t > s
<1> DEFINE Before(s) == 1 .. s - 1
           B == {Before(s) : s \in T}
<1>1. T \subseteq Nat \ {0}
  BY BoundAssumption DEF Sessions
<1>2. \A s \in T : Before(s) \subseteq Sessions
  BY BoundAssumption DEF Sessions
<1>3. FiniteSubsetsOf(Sessions) = SUBSET Sessions
  BY SessionsAreFinite, FS_FiniteSubsetsOfFinite
<1>4. IsWellFoundedOn(StrictSubsetOrdering(Sessions), SUBSET Sessions)
  BY <1>3, FS_StrictSubsetOrderingWellFounded
<1>5. B \subseteq SUBSET Sessions /\ B # {}
  BY <1>2
<1>6. PICK b \in B : \A c \in B : ~(<< c, b >> \in StrictSubsetOrdering(Sessions))
  <2> HIDE DEF B
  <2> QED
    BY <1>4, <1>5, WFMin
<1>7. PICK s \in T : b = Before(s)
  OBVIOUS
<1>8. ASSUME NEW t \in T, t # s PROVE t > s
  <2>1. ~(<< Before(t), Before(s) >> \in StrictSubsetOrdering(Sessions))
    BY <1>6, <1>7
  <2>2. ~(Before(t) \subseteq Before(s) /\ Before(t) # Before(s))
    BY <1>2, <2>1 DEF StrictSubsetOrdering
  <2>3. t \in Nat \ {0} /\ s \in Nat \ {0}
    BY <1>1
  <2>4. ASSUME t < s PROVE FALSE
    <3>1. Before(t) \subseteq Before(s)
      BY <2>3, <2>4
    <3>2. t \in Before(s) /\ t \notin Before(t)
      BY <2>3, <2>4
    <3> QED
      BY <2>2, <3>1, <3>2
  <2> QED
    BY <1>8, <2>3, <2>4
<1> QED
  BY <1>8

\* Of MaxActive active sessions the oldest is in excess.
LEMMA ExcessHits ==
  ASSUME NEW S \in SUBSET Sessions, NEW T \in SUBSET S, Cardinality(T) >= MaxActive
  PROVE  Excess(S) \cap T # {}
<1>1. Cardinality(T) \in Nat /\ IsFiniteSet(T) /\ MaxActive \in Nat \ {0} /\ T # {}
  BY SessionsAreFinite, BoundAssumption, FS_EmptySet
<1>2. PICK s \in T : \A t \in T \ {s} : t > s
  BY <1>1, Oldest
<1>3. Cardinality(T \ {s}) = Cardinality(T) - 1
  BY <1>1, FS_RemoveElement
<1>4. T \ {s} \in SUBSET {t \in S : t > s} /\ {t \in S : t > s} \in SUBSET Sessions
  BY <1>2
<1>5. Cardinality({t \in S : t > s}) \in Nat /\ Cardinality(T \ {s}) <= Cardinality({t \in S : t > s})
  BY <1>4, SessionsAreFinite, MoreSessions
<1>6. Cardinality({t \in S : t > s}) >= MaxActive - 1
  BY <1>1, <1>3, <1>5
<1> QED
  BY <1>6 DEF Excess
-----------------------------------------------------------------------------
(* One step.                                                               *)

\* A session never changes its owner.
LEMMA OwnersKept ==
  ASSUME Inv, Next, NEW s \in Sessions, owner[s] # NoUser
  PROVE  owner'[s] = owner[s]
<1> DEFINE Goal == owner'[s] = owner[s]
<1> USE DEF rowVars
<1>1. ASSUME NEW r \in Requests, NEW v \in Users, StartLogin(r, v) PROVE Goal
  BY <1>1 DEF StartLogin, Inv, TypeOK, Rows
<1>2. ASSUME NEW r \in Requests, NEW t \in Sessions, CreateSession(r, t) PROVE Goal
  BY <1>2 DEF CreateSession, Inv, TypeOK, Rows
<1>3. ASSUME NEW r \in Requests, StoreFirstToken(r) PROVE Goal
  BY <1>3 DEF StoreFirstToken, StoreToken, Inv, TypeOK, Rows
<1>4. ASSUME NEW r \in Requests, ListActive(r) PROVE Goal
  BY <1>4 DEF ListActive, Inv, TypeOK, Rows
<1>5. ASSUME NEW r \in Requests, NEW t \in Sessions, PruneOne(r, t) PROVE Goal
  BY <1>5 DEF PruneOne, Revoke, Inv, TypeOK, Rows
<1>6. ASSUME NEW r \in Requests, Pruned(r) PROVE Goal
  BY <1>6 DEF Pruned, Goto, Inv, TypeOK, Rows
<1>7. ASSUME NEW r \in Requests, NEW t \in Sessions, NEW k \in 1 .. MaxTokens, FindSession(r, t, k) PROVE Goal
  BY <1>7 DEF FindSession, Present, Inv, TypeOK, Rows
<1>8. ASSUME NEW r \in Requests, MarkReuse(r) PROVE Goal
  BY <1>8 DEF MarkReuse, Goto, Inv, TypeOK, Rows
<1>9. ASSUME NEW r \in Requests, RevokeOnReuse(r) PROVE Goal
  BY <1>9 DEF RevokeOnReuse, Revoke, End, Inv, TypeOK, Rows
<1>10. ASSUME NEW r \in Requests, CheckUser(r) PROVE Goal
  BY <1>10 DEF CheckUser, Goto, End, Inv, TypeOK, Rows
<1>11. ASSUME NEW r \in Requests, Rotate(r) PROVE Goal
  BY <1>11 DEF Rotate, StoreToken, Inv, TypeOK, Rows
<1>12. ASSUME NEW r \in Requests, Reply(r) PROVE Goal
  BY <1>12 DEF Reply, End, Inv, TypeOK, Rows
<1>13. ASSUME NEW r \in Requests, Abort(r) PROVE Goal
  BY <1>13 DEF Abort, End, Inv, TypeOK, Rows
<1>14. ASSUME NEW t \in Sessions, Logout(t) PROVE Goal
  BY <1>14 DEF Logout, Revoke, Inv, TypeOK, Rows
<1>15. ASSUME NEW v \in Users, LogoutAll(v) PROVE Goal
  BY <1>15 DEF LogoutAll, Revoke, Inv, TypeOK, Rows
<1>16. ASSUME NEW v \in Users, UpdateStatus(v) PROVE Goal
  BY <1>16 DEF UpdateStatus, Inv, TypeOK, Rows
<1>17. ASSUME NEW t \in Sessions, Expire(t) PROVE Goal
  BY <1>17 DEF Expire, Inv, TypeOK, Rows
<1> QED
  BY <1>1, <1>2, <1>3, <1>4, <1>5, <1>6, <1>7, <1>8, <1>9, <1>10, <1>11, <1>12, <1>13, <1>14, <1>15, <1>16, <1>17
     DEF Next, LoginStep, RefreshStep

LEMMA LoginInvInit == Init => LoginInv
  BY DEF Init, LoginInv, LoggingIn

LEMMA LoginInvStep ==
  ASSUME Inv, LoginInv, Next
  PROVE  LoginInv'
<1> DEFINE Goal == LoginInv'
<1> USE DEF rowVars, requestVars, historyVars, Inv, LoginInv, LoggingIn
<1>1. ASSUME NEW r \in Requests, NEW v \in Users, StartLogin(r, v) PROVE Goal
  BY <1>1 DEF StartLogin, TypeOK, RequestInv, Rows
<1>2. ASSUME NEW r \in Requests, NEW t \in Sessions, CreateSession(r, t) PROVE Goal
  BY <1>2 DEF CreateSession, TypeOK, RequestInv, Rows
<1>3. ASSUME NEW r \in Requests, StoreFirstToken(r) PROVE Goal
  BY <1>3 DEF StoreFirstToken, StoreToken, TypeOK, RequestInv, Rows
<1>4. ASSUME NEW r \in Requests, ListActive(r) PROVE Goal
  BY <1>4 DEF ListActive, TypeOK, RequestInv, Rows
<1>5. ASSUME NEW r \in Requests, NEW t \in Sessions, PruneOne(r, t) PROVE Goal
  BY <1>5 DEF PruneOne, Revoke, TypeOK, RequestInv, Rows
<1>6. ASSUME NEW r \in Requests, Pruned(r) PROVE Goal
  BY <1>6 DEF Pruned, Goto, TypeOK, RequestInv, Rows
<1>7. ASSUME NEW r \in Requests, NEW t \in Sessions, NEW k \in 1 .. MaxTokens, FindSession(r, t, k) PROVE Goal
  BY <1>7 DEF FindSession, Present, TypeOK, RequestInv, Rows
<1>8. ASSUME NEW r \in Requests, MarkReuse(r) PROVE Goal
  BY <1>8 DEF MarkReuse, Goto, TypeOK, RequestInv, Rows
<1>9. ASSUME NEW r \in Requests, RevokeOnReuse(r) PROVE Goal
  BY <1>9 DEF RevokeOnReuse, Revoke, End, TypeOK, RequestInv, Rows
<1>10. ASSUME NEW r \in Requests, CheckUser(r) PROVE Goal
  BY <1>10 DEF CheckUser, Goto, End, TypeOK, RequestInv, Rows
<1>11. ASSUME NEW r \in Requests, Rotate(r) PROVE Goal
  BY <1>11 DEF Rotate, StoreToken, TypeOK, RequestInv, Rows
<1>12. ASSUME NEW r \in Requests, Reply(r) PROVE Goal
  BY <1>12 DEF Reply, End, TypeOK, RequestInv, Rows
<1>13. ASSUME NEW r \in Requests, Abort(r) PROVE Goal
  BY <1>13 DEF Abort, End, TypeOK, RequestInv, Rows
<1>14. ASSUME NEW t \in Sessions, Logout(t) PROVE Goal
  BY <1>14 DEF Logout, Revoke, TypeOK, RequestInv, Rows
<1>15. ASSUME NEW v \in Users, LogoutAll(v) PROVE Goal
  BY <1>15 DEF LogoutAll, Revoke, TypeOK, RequestInv, Rows
<1>16. ASSUME NEW v \in Users, UpdateStatus(v) PROVE Goal
  BY <1>16 DEF UpdateStatus, TypeOK, RequestInv, Rows
<1>17. ASSUME NEW t \in Sessions, Expire(t) PROVE Goal
  BY <1>17 DEF Expire, TypeOK, RequestInv, Rows
<1> QED
  BY <1>1, <1>2, <1>3, <1>4, <1>5, <1>6, <1>7, <1>8, <1>9, <1>10, <1>11, <1>12, <1>13, <1>14, <1>15, <1>16, <1>17
     DEF Next, LoginStep, RefreshStep

\* Only the select of a login chooses sessions to revoke.
LEMMA ChosenStep ==
  ASSUME Inv, Next, NEW s \in Sessions, Chosen(s)'
  PROVE  Chosen(s) \/ \E r \in Requests : ListActive(r) /\ s \in victims'[r]
<1> DEFINE Goal == Chosen(s) \/ \E r \in Requests : ListActive(r) /\ s \in victims'[r]
<1> USE DEF rowVars, requestVars
<1>1. ASSUME NEW r \in Requests, NEW v \in Users, StartLogin(r, v) PROVE Goal
  BY <1>1 DEF StartLogin, Chosen, Inv, TypeOK
<1>2. ASSUME NEW r \in Requests, NEW t \in Sessions, CreateSession(r, t) PROVE Goal
  BY <1>2 DEF CreateSession, Chosen, Inv, TypeOK
<1>3. ASSUME NEW r \in Requests, StoreFirstToken(r) PROVE Goal
  BY <1>3 DEF StoreFirstToken, StoreToken, Chosen, Inv, TypeOK
<1>4. ASSUME NEW r \in Requests, ListActive(r) PROVE Goal
  BY <1>4 DEF ListActive, Chosen, Inv, TypeOK
<1>5. ASSUME NEW r \in Requests, NEW t \in Sessions, PruneOne(r, t) PROVE Goal
  BY <1>5 DEF PruneOne, Revoke, Chosen, Inv, TypeOK
<1>6. ASSUME NEW r \in Requests, Pruned(r) PROVE Goal
  BY <1>6 DEF Pruned, Goto, Chosen, Inv, TypeOK
<1>7. ASSUME NEW r \in Requests, NEW t \in Sessions, NEW k \in 1 .. MaxTokens, FindSession(r, t, k) PROVE Goal
  BY <1>7 DEF FindSession, Present, Chosen, Inv, TypeOK
<1>8. ASSUME NEW r \in Requests, MarkReuse(r) PROVE Goal
  BY <1>8 DEF MarkReuse, Goto, Chosen, Inv, TypeOK
<1>9. ASSUME NEW r \in Requests, RevokeOnReuse(r) PROVE Goal
  BY <1>9 DEF RevokeOnReuse, Revoke, End, Chosen, Inv, TypeOK
<1>10. ASSUME NEW r \in Requests, CheckUser(r) PROVE Goal
  BY <1>10 DEF CheckUser, Goto, End, Chosen, Inv, TypeOK
<1>11. ASSUME NEW r \in Requests, Rotate(r) PROVE Goal
  BY <1>11 DEF Rotate, StoreToken, Chosen, Inv, TypeOK
<1>12. ASSUME NEW r \in Requests, Reply(r) PROVE Goal
  BY <1>12 DEF Reply, End, Chosen, Inv, TypeOK
<1>13. ASSUME NEW r \in Requests, Abort(r) PROVE Goal
  BY <1>13 DEF Abort, End, Chosen, Inv, TypeOK
<1>14. ASSUME NEW t \in Sessions, Logout(t) PROVE Goal
  BY <1>14 DEF Logout, Revoke, Chosen, Inv, TypeOK
<1>15. ASSUME NEW v \in Users, LogoutAll(v) PROVE Goal
  BY <1>15 DEF LogoutAll, Revoke, Chosen, Inv, TypeOK
<1>16. ASSUME NEW v \in Users, UpdateStatus(v) PROVE Goal
  BY <1>16 DEF UpdateStatus, Chosen, Inv, TypeOK
<1>17. ASSUME NEW t \in Sessions, Expire(t) PROVE Goal
  BY <1>17 DEF Expire, Chosen, Inv, TypeOK
<1> QED
  BY <1>1, <1>2, <1>3, <1>4, <1>5, <1>6, <1>7, <1>8, <1>9, <1>10, <1>11, <1>12, <1>13, <1>14, <1>15, <1>16, <1>17
     DEF Next, LoginStep, RefreshStep

\* Apart from that select no step adds to the sessions that count and are listed,
\* and what a login still has to revoke leaves its list by being revoked only.
LEMMA ListedStep ==
  ASSUME Inv, LoginInv, Next, ~ \E q \in Requests : ListActive(q), NEW u \in Users
  PROVE  /\ Listed(u)' \subseteq Listed(u)
         /\ \A q \in Requests, s \in Listed(u)' :
              pc[q] = "pruning" /\ sess[q] \in Listed(u)' /\ s \in victims[q] =>
                pc'[q] = "pruning" /\ sess'[q] = sess[q] /\ s \in victims'[q]
<1> DEFINE Goal ==
       /\ Listed(u)' \subseteq Listed(u)
       /\ \A q \in Requests, s \in Listed(u)' :
            pc[q] = "pruning" /\ sess[q] \in Listed(u)' /\ s \in victims[q] =>
              pc'[q] = "pruning" /\ sess'[q] = sess[q] /\ s \in victims'[q]
<1> USE DEF rowVars, requestVars, historyVars
<1>1. ASSUME NEW r \in Requests, NEW v \in Users, StartLogin(r, v) PROVE Goal
  BY <1>1 DEF StartLogin, Listed, OwnedBy, Rows, Active, Inv, TypeOK, RequestInv, BlankInv, LoginInv, LoggingIn
<1>2. ASSUME NEW r \in Requests, NEW t \in Sessions, CreateSession(r, t) PROVE Goal
  BY <1>2 DEF CreateSession, Listed, OwnedBy, Rows, Active, Inv, TypeOK, RequestInv, BlankInv, LoginInv, LoggingIn
<1>3. ASSUME NEW r \in Requests, StoreFirstToken(r) PROVE Goal
  BY <1>3 DEF StoreFirstToken, StoreToken, Listed, OwnedBy, Rows, Active, Inv, TypeOK, RequestInv, BlankInv, LoginInv, LoggingIn
<1>4. ASSUME NEW r \in Requests, ListActive(r) PROVE Goal
  BY <1>4 DEF ListActive, Listed, OwnedBy, Rows, Active, Inv, TypeOK, RequestInv, BlankInv, LoginInv, LoggingIn
<1>5. ASSUME NEW r \in Requests, NEW t \in Sessions, PruneOne(r, t) PROVE Goal
  BY <1>5 DEF PruneOne, Revoke, Listed, OwnedBy, Rows, Active, Inv, TypeOK, RequestInv, BlankInv, LoginInv, LoggingIn
<1>6. ASSUME NEW r \in Requests, Pruned(r) PROVE Goal
  BY <1>6 DEF Pruned, Goto, Listed, OwnedBy, Rows, Active, Inv, TypeOK, RequestInv, BlankInv, LoginInv, LoggingIn
<1>7. ASSUME NEW r \in Requests, NEW t \in Sessions, NEW k \in 1 .. MaxTokens, FindSession(r, t, k) PROVE Goal
  BY <1>7 DEF FindSession, Present, Listed, OwnedBy, Rows, Active, Inv, TypeOK, RequestInv, BlankInv, LoginInv, LoggingIn
<1>8. ASSUME NEW r \in Requests, MarkReuse(r) PROVE Goal
  BY <1>8 DEF MarkReuse, Goto, Listed, OwnedBy, Rows, Active, Inv, TypeOK, RequestInv, BlankInv, LoginInv, LoggingIn
<1>9. ASSUME NEW r \in Requests, RevokeOnReuse(r) PROVE Goal
  BY <1>9 DEF RevokeOnReuse, Revoke, End, Listed, OwnedBy, Rows, Active, Inv, TypeOK, RequestInv, BlankInv, LoginInv, LoggingIn
<1>10. ASSUME NEW r \in Requests, CheckUser(r) PROVE Goal
  BY <1>10 DEF CheckUser, Goto, End, Listed, OwnedBy, Rows, Active, Inv, TypeOK, RequestInv, BlankInv, LoginInv, LoggingIn
<1>11. ASSUME NEW r \in Requests, Rotate(r) PROVE Goal
  BY <1>11 DEF Rotate, StoreToken, Listed, OwnedBy, Rows, Active, Inv, TypeOK, RequestInv, BlankInv, LoginInv, LoggingIn
<1>12. ASSUME NEW r \in Requests, Reply(r) PROVE Goal
  BY <1>12 DEF Reply, End, Listed, OwnedBy, Rows, Active, Inv, TypeOK, RequestInv, BlankInv, LoginInv, LoggingIn
<1>13. ASSUME NEW r \in Requests, Abort(r) PROVE Goal
  BY <1>13 DEF Abort, End, Listed, OwnedBy, Rows, Active, Inv, TypeOK, RequestInv, BlankInv, LoginInv, LoggingIn
<1>14. ASSUME NEW t \in Sessions, Logout(t) PROVE Goal
  BY <1>14 DEF Logout, Revoke, Listed, OwnedBy, Rows, Active, Inv, TypeOK, RequestInv, BlankInv, LoginInv, LoggingIn
<1>15. ASSUME NEW v \in Users, LogoutAll(v) PROVE Goal
  BY <1>15 DEF LogoutAll, Revoke, Listed, OwnedBy, Rows, Active, Inv, TypeOK, RequestInv, BlankInv, LoginInv, LoggingIn
<1>16. ASSUME NEW v \in Users, UpdateStatus(v) PROVE Goal
  BY <1>16 DEF UpdateStatus, Listed, OwnedBy, Rows, Active, Inv, TypeOK, RequestInv, BlankInv, LoginInv, LoggingIn
<1>17. ASSUME NEW t \in Sessions, Expire(t) PROVE Goal
  BY <1>17 DEF Expire, Listed, OwnedBy, Rows, Active, Inv, TypeOK, RequestInv, BlankInv, LoginInv, LoggingIn
<1> QED
  BY <1>1, <1>2, <1>3, <1>4, <1>5, <1>6, <1>7, <1>8, <1>9, <1>10, <1>11, <1>12, <1>13, <1>14, <1>15, <1>16, <1>17
     DEF Next, LoginStep, RefreshStep

\* What the select leaves out has MaxActive - 1 newer sessions.
LEMMA ExcessIsOld ==
  ASSUME Inv, LoginInv, NEW r \in Requests, ListActive(r), NEW s \in victims'[r]
  PROVE  s \in Rows /\ Cardinality(Newer(s)) >= MaxActive - 1
<1> DEFINE others == {t \in OwnedBy(user[r]) : Active(t) /\ t # sess[r]}
<1>1. victims'[r] = Excess(others)
  BY DEF ListActive, Inv, TypeOK
<1>2. s \in others /\ Cardinality({t \in others : t > s}) >= MaxActive - 1
  BY <1>1 DEF Excess
<1>3. owner[s] = user[r] /\ s \in Rows
  BY <1>2 DEF OwnedBy
<1>4. Newer(s) \in SUBSET Sessions /\ {t \in others : t > s} \in SUBSET Newer(s)
  BY <1>3 DEF Newer, OwnedBy, Rows
<1>5. /\ Cardinality({t \in others : t > s}) <= Cardinality(Newer(s))
      /\ Cardinality(Newer(s)) \in Nat /\ Cardinality({t \in others : t > s}) \in Nat
      /\ MaxActive \in Nat
  BY <1>4, MoreSessions, SessionsAreFinite, BoundAssumption
<1> QED
  BY <1>2, <1>3, <1>5

LEMMA OldInvStep ==
  ASSUME Inv, LoginInv, OldInv, Next
  PROVE  OldInv'
<1> SUFFICES ASSUME NEW s \in Sessions, owner'[s] # NoUser, Chosen(s)'
             PROVE  Cardinality(Newer(s)') >= MaxActive - 1
  BY DEF OldInv, Rows, Newer
<1>1. Chosen(s) => s \in Rows
  BY DEF Chosen, Inv, BlankInv, RequestInv, Rows
<1>2. s \in Rows /\ Cardinality(Newer(s)) >= MaxActive - 1
  BY <1>1, ChosenStep, ExcessIsOld DEF OldInv
<1>3. Newer(s) \subseteq Newer(s)' /\ Newer(s)' \subseteq Sessions /\ Newer(s) \subseteq Sessions
  BY <1>2, OwnersKept DEF Newer, OwnedBy, Rows
<1>4. Cardinality(Newer(s)) \in Nat /\ Cardinality(Newer(s)') \in Nat /\ MaxActive \in Nat
  BY <1>3, SessionsAreFinite, BoundAssumption
<1>5. Cardinality(Newer(s)) <= Cardinality(Newer(s)')
  BY <1>3, MoreSessions
<1> QED
  BY <1>2, <1>4, <1>5

\* A login that lists sees every listed session but its own: when they are too
\* many, the oldest of them is on its list.
LEMMA ListActiveKeepsCap ==
  ASSUME Inv, LoginInv, CapInv, NEW r \in Requests, ListActive(r)
  PROVE  CapInv'
<1> DEFINE others == {t \in OwnedBy(user[r]) : Active(t) /\ t # sess[r]}
<1>1. /\ victims'[r] = Excess(others) /\ pc'[r] = "pruning" /\ sess' = sess
      /\ \A q \in Requests \ {r} : victims'[q] = victims[q] /\ pc'[q] = pc[q]
      /\ pc[r] = "listing" /\ owner' = owner /\ revived' = revived /\ unpruned' = unpruned
  BY DEF ListActive, Inv, TypeOK, rowVars, historyVars
<1>2. sess[r] \in Sessions /\ owner[sess[r]] = user[r] /\ user[r] \in Users
  BY <1>1 DEF Inv, RequestInv, LoginInv, LoggingIn
<1>3. \A u \in Users : Listed(u)' \subseteq Listed(u) \union {sess[r]}
  BY <1>1 DEF Listed, OwnedBy, Rows, Active, ListActive, rowVars
<1> SUFFICES ASSUME NEW u \in Users, NEW T \in SUBSET Listed(u)', Cardinality(T) > MaxActive
             PROVE  \E q \in Requests : pc'[q] = "pruning" /\ sess'[q] \in T /\ victims'[q] \cap T # {}
  BY DEF CapInv
<1>4. T \in SUBSET Sessions
  BY DEF Listed, OwnedBy, Rows
<1>5. CASE sess[r] \notin T
  <2>1. PICK q \in Requests : pc[q] = "pruning" /\ sess[q] \in T /\ victims[q] \cap T # {}
    BY <1>3, <1>5 DEF CapInv
  <2>2. q # r
    BY <1>1, <2>1
  <2> QED
    BY <1>1, <2>1, <2>2
<1>6. CASE sess[r] \in T
  <2>1. u = user[r]
    BY <1>1, <1>2, <1>6 DEF Listed, OwnedBy
  <2>2. others \in SUBSET Sessions /\ T \ {sess[r]} \in SUBSET others
    BY <1>3, <2>1 DEF Listed, OwnedBy, Rows
  <2>3. Cardinality(T \ {sess[r]}) = Cardinality(T) - 1
    BY <1>4, <1>6, SessionsAreFinite, FS_RemoveElement
  <2>4. Cardinality(T) \in Nat /\ MaxActive \in Nat
    BY <1>4, SessionsAreFinite, BoundAssumption
  <2>5. Cardinality(T \ {sess[r]}) >= MaxActive
    BY <2>3, <2>4
  <2>6. Excess(others) \cap (T \ {sess[r]}) # {}
    <3> HIDE DEF others
    <3> QED
      BY <2>2, <2>5, ExcessHits
  <2> QED
    BY <1>1, <1>6, <2>6
<1> QED
  BY <1>5, <1>6

LEMMA CapInvStep ==
  ASSUME Inv, LoginInv, CapInv, Next
  PROVE  CapInv'
<1>1. CASE \E r \in Requests : ListActive(r)
  BY <1>1, ListActiveKeepsCap
<1>2. CASE ~ \E r \in Requests : ListActive(r)
  <2> SUFFICES ASSUME NEW u \in Users, NEW T \in SUBSET Listed(u)', Cardinality(T) > MaxActive
               PROVE  \E q \in Requests : pc'[q] = "pruning" /\ sess'[q] \in T /\ victims'[q] \cap T # {}
    BY DEF CapInv
  <2>1. T \in SUBSET Listed(u)
    BY <1>2, ListedStep
  <2>2. PICK q \in Requests : pc[q] = "pruning" /\ sess[q] \in T /\ victims[q] \cap T # {}
    BY <2>1 DEF CapInv
  <2>3. PICK s \in T : s \in victims[q]
    BY <2>2
  <2>4. pc'[q] = "pruning" /\ sess'[q] = sess[q] /\ s \in victims'[q]
    BY <1>2, <2>2, <2>3, ListedStep
  <2> QED
    BY <2>2, <2>3, <2>4
<1> QED
  BY <1>1, <1>2

LEMMA LimitInvInit == Init => LimitInv
<1> SUFFICES ASSUME Init PROVE LimitInv
  OBVIOUS
<1>1. Rows = {} /\ \A u \in Users : Listed(u) = {}
  BY DEF Init, Rows, Listed, OwnedBy
<1>2. OldInv
  BY <1>1 DEF OldInv
<1>3. CapInv
  <2> SUFFICES ASSUME NEW u \in Users, NEW T \in SUBSET Listed(u), Cardinality(T) > MaxActive
               PROVE  FALSE
    BY DEF CapInv
  <2>1. Cardinality(T) = 0
    BY <1>1, FS_EmptySet
  <2> QED
    BY <2>1, BoundAssumption
<1> QED
  BY <1>2, <1>3, InitInv, LoginInvInit DEF LimitInv

LEMMA LimitInvNext == LimitInv /\ [Next]_vars => LimitInv'
<1> SUFFICES ASSUME LimitInv, [Next]_vars PROVE LimitInv'
  OBVIOUS
<1>1. Inv'
  BY NextInv DEF LimitInv
<1>2. CASE Next
  BY <1>1, <1>2, LoginInvStep, OldInvStep, CapInvStep DEF LimitInv
<1>3. CASE UNCHANGED vars
  <2> USE <1>3 DEF vars, rowVars, requestVars, historyVars, LimitInv
  <2>1. LoginInv'
    BY DEF LoginInv, LoggingIn
  <2>2. OldInv'
    BY DEF OldInv, Chosen, Newer, OwnedBy, Rows
  <2>3. CapInv'
    BY DEF CapInv, Listed, OwnedBy, Rows, Active
  <2> QED
    BY <1>1, <2>1, <2>2, <2>3
<1> QED
  BY <1>2, <1>3

LEMMA LimitInvariance == Spec => []LimitInv
  BY LimitInvInit, LimitInvNext, PTL DEF Spec

-----------------------------------------------------------------------------
(* The theorems.                                                           *)

\* A login only revokes a session that has MaxActive - 1 newer ones of the same
\* user, whatever other logins revoke at the same time.
THEOREM LoginsRevokeOldSessions == Spec => []PrunedIsOld
<1>1. LimitInv => PrunedIsOld
  BY DEF LimitInv, Inv, BlankInv, OldInv, PrunedIsOld, Rows, Chosen, Newer
<1> QED
  BY <1>1, LimitInvariance, PTL

\* However many logins of a user run at once, the sessions whose login got
\* through its pruning stay within AUTH_MAX_ACTIVE_SESSIONS_PER_USER.
THEOREM ConcurrentLoginsKeepTheLimit == Spec => []SessionCap
<1>1. ASSUME LimitInv, NEW u \in Users
      PROVE  Cardinality({s \in OwnedBy(u) : Active(s)} \ (unpruned \union revived)) <= MaxActive
  <2> DEFINE T == {s \in OwnedBy(u) : Active(s)} \ (unpruned \union revived)
  <2>1. T \in SUBSET Listed(u) /\ T \in SUBSET Sessions
    BY DEF Listed, OwnedBy, Rows
  <2>2. \A r \in Requests : pc[r] = "pruning" => sess[r] \notin T
    BY <1>1 DEF LimitInv, LoginInv, LoggingIn
  <2>3. ~(Cardinality(T) > MaxActive)
    <3> HIDE DEF T
    <3> QED
      BY <1>1, <2>1, <2>2 DEF LimitInv, CapInv
  <2>4. Cardinality(T) \in Nat /\ MaxActive \in Nat
    BY <2>1, SessionsAreFinite, BoundAssumption
  <2> QED
    BY <2>3, <2>4
<1>2. LimitInv => SessionCap
  BY <1>1 DEF SessionCap
<1> QED
  BY <1>2, LimitInvariance, PTL
=============================================================================
