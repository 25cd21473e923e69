------------------------- MODULE ServiceClientsProofs -------------------------
(***************************************************************************)
(* The safety properties of ServiceClients, for every number of rotations, *)
(* seeds, callers, secrets and versions.                                   *)
(*                                                                         *)
(* The unique index on the version does the work: versions are stored      *)
(* without gaps, so every call that may still insert one wants the same,   *)
(* the first free one, and whatever it read before its insert is still     *)
(* true as long as that version is free.                                   *)
(***************************************************************************)
EXTENDS ServiceClients, TLAPS

Past(a)    == pc[a] \in {"demoting", "committing"}
Reading(a) == pc[a] \in {"primary", "inserting", "demoting", "committing"}
Below(n)   == \A w \in Versions : w < n => Exists(w)

\* Versions have no gaps, rows that do not exist are blank, a primary lasts.
TableInv ==
  \A v \in Versions :
    /\ ~Exists(v) => ~primary[v] /\ until[v] = "never" /\ ~revoked[v]
    /\ primary[v] => Lasting(v)
    /\ Exists(v) => Below(v)

\* Nobody works on the secrets of a client that does not exist.
StatusInv ==
  status = "NONE" =>
    /\ \A v \in Versions : ~Exists(v)
    /\ \A a \in Admins : pc[a] = "idle"
    /\ \A d \in Seeds : pc[d] \in {"idle", "creating"}

\* A rotation wants the version after the stored ones; past its insert it is the
\* only one to have it.
RotationInv ==
  \A a \in Admins :
    /\ pc[a] # "idle" => mine[a] \in Secrets
    /\ Reading(a) => next[a] \in Versions /\ Below(next[a])
    /\ Past(a) => ~Exists(next[a]) /\ \A b \in Admins : Past(b) => a = b

\* As long as its version is free, the primary a rotation read is the primary,
\* or a seed revoked it.
PrevInv ==
  \A a \in Admins : (pc[a] = "inserting" \/ Past(a)) /\ ~Exists(next[a]) =>
    /\ \A v \in Versions : primary[v] => v = prev[a]
    /\ prev[a] \in Versions => primary[prev[a]] \/ revoked[prev[a]]

\* The same for a seed: it revokes all there is.
SeedInv ==
  \A d \in Seeds :
    /\ pc[d] # "idle" => mine[d] \in Secrets
    /\ targets[d] \subseteq Stored
    /\ pc[d] \in {"idle", "listing", "bootstrap"} => next[d] = 0
    /\ pc[d] \in {"revoking", "waiting", "replacing"} /\ next[d] \in Versions =>
         /\ Below(next[d])
         /\ pc[d] = "waiting" /\ ~Exists(next[d]) => Stored \subseteq targets[d]
         /\ pc[d] = "replacing" /\ ~Exists(next[d]) => \A v \in Versions : ~primary[v]

\* The secret of an owed caller is still accepted.
OwedInv ==
  \A c \in owed :
    /\ pc[c] \in {"active", "admitted"}
    /\ \E v \in Versions : Accepted(v) /\ secret[v] = shown[c]

\* Why a client is locked out.
LockoutInv ==
  status # "NONE" /\ LockedOut =>
    \/ cut
    \/ Stored = {} /\ \E d \in Seeds : pc[d] = "first"
    \/ \E d \in Seeds : pc[d] = "replacing"

Inv ==
  /\ TypeOK
  /\ TableInv
  /\ StatusInv
  /\ OneCurrentSecret
  /\ RotationInv
  /\ PrevInv
  /\ SeedInv
  /\ OwedInv
  /\ LockoutInv

-----------------------------------------------------------------------------
(* Lemmas.                                                                 *)

\* Nothing about the table changes.
TableKept ==
  /\ UNCHANGED secretVars
  /\ \A v \in Versions : Exists(v)' <=> Exists(v)
  /\ \A v \in Versions : Below(v)' <=> Below(v)
  /\ \A v \in Versions : Accepted(v)' <=> Accepted(v)
  /\ \A v \in Versions : Lasting(v)' <=> Lasting(v)
  /\ Stored' = Stored
  /\ LockedOut' <=> LockedOut

LEMMA KeptEffect == UNCHANGED secretVars => TableKept
BY DEF TableKept, secretVars, Exists, Below, Accepted, Lasting, Unrevoked, Stored, LockedOut

\* Version m is new, and no other row gets worse.
TableGrown(m) ==
  /\ \A v \in Versions : Exists(v)' <=> Exists(v) \/ v = m
  /\ \A v \in Versions : Accepted(v) => Accepted(v)' /\ secret'[v] = secret[v]
  /\ Lasting(m)'

\* There is one first free version.
LEMMA OneFree ==
  ASSUME NEW m \in Versions, NEW n \in Versions,
         Below(m), Below(n), ~Exists(m), ~Exists(n)
  PROVE  m = n
BY DEF Below, Versions

LEMMA GrownEffect ==
  ASSUME NEW m \in Versions, Below(m), ~Exists(m), TableGrown(m)
  PROVE  /\ \A n \in Versions : Below(n) => Below(n)'
         /\ \A n \in Versions : Below(n) => Exists(n)' \/ (n # m /\ Exists(n))
         /\ Stored \subseteq Stored'
         /\ ~LockedOut'
<1>1. \A n \in Versions : Below(n) => Below(n)'
  BY DEF TableGrown, Below
<1>2. \A n \in Versions : Below(n) => Exists(n)' \/ (n # m /\ Exists(n))
  BY OneFree DEF TableGrown
<1>3. Stored \subseteq Stored'
  BY DEF TableGrown, Stored
<1>4. ~LockedOut'
  BY DEF TableGrown, LockedOut
<1> QED
  BY <1>1, <1>2, <1>3, <1>4

\* Storing a secret while none is primary.
LEMMA InsertEffect ==
  ASSUME Inv, NEW m \in Versions, NEW x \in Secrets, Insert(m, x),
         ~Exists(m), Below(m), \A v \in Versions : ~primary[v]
  PROVE  /\ secret' \in [Versions -> Secrets \union {NoSecret}]
         /\ primary' \in [Versions -> BOOLEAN]
         /\ TableInv' /\ OneCurrentSecret' /\ TableGrown(m)
<1> USE SecretAssumption DEF Inv, TypeOK, Insert
<1>1. /\ secret' \in [Versions -> Secrets \union {NoSecret}]
      /\ primary' \in [Versions -> BOOLEAN]
  OBVIOUS
<1>2. TableGrown(m)
  BY DEF TableGrown, TableInv, Exists, Accepted, Lasting, Unrevoked
<1>3. TableInv'
  BY DEF TableInv, Exists, Lasting, Unrevoked, Below
<1>4. OneCurrentSecret'
  BY DEF OneCurrentSecret, Exists, Lasting, Unrevoked
<1> QED
  BY <1>1, <1>2, <1>3, <1>4

LEMMA EndEffect ==
  ASSUME TypeOK, NEW s \in Slots, End(s)
  PROVE  /\ pc' = [pc EXCEPT ![s] = "idle"]
         /\ pc' \in [Slots \union Callers -> AdminSteps \union SeedSteps \union CallerSteps]
         /\ \A a \in Admins : pc'[a] \in AdminSteps
         /\ \A d \in Seeds : pc'[d] \in SeedSteps
         /\ \A c \in Callers : pc'[c] \in CallerSteps
         /\ mine' \in [Slots -> Secrets \union {NoSecret}]
         /\ next' \in [Slots -> 0 .. MaxVersion]
         /\ prev' \in [Admins -> 0 .. MaxVersion]
         /\ targets' \in [Seeds -> SUBSET Versions]
BY BoundAssumption, SlotAssumption
   DEF TypeOK, End, Goto, Slots, AdminSteps, SeedSteps, CallerSteps

\* Nothing but the call s moves, and it leaves or is a seed after a bootstrap.
OnlyMoves(s) ==
  /\ \A t \in Slots \ {s} : pc'[t] = pc[t] /\ mine'[t] = mine[t] /\ next'[t] = next[t]
  /\ \A a \in Admins \ {s} : prev'[a] = prev[a]
  /\ \A d \in Seeds : targets'[d] = targets[d] \/ (d = s /\ targets'[d] = {})
  /\ \A c \in Callers : pc'[c] = pc[c]
  /\ next'[s] = 0
  /\ pc'[s] = "idle" \/ (s \in Seeds /\ pc'[s] = "revoking" /\ mine'[s] \in Secrets)

LEMMA EndMoves ==
  ASSUME TypeOK, NEW s \in Slots, End(s)
  PROVE  OnlyMoves(s) /\ pc'[s] = "idle"
BY SlotAssumption DEF TypeOK, End, Goto, Slots, OnlyMoves

\* What the calls know survives the storing of a version by one that leaves.
LEMMA GrownCalls ==
  ASSUME Inv, NEW m \in Versions, Below(m), ~Exists(m), TableGrown(m),
         NEW s \in Slots, OnlyMoves(s),
         \A a \in Admins \ {s} : ~Past(a)
  PROVE  RotationInv' /\ PrevInv' /\ SeedInv'
<1> USE SlotAssumption DEF Inv, OnlyMoves
<1>1. /\ \A n \in Versions : Below(n) => Below(n)' /\ (Exists(n)' \/ (n # m /\ Exists(n)))
      /\ \A n \in Versions : Exists(n) => Exists(n)'
      /\ Stored \subseteq Stored'
  BY GrownEffect DEF TableGrown
<1>2. s \in Admins => pc'[s] = "idle"
  OBVIOUS
<1>5. RotationInv'
  BY <1>1, <1>2 DEF RotationInv, Past, Reading, Slots
<1>6. PrevInv'
  <2> SUFFICES ASSUME NEW a \in Admins, (pc[a] = "inserting" \/ Past(a))', ~Exists(next[a])'
               PROVE  FALSE
    BY DEF PrevInv
  <2>1. a # s
    BY <1>2 DEF Past
  <2>2. Reading(a)
    BY <2>1 DEF Past, Reading, Slots
  <2>3. next[a] \in Versions /\ Below(next[a])
    BY <2>2 DEF RotationInv
  <2>4. next'[a] = next[a]
    BY <2>1 DEF Slots
  <2> QED
    BY <1>1, <2>3, <2>4
<1>7. SeedInv'
  <2> SUFFICES ASSUME NEW d \in Seeds
               PROVE  /\ pc'[d] # "idle" => mine'[d] \in Secrets
                      /\ targets'[d] \subseteq Stored'
                      /\ pc'[d] \in {"idle", "listing", "bootstrap"} => next'[d] = 0
                      /\ pc'[d] \in {"revoking", "waiting", "replacing"} /\ next'[d] \in Versions =>
                           Below(next[d])' /\ Exists(next[d])'
    BY DEF SeedInv
  <2>1. targets'[d] \subseteq Stored'
    BY <1>1 DEF SeedInv
  <2>2. CASE d = s
    BY <2>1, <2>2 DEF Versions
  <2>3. CASE d # s
    BY <2>1, <2>3, <1>1 DEF SeedInv, Slots
  <2> QED
    BY <2>2, <2>3
<1> QED
  BY <1>5, <1>6, <1>7

\* Nor does it take a secret from a caller or from the client.
LEMMA GrownRest ==
  ASSUME Inv, NEW m \in Versions, Below(m), ~Exists(m), TableGrown(m),
         status' # "NONE", UNCHANGED callerVars, \A c \in Callers : pc'[c] = pc[c]
  PROVE  StatusInv' /\ OwedInv' /\ LockoutInv'
<1>1. StatusInv'
  BY DEF StatusInv
<1>2. OwedInv'
  <2> SUFFICES ASSUME NEW c \in owed
               PROVE  /\ pc'[c] \in {"active", "admitted"}
                      /\ \E v \in Versions : Accepted(v)' /\ secret'[v] = shown'[c]
    BY DEF OwedInv, callerVars
  <2>1. c \in Callers /\ pc'[c] \in {"active", "admitted"}
    BY DEF Inv, TypeOK, OwedInv
  <2>2. PICK v \in Versions : Accepted(v) /\ secret[v] = shown[c]
    BY DEF Inv, OwedInv
  <2> QED
    BY <2>1, <2>2 DEF TableGrown, callerVars
<1>3. LockoutInv'
  BY GrownEffect DEF LockoutInv
<1> QED
  BY <1>1, <1>2, <1>3

\* A call ends without touching the table.
LEMMA EndKept ==
  ASSUME Inv, NEW s \in Slots, End(s), UNCHANGED << status, secretVars, callerVars >>,
         cut' \in BOOLEAN, cut => cut',
         pc[s] = "first" /\ Stored = {} => cut',
         pc[s] = "replacing" /\ LockedOut => cut'
  PROVE  Inv'
<1> USE SlotAssumption, BoundAssumption DEF Inv, slotVars, callerVars
<1>0. TableKept
  BY KeptEffect
<1>1. OnlyMoves(s) /\ pc'[s] = "idle"
  BY EndMoves
<1>2. TypeOK'
  BY EndEffect DEF TypeOK, secretVars
<1>3. TableInv' /\ OneCurrentSecret'
  BY <1>0 DEF TableKept, TableInv, OneCurrentSecret, secretVars
<1>4. StatusInv'
  BY <1>0, <1>1 DEF TableKept, StatusInv, OnlyMoves, Slots
<1>5. RotationInv'
  BY <1>0, <1>1 DEF TableKept, RotationInv, OnlyMoves, Past, Reading, Slots
<1>6. PrevInv'
  BY <1>0, <1>1 DEF TableKept, PrevInv, RotationInv, OnlyMoves, Past, Reading, Slots, secretVars
<1>7. SeedInv'
  BY <1>0, <1>1 DEF TableKept, SeedInv, OnlyMoves, Slots, secretVars
<1>8. OwedInv'
  BY <1>0, <1>1 DEF TableKept, OwedInv, OnlyMoves, TypeOK, secretVars
<1>9. LockoutInv'
  BY <1>0, <1>1 DEF TableKept, LockoutInv, OnlyMoves, Slots
<1> QED
  BY <1>2, <1>3, <1>4, <1>5, <1>6, <1>7, <1>8, <1>9

-----------------------------------------------------------------------------
(* Every action keeps the invariant.  First those that leave the table of  *)
(* secrets alone.                                                          *)

LEMMA UpdateClientStep ==
  ASSUME Inv, NEW st \in Statuses, UpdateClient(st)
  PROVE  Inv'
<1> USE SecretAssumption, SlotAssumption, BoundAssumption
      DEF Inv, UpdateClient, Statuses, slotVars, callerVars
<1>0. TableKept
  BY KeptEffect
<1>1. TypeOK'
  BY DEF TypeOK, AdminSteps, SeedSteps, CallerSteps, Slots, secretVars
<1>2. TableInv'
  BY <1>0 DEF TableKept, TableInv, TypeOK, secretVars
<1>3. StatusInv'
  BY <1>0 DEF TableKept, StatusInv, TypeOK, Slots
<1>4. OneCurrentSecret'
  BY <1>0 DEF TableKept, OneCurrentSecret, TypeOK, secretVars
<1>5. RotationInv'
  BY <1>0 DEF TableKept, RotationInv, TypeOK, Past, Reading, Slots
<1>6. PrevInv'
  BY <1>0 DEF TableKept, PrevInv, RotationInv, Reading, TypeOK, Past, Slots, secretVars
<1>7. SeedInv'
  BY <1>0 DEF TableKept, SeedInv, TypeOK, Slots, secretVars
<1>8. OwedInv'
  BY <1>0 DEF TableKept, OwedInv, TypeOK, Slots, secretVars
<1>9. LockoutInv'
  BY <1>0 DEF TableKept, LockoutInv, TypeOK, Slots
<1> QED
  BY <1>1, <1>2, <1>3, <1>4, <1>5, <1>6, <1>7, <1>8, <1>9

LEMMA StartRotationStep ==
  ASSUME Inv, NEW a \in Admins, NEW x \in Generated, StartRotation(a, x)
  PROVE  Inv'
<1> USE SecretAssumption, SlotAssumption, BoundAssumption
      DEF Inv, StartRotation, Goto, Secrets, slotVars, callerVars
<1>0. TableKept
  BY KeptEffect
<1>1. TypeOK'
  BY DEF TypeOK, AdminSteps, SeedSteps, CallerSteps, Slots, secretVars
<1>2. TableInv'
  BY <1>0 DEF TableKept, TableInv, TypeOK, secretVars
<1>3. StatusInv'
  BY <1>0 DEF TableKept, StatusInv, TypeOK, Slots
<1>4. OneCurrentSecret'
  BY <1>0 DEF TableKept, OneCurrentSecret, TypeOK, secretVars
<1>5. RotationInv'
  BY <1>0 DEF TableKept, RotationInv, TypeOK, Past, Reading, Slots
<1>6. PrevInv'
  BY <1>0 DEF TableKept, PrevInv, RotationInv, Reading, TypeOK, Past, Slots, secretVars
<1>7. SeedInv'
  BY <1>0 DEF TableKept, SeedInv, TypeOK, Slots, secretVars
<1>8. OwedInv'
  BY <1>0 DEF TableKept, OwedInv, TypeOK, Slots, secretVars
<1>9. LockoutInv'
  BY <1>0 DEF TableKept, LockoutInv, TypeOK, Slots
<1> QED
  BY <1>1, <1>2, <1>3, <1>4, <1>5, <1>6, <1>7, <1>8, <1>9

LEMMA ReadLatestStep ==
  ASSUME Inv, NEW a \in Admins, ReadLatest(a)
  PROVE  Inv'
<1> USE SecretAssumption, SlotAssumption, BoundAssumption
      DEF Inv, ReadLatest, Goto, slotVars, callerVars
<1>0. TableKept
  BY KeptEffect
<1>1. TypeOK'
  <2>0. 1 \in 0 .. MaxVersion /\ \A v \in Versions : v < MaxVersion => v + 1 \in 0 .. MaxVersion
    BY DEF Versions
  <2>1. next' \in [Slots -> 0 .. MaxVersion]
    BY <2>0 DEF TypeOK, Slots
  <2>2. /\ pc' \in [Slots \union Callers -> AdminSteps \union SeedSteps \union CallerSteps]
        /\ \A b \in Admins : pc'[b] \in AdminSteps
        /\ \A d1 \in Seeds : pc'[d1] \in SeedSteps
        /\ \A c \in Callers : pc'[c] \in CallerSteps
    BY DEF TypeOK, AdminSteps, SeedSteps, CallerSteps, Slots
  <2> QED
    BY <2>1, <2>2 DEF TypeOK, secretVars
<1>2. TableInv'
  BY <1>0 DEF TableKept, TableInv, TypeOK, secretVars
<1>3. StatusInv'
  BY <1>0 DEF TableKept, StatusInv, TypeOK, Slots
<1>4. OneCurrentSecret'
  BY <1>0 DEF TableKept, OneCurrentSecret, TypeOK, secretVars
<1>5. RotationInv'
  <2>1. next'[a] \in Versions /\ Below(next'[a])
    BY DEF TypeOK, TableInv, Newest, Stored, Below, Versions, Slots
  <2> QED
    BY <1>0, <2>1 DEF TableKept, RotationInv, TypeOK, Past, Reading, Slots, Below, secretVars
<1>6. PrevInv'
  BY <1>0 DEF TableKept, PrevInv, RotationInv, Reading, TypeOK, Past, Slots, secretVars
<1>7. SeedInv'
  BY <1>0 DEF TableKept, SeedInv, TypeOK, Slots, secretVars
<1>8. OwedInv'
  BY <1>0 DEF TableKept, OwedInv, TypeOK, Slots, secretVars
<1>9. LockoutInv'
  BY <1>0 DEF TableKept, LockoutInv, TypeOK, Slots
<1> QED
  BY <1>1, <1>2, <1>3, <1>4, <1>5, <1>6, <1>7, <1>8, <1>9

LEMMA ReadPrimaryStep ==
  ASSUME Inv, NEW a \in Admins, ReadPrimary(a)
  PROVE  Inv'
<1> USE SecretAssumption, SlotAssumption, BoundAssumption
      DEF Inv, ReadPrimary, Goto, slotVars, callerVars
<1>0. TableKept
  BY KeptEffect
<1>1. TypeOK'
  <2>1. prev' \in [Admins -> 0 .. MaxVersion]
    BY DEF TypeOK, Slots, Versions, Newest
  <2>2. /\ pc' \in [Slots \union Callers -> AdminSteps \union SeedSteps \union CallerSteps]
        /\ \A b \in Admins : pc'[b] \in AdminSteps
        /\ \A d1 \in Seeds : pc'[d1] \in SeedSteps
        /\ \A c \in Callers : pc'[c] \in CallerSteps
    BY DEF TypeOK, AdminSteps, SeedSteps, CallerSteps, Slots
  <2> QED
    BY <2>1, <2>2 DEF TypeOK, secretVars
<1>2. TableInv'
  BY <1>0 DEF TableKept, TableInv, TypeOK, secretVars
<1>3. StatusInv'
  BY <1>0 DEF TableKept, StatusInv, TypeOK, Slots
<1>4. OneCurrentSecret'
  BY <1>0 DEF TableKept, OneCurrentSecret, TypeOK, secretVars
<1>5. RotationInv'
  BY <1>0 DEF TableKept, RotationInv, TypeOK, Past, Reading, Slots
<1>6. PrevInv'
  <2>1. \A v \in Versions : primary[v] => v = prev'[a]
    BY DEF TypeOK, TableInv, OneCurrentSecret, Newest, Accepted, Lasting
  <2>2. prev'[a] \in Versions => primary[prev'[a]]
    BY DEF TypeOK, Newest, Versions
  <2>3. /\ \A b \in Admins \ {a} : pc'[b] = pc[b] /\ prev'[b] = prev[b]
        /\ next' = next
    BY DEF TypeOK, Slots
  <2>4. \A b \in Admins \ {a} : pc[b] = "inserting" \/ Past(b) => next[b] \in Versions
    BY DEF RotationInv, Reading, Past
  <2>5. ASSUME NEW b \in Admins \ {a}, (pc[b] = "inserting" \/ Past(b))', ~Exists(next[b])'
        PROVE  /\ \A v \in Versions : primary'[v] => v = prev'[b]
               /\ prev'[b] \in Versions => primary'[prev'[b]] \/ revoked'[prev'[b]]
    BY <1>0, <2>3, <2>4, <2>5 DEF TableKept, PrevInv, Past, secretVars
  <2> QED
    BY <1>0, <2>1, <2>2, <2>5 DEF TableKept, PrevInv, secretVars
<1>7. SeedInv'
  BY <1>0 DEF TableKept, SeedInv, TypeOK, Slots, secretVars
<1>8. OwedInv'
  BY <1>0 DEF TableKept, OwedInv, TypeOK, Slots, secretVars
<1>9. LockoutInv'
  BY <1>0 DEF TableKept, LockoutInv, TypeOK, Slots
<1> QED
  BY <1>1, <1>2, <1>3, <1>4, <1>5, <1>6, <1>7, <1>8, <1>9

LEMMA InsertSecretStep ==
  ASSUME Inv, NEW a \in Admins, InsertSecret(a)
  PROVE  Inv'
<1> USE SecretAssumption, SlotAssumption, BoundAssumption
      DEF Inv, InsertSecret, Goto, End, slotVars, callerVars
<1>0. TableKept
  BY KeptEffect
<1>1. TypeOK'
  BY DEF TypeOK, AdminSteps, SeedSteps, CallerSteps, Slots, secretVars
<1>2. TableInv'
  BY <1>0 DEF TableKept, TableInv, TypeOK, secretVars
<1>3. StatusInv'
  BY <1>0 DEF TableKept, StatusInv, TypeOK, Slots
<1>4. OneCurrentSecret'
  BY <1>0 DEF TableKept, OneCurrentSecret, TypeOK, secretVars
<1>5. RotationInv'
  <2>1. ASSUME NEW b \in Admins, b # a, Past(b)
        PROVE  Exists(next[a])
    BY <2>1, OneFree DEF RotationInv, Past, Reading, Held
  <2> QED
    BY <1>0, <2>1 DEF TableKept, RotationInv, TypeOK, Past, Reading, Slots
<1>6. PrevInv'
  BY <1>0 DEF TableKept, PrevInv, RotationInv, Reading, TypeOK, Past, Slots, secretVars
<1>7. SeedInv'
  BY <1>0 DEF TableKept, SeedInv, TypeOK, Slots, secretVars
<1>8. OwedInv'
  BY <1>0 DEF TableKept, OwedInv, TypeOK, Slots, secretVars
<1>9. LockoutInv'
  BY <1>0 DEF TableKept, LockoutInv, TypeOK, Slots
<1> QED
  BY <1>1, <1>2, <1>3, <1>4, <1>5, <1>6, <1>7, <1>8, <1>9

LEMMA DemoteStep ==
  ASSUME Inv, NEW a \in Admins, Demote(a)
  PROVE  Inv'
<1> USE SecretAssumption, SlotAssumption, BoundAssumption
      DEF Inv, Demote, Goto, slotVars, callerVars
<1>0. TableKept
  BY KeptEffect
<1>1. TypeOK'
  BY DEF TypeOK, AdminSteps, SeedSteps, CallerSteps, Slots, secretVars
<1>2. TableInv'
  BY <1>0 DEF TableKept, TableInv, TypeOK, secretVars
<1>3. StatusInv'
  BY <1>0 DEF TableKept, StatusInv, TypeOK, Slots
<1>4. OneCurrentSecret'
  BY <1>0 DEF TableKept, OneCurrentSecret, TypeOK, secretVars
<1>5. RotationInv'
  BY <1>0 DEF TableKept, RotationInv, TypeOK, Past, Reading, Slots
<1>6. PrevInv'
  BY <1>0 DEF TableKept, PrevInv, RotationInv, Reading, TypeOK, Past, Slots, secretVars
<1>7. SeedInv'
  BY <1>0 DEF TableKept, SeedInv, TypeOK, Slots, secretVars
<1>8. OwedInv'
  BY <1>0 DEF TableKept, OwedInv, TypeOK, Slots, secretVars
<1>9. LockoutInv'
  BY <1>0 DEF TableKept, LockoutInv, TypeOK, Slots
<1> QED
  BY <1>1, <1>2, <1>3, <1>4, <1>5, <1>6, <1>7, <1>8, <1>9

LEMMA StartSeedStep ==
  ASSUME Inv, NEW d \in Seeds, NEW x \in Configured, StartSeed(d, x)
  PROVE  Inv'
<1> USE SecretAssumption, SlotAssumption, BoundAssumption
      DEF Inv, StartSeed, Goto, Secrets, slotVars, callerVars
<1>0. TableKept
  BY KeptEffect
<1>1. TypeOK'
  BY DEF TypeOK, AdminSteps, SeedSteps, CallerSteps, Slots, secretVars
<1>2. TableInv'
  BY <1>0 DEF TableKept, TableInv, TypeOK, secretVars
<1>3. StatusInv'
  BY <1>0 DEF TableKept, StatusInv, TypeOK, Slots
<1>4. OneCurrentSecret'
  BY <1>0 DEF TableKept, OneCurrentSecret, TypeOK, secretVars
<1>5. RotationInv'
  BY <1>0 DEF TableKept, RotationInv, TypeOK, Past, Reading, Slots
<1>6. PrevInv'
  BY <1>0 DEF TableKept, PrevInv, RotationInv, Reading, TypeOK, Past, Slots, secretVars
<1>7. SeedInv'
  BY <1>0 DEF TableKept, SeedInv, TypeOK, Slots, secretVars
<1>8. OwedInv'
  BY <1>0 DEF TableKept, OwedInv, TypeOK, Slots, secretVars
<1>9. LockoutInv'
  BY <1>0 DEF TableKept, LockoutInv, TypeOK, Slots
<1> QED
  BY <1>1, <1>2, <1>3, <1>4, <1>5, <1>6, <1>7, <1>8, <1>9

LEMMA SeedClientStep ==
  ASSUME Inv, NEW d \in Seeds, SeedClient(d)
  PROVE  Inv'
<1> USE SecretAssumption, SlotAssumption, BoundAssumption
      DEF Inv, SeedClient, Goto, End, Statuses, slotVars, callerVars
<1>0. TableKept
  BY KeptEffect
<1>1. TypeOK'
  BY DEF TypeOK, AdminSteps, SeedSteps, CallerSteps, Slots, secretVars
<1>2. TableInv'
  BY <1>0 DEF TableKept, TableInv, TypeOK, secretVars
<1>3. StatusInv'
  BY <1>0 DEF TableKept, StatusInv, TypeOK, Slots
<1>4. OneCurrentSecret'
  BY <1>0 DEF TableKept, OneCurrentSecret, TypeOK, secretVars
<1>5. RotationInv'
  BY <1>0 DEF TableKept, RotationInv, TypeOK, Past, Reading, Slots
<1>6. PrevInv'
  BY <1>0 DEF TableKept, PrevInv, RotationInv, Reading, TypeOK, Past, Slots, secretVars
<1>7. SeedInv'
  BY <1>0 DEF TableKept, SeedInv, TypeOK, Slots, secretVars
<1>8. OwedInv'
  BY <1>0 DEF TableKept, OwedInv, TypeOK, Slots, secretVars
<1>9. LockoutInv'
  BY <1>0 DEF TableKept, LockoutInv, StatusInv, Stored, TypeOK, Slots
<1> QED
  BY <1>1, <1>2, <1>3, <1>4, <1>5, <1>6, <1>7, <1>8, <1>9

LEMMA ListSecretsStep ==
  ASSUME Inv, NEW d \in Seeds, ListSecrets(d)
  PROVE  Inv'
<1> USE SecretAssumption, SlotAssumption, BoundAssumption
      DEF Inv, ListSecrets, Goto, slotVars, callerVars
<1>0. TableKept
  BY KeptEffect
<1>1. TypeOK'
  <2>0. 1 \in 0 .. MaxVersion /\ \A v \in Versions : v < MaxVersion => v + 1 \in 0 .. MaxVersion
    BY DEF Versions
  <2>3. next' = next \/ \E v \in Versions : v < MaxVersion /\ next' = [next EXCEPT ![d] = v + 1]
    OBVIOUS
  <2>1. next' \in [Slots -> 0 .. MaxVersion]
    BY <2>0, <2>3 DEF TypeOK, Slots
  <2>2. /\ pc' \in [Slots \union Callers -> AdminSteps \union SeedSteps \union CallerSteps]
        /\ \A b \in Admins : pc'[b] \in AdminSteps
        /\ \A d1 \in Seeds : pc'[d1] \in SeedSteps
        /\ \A c \in Callers : pc'[c] \in CallerSteps
    BY DEF TypeOK, AdminSteps, SeedSteps, CallerSteps, Slots
  <2> QED
    BY <2>1, <2>2 DEF TypeOK, secretVars
<1>2. TableInv'
  BY <1>0 DEF TableKept, TableInv, TypeOK, secretVars
<1>3. StatusInv'
  BY <1>0 DEF TableKept, StatusInv, TypeOK, Slots
<1>4. OneCurrentSecret'
  BY <1>0 DEF TableKept, OneCurrentSecret, TypeOK, secretVars
<1>5. RotationInv'
  BY <1>0 DEF TableKept, RotationInv, TypeOK, Past, Reading, Slots
<1>6. PrevInv'
  <2>1. \A a \in Admins : pc'[a] = pc[a] /\ next'[a] = next[a] /\ prev'[a] = prev[a]
    BY DEF TypeOK, Slots
  <2> QED
    BY <1>0, <2>1 DEF TableKept, PrevInv, RotationInv, Reading, Past, secretVars
<1>7. SeedInv'
  <2>2. \A d1 \in Seeds \ {d} : pc'[d1] = pc[d1] /\ next'[d1] = next[d1]
    BY DEF TypeOK, Slots
  <2>3. pc'[d] = "revoking" => Below(next'[d])
    <3> SUFFICES ASSUME pc'[d] = "revoking"
                 PROVE  Below(next'[d])
      OBVIOUS
    <3>1. PICK v \in Versions : v \in Stored /\ next' = [next EXCEPT ![d] = v + 1]
      BY DEF TypeOK, Newest, Slots
    <3>2. next'[d] = v + 1
      BY <3>1 DEF TypeOK, Slots
    <3> QED
      BY <3>1, <3>2 DEF TableInv, Stored, Below, Versions
  <2>4. pc'[d] \in {"bootstrap", "matched", "revoking"} /\ (pc'[d] = "bootstrap" => next'[d] = 0)
    BY DEF TypeOK, SeedInv, Slots
  <2> QED
    BY <1>0, <2>2, <2>3, <2>4 DEF TableKept, SeedInv, secretVars, Below
<1>8. OwedInv'
  BY <1>0 DEF TableKept, OwedInv, TypeOK, Slots, secretVars
<1>9. LockoutInv'
  BY <1>0 DEF TableKept, LockoutInv, TypeOK, Slots
<1> QED
  BY <1>1, <1>2, <1>3, <1>4, <1>5, <1>6, <1>7, <1>8, <1>9

LEMMA StartRevokingStep ==
  ASSUME Inv, NEW d \in Seeds, StartRevoking(d)
  PROVE  Inv'
<1> USE SecretAssumption, SlotAssumption, BoundAssumption
      DEF Inv, StartRevoking, Goto, slotVars, callerVars
<1>0. TableKept
  BY KeptEffect
<1>1. TypeOK'
  BY DEF TypeOK, AdminSteps, SeedSteps, CallerSteps, Slots, Stored, secretVars
<1>2. TableInv'
  BY <1>0 DEF TableKept, TableInv, TypeOK, secretVars
<1>3. StatusInv'
  BY <1>0 DEF TableKept, StatusInv, TypeOK, Slots
<1>4. OneCurrentSecret'
  BY <1>0 DEF TableKept, OneCurrentSecret, TypeOK, secretVars
<1>5. RotationInv'
  BY <1>0 DEF TableKept, RotationInv, TypeOK, Past, Reading, Slots
<1>6. PrevInv'
  BY <1>0 DEF TableKept, PrevInv, RotationInv, Reading, TypeOK, Past, Slots, secretVars
<1>7. SeedInv'
  BY <1>0 DEF TableKept, SeedInv, TypeOK, Slots, secretVars
<1>8. OwedInv'
  BY <1>0 DEF TableKept, OwedInv, TypeOK, Slots, secretVars
<1>9. LockoutInv'
  BY <1>0 DEF TableKept, LockoutInv, TypeOK, Slots
<1> QED
  BY <1>1, <1>2, <1>3, <1>4, <1>5, <1>6, <1>7, <1>8, <1>9

LEMMA CheckClientStep ==
  ASSUME Inv, NEW c \in Callers, NEW x \in Secrets, CheckClient(c, x)
  PROVE  Inv'
<1> USE SecretAssumption, SlotAssumption, BoundAssumption
      DEF Inv, CheckClient, Goto, Accepted, Lasting, slotVars, callerVars
<1>0. TableKept
  BY KeptEffect
<1>1. TypeOK'
  BY DEF TypeOK, AdminSteps, SeedSteps, CallerSteps, Slots, secretVars
<1>2. TableInv'
  BY <1>0 DEF TableKept, TableInv, TypeOK, secretVars
<1>3. StatusInv'
  BY <1>0 DEF TableKept, StatusInv, TypeOK, Slots
<1>4. OneCurrentSecret'
  BY <1>0 DEF TableKept, OneCurrentSecret, TypeOK, secretVars
<1>5. RotationInv'
  BY <1>0 DEF TableKept, RotationInv, TypeOK, Past, Reading, Slots
<1>6. PrevInv'
  BY <1>0 DEF TableKept, PrevInv, RotationInv, Reading, TypeOK, Past, Slots, secretVars
<1>7. SeedInv'
  BY <1>0 DEF TableKept, SeedInv, TypeOK, Slots, secretVars
<1>8. OwedInv'
  BY <1>0 DEF TableKept, OwedInv, TypeOK, Slots, secretVars
<1>9. LockoutInv'
  BY <1>0 DEF TableKept, LockoutInv, TypeOK, Slots
<1> QED
  BY <1>1, <1>2, <1>3, <1>4, <1>5, <1>6, <1>7, <1>8, <1>9

LEMMA AdmitCallerStep ==
  ASSUME Inv, NEW c \in Callers, AdmitCaller(c)
  PROVE  Inv'
<1> USE SecretAssumption, SlotAssumption, BoundAssumption
      DEF Inv, AdmitCaller, Goto, slotVars, callerVars
<1>0. TableKept
  BY KeptEffect
<1>1. TypeOK'
  BY DEF TypeOK, AdminSteps, SeedSteps, CallerSteps, Slots, secretVars
<1>2. TableInv'
  BY <1>0 DEF TableKept, TableInv, TypeOK, secretVars
<1>3. StatusInv'
  BY <1>0 DEF TableKept, StatusInv, TypeOK, Slots
<1>4. OneCurrentSecret'
  BY <1>0 DEF TableKept, OneCurrentSecret, TypeOK, secretVars
<1>5. RotationInv'
  BY <1>0 DEF TableKept, RotationInv, TypeOK, Past, Reading, Slots
<1>6. PrevInv'
  BY <1>0 DEF TableKept, PrevInv, RotationInv, Reading, TypeOK, Past, Slots, secretVars
<1>7. SeedInv'
  BY <1>0 DEF TableKept, SeedInv, TypeOK, Slots, secretVars
<1>8. OwedInv'
  BY <1>0 DEF TableKept, OwedInv, TypeOK, Slots, secretVars
<1>9. LockoutInv'
  BY <1>0 DEF TableKept, LockoutInv, TypeOK, Slots
<1> QED
  BY <1>1, <1>2, <1>3, <1>4, <1>5, <1>6, <1>7, <1>8, <1>9

LEMMA RefuseCallerStep ==
  ASSUME Inv, NEW c \in Callers, RefuseCaller(c)
  PROVE  Inv'
<1> USE SecretAssumption, SlotAssumption, BoundAssumption
      DEF Inv, RefuseCaller, Leave, Goto, slotVars, callerVars
<1>0. TableKept
  BY KeptEffect
<1>1. TypeOK'
  BY DEF TypeOK, AdminSteps, SeedSteps, CallerSteps, Slots, secretVars
<1>2. TableInv'
  BY <1>0 DEF TableKept, TableInv, TypeOK, secretVars
<1>3. StatusInv'
  BY <1>0 DEF TableKept, StatusInv, TypeOK, Slots
<1>4. OneCurrentSecret'
  BY <1>0 DEF TableKept, OneCurrentSecret, TypeOK, secretVars
<1>5. RotationInv'
  BY <1>0 DEF TableKept, RotationInv, TypeOK, Past, Reading, Slots
<1>6. PrevInv'
  BY <1>0 DEF TableKept, PrevInv, RotationInv, Reading, TypeOK, Past, Slots, secretVars
<1>7. SeedInv'
  BY <1>0 DEF TableKept, SeedInv, TypeOK, Slots, secretVars
<1>8. OwedInv'
  BY <1>0 DEF TableKept, OwedInv, TypeOK, Slots, secretVars
<1>9. LockoutInv'
  BY <1>0 DEF TableKept, LockoutInv, TypeOK, Slots
<1> QED
  BY <1>1, <1>2, <1>3, <1>4, <1>5, <1>6, <1>7, <1>8, <1>9

LEMMA AnswerCallerStep ==
  ASSUME Inv, NEW c \in Callers, AnswerCaller(c)
  PROVE  Inv'
<1> USE SecretAssumption, SlotAssumption, BoundAssumption
      DEF Inv, AnswerCaller, Leave, Goto, slotVars, callerVars
<1>0. TableKept
  BY KeptEffect
<1>1. TypeOK'
  BY DEF TypeOK, AdminSteps, SeedSteps, CallerSteps, Slots, secretVars
<1>2. TableInv'
  BY <1>0 DEF TableKept, TableInv, TypeOK, secretVars
<1>3. StatusInv'
  BY <1>0 DEF TableKept, StatusInv, TypeOK, Slots
<1>4. OneCurrentSecret'
  BY <1>0 DEF TableKept, OneCurrentSecret, TypeOK, secretVars
<1>5. RotationInv'
  BY <1>0 DEF TableKept, RotationInv, TypeOK, Past, Reading, Slots
<1>6. PrevInv'
  BY <1>0 DEF TableKept, PrevInv, RotationInv, Reading, TypeOK, Past, Slots, secretVars
<1>7. SeedInv'
  BY <1>0 DEF TableKept, SeedInv, TypeOK, Slots, secretVars
<1>8. OwedInv'
  BY <1>0 DEF TableKept, OwedInv, TypeOK, Slots, secretVars
<1>9. LockoutInv'
  BY <1>0 DEF TableKept, LockoutInv, TypeOK, Slots
<1> QED
  BY <1>1, <1>2, <1>3, <1>4, <1>5, <1>6, <1>7, <1>8, <1>9

-----------------------------------------------------------------------------
(* The actions that change the table.                                      *)

LEMMA AbortStep ==
  ASSUME Inv, NEW s \in Slots, Abort(s)
  PROVE  Inv'
<1>1. pc[s] = "first" /\ Stored = {} => cut'
  BY DEF Abort, LockedOut, Lasting, Unrevoked, Stored
<1> QED
  BY <1>1, EndKept DEF Inv, TypeOK, Abort

LEMMA SkipExistingStep ==
  ASSUME Inv, NEW d \in Seeds, SkipExisting(d)
  PROVE  Inv'
BY EndKept DEF Inv, TypeOK, SkipExisting, Slots

LEMMA CreateClientStep ==
  ASSUME Inv, NEW x \in Secrets, NEW st \in Statuses, CreateClient(x, st)
  PROVE  Inv'
<1> USE BoundAssumption, SlotAssumption DEF Inv, CreateClient, slotVars, callerVars
<1>1. /\ \A v \in Versions : ~Exists(v)
      /\ \A a \in Admins : pc[a] = "idle"
      /\ \A d \in Seeds : pc[d] \in {"idle", "creating"}
  BY DEF StatusInv
<1>2. 1 \in Versions /\ Below(1) /\ \A v \in Versions : ~primary[v]
  BY <1>1 DEF Below, Versions, TableInv
<1>3. /\ secret' \in [Versions -> Secrets \union {NoSecret}]
      /\ primary' \in [Versions -> BOOLEAN]
      /\ TableInv' /\ OneCurrentSecret' /\ TableGrown(1)
  BY <1>1, <1>2, InsertEffect
<1>4. TypeOK'
  BY <1>3 DEF TypeOK, Insert
<1>5. RotationInv' /\ PrevInv'
  BY <1>1 DEF RotationInv, PrevInv, Past, Reading
<1>6. SeedInv'
  <2>1. Stored \subseteq Stored'
    BY <1>1, <1>2, <1>3, GrownEffect
  <2> QED
    BY <1>1, <2>1 DEF SeedInv
<1>7. StatusInv' /\ OwedInv' /\ LockoutInv'
  BY <1>1, <1>2, <1>3, GrownRest DEF Statuses
<1> QED
  BY <1>3, <1>4, <1>5, <1>6, <1>7

\* Storing the first free version while no rotation holds it.
LEMMA NobodyPast ==
  ASSUME Inv, NEW m \in Versions, Below(m), ~Exists(m), ~Held(m)
  PROVE  \A a \in Admins : ~Past(a)
BY OneFree DEF Inv, RotationInv, Past, Reading, Held

LEMMA SeedFirstStep ==
  ASSUME Inv, NEW d \in Seeds, SeedFirst(d)
  PROVE  Inv'
<1> USE BoundAssumption, SlotAssumption DEF Inv
<1>1. 1 \in Versions /\ Below(1) /\ d \in Slots
  BY DEF Below, Versions, Slots
<1>2. CASE Exists(1)
  <2>1. Stored # {} /\ pc[d] # "replacing"
    BY <1>1, <1>2 DEF Stored, SeedFirst
  <2>2. End(d) /\ UNCHANGED << status, secretVars, callerVars, cut >>
    BY <1>2 DEF SeedFirst
  <2> QED
    BY <1>1, <2>1, <2>2, EndKept DEF TypeOK
<1>3. CASE ~Exists(1)
  <2>1. \A v \in Versions : ~Exists(v)
    BY <1>1, <1>3 DEF TableInv, Below, Versions
  <2>2. \A v \in Versions : ~primary[v]
    BY <2>1 DEF TableInv
  <2>3. Insert(1, mine[d]) /\ mine[d] \in Secrets /\ status # "NONE"
    BY <1>3 DEF SeedFirst, SeedInv, StatusInv
  <2>4. /\ secret' \in [Versions -> Secrets \union {NoSecret}]
        /\ primary' \in [Versions -> BOOLEAN]
        /\ TableInv' /\ OneCurrentSecret' /\ TableGrown(1)
    BY <1>1, <1>3, <2>2, <2>3, InsertEffect
  <2>5. OnlyMoves(d) /\ TypeOK'
    <3>1. CASE End(d)
      BY <1>1, <1>3, <2>3, <2>4, <3>1, EndMoves, EndEffect DEF SeedFirst, TypeOK, Insert, callerVars
    <3>2. CASE pc[d] = "bootstrap" /\ Goto(d, "revoking") /\ UNCHANGED slotVars
      <4>1. OnlyMoves(d)
        BY <1>1, <2>3, <3>2 DEF OnlyMoves, Goto, slotVars, TypeOK, SeedInv, Slots
      <4>2. pc' \in [Slots \union Callers -> AdminSteps \union SeedSteps \union CallerSteps]
        BY <1>1, <3>2 DEF Goto, TypeOK, SeedSteps
      <4>3. /\ \A a \in Admins : pc'[a] \in AdminSteps
            /\ \A e \in Seeds : pc'[e] \in SeedSteps
            /\ \A c \in Callers : pc'[c] \in CallerSteps
        BY <1>1, <3>2 DEF Goto, TypeOK, SeedSteps, Slots
      <4> QED
        BY <1>1, <1>3, <2>3, <2>4, <3>2, <4>1, <4>2, <4>3 DEF SeedFirst, TypeOK, Insert, callerVars, slotVars
    <3> QED
      BY <1>3, <3>1, <3>2 DEF SeedFirst
  <2>6. RotationInv' /\ PrevInv' /\ SeedInv'
    BY <1>1, <1>3, <2>4, <2>5, NobodyPast, GrownCalls DEF SeedFirst
  <2>7. StatusInv' /\ OwedInv' /\ LockoutInv'
    BY <1>1, <1>3, <2>3, <2>4, <2>5, GrownRest DEF SeedFirst, OnlyMoves
  <2> QED
    BY <2>4, <2>5, <2>6, <2>7
<1> QED
  BY <1>2, <1>3

LEMMA ReplaceSecretStep ==
  ASSUME Inv, NEW d \in Seeds, ReplaceSecret(d)
  PROVE  Inv'
<1> USE SlotAssumption DEF Inv
<1>0. d \in Slots /\ End(d) /\ pc[d] = "replacing" /\ UNCHANGED << status, callerVars >>
  BY DEF ReplaceSecret, Slots
<1>1. CASE next[d] \notin Versions \ Stored
  <2>1. UNCHANGED secretVars /\ cut' = (cut \/ LockedOut)
    BY <1>1 DEF ReplaceSecret
  <2> QED
    BY <1>0, <2>1, EndKept DEF TypeOK
<1>2. CASE next[d] \in Versions \ Stored
  <2>0. PICK m \in Versions : m = next[d]
    BY <1>2
  <2>1. /\ m \in Versions /\ Below(m) /\ ~Exists(m)
        /\ \A v \in Versions : ~primary[v]
        /\ mine[d] \in Secrets
    BY <1>0, <1>2, <2>0 DEF SeedInv, Stored
  <2>2. Insert(m, mine[d]) /\ ~Held(m) /\ cut' = FALSE
    BY <1>2, <2>0 DEF ReplaceSecret
  <2>3. status # "NONE"
    BY <1>0 DEF StatusInv
  <2>4. /\ secret' \in [Versions -> Secrets \union {NoSecret}]
        /\ primary' \in [Versions -> BOOLEAN]
        /\ TableInv' /\ OneCurrentSecret' /\ TableGrown(m)
    BY <2>1, <2>2, InsertEffect
  <2>5. OnlyMoves(d)
    BY <1>0, EndMoves
  <2>6. TypeOK'
    BY <1>0, <2>2, <2>4, EndEffect DEF TypeOK, Insert, callerVars
  <2>7. RotationInv' /\ PrevInv' /\ SeedInv'
    BY <1>0, <2>1, <2>2, <2>4, <2>5, NobodyPast, GrownCalls
  <2>8. StatusInv' /\ OwedInv' /\ LockoutInv'
    BY <1>0, <2>1, <2>3, <2>4, <2>5, GrownRest DEF OnlyMoves
  <2> QED
    BY <2>4, <2>6, <2>7, <2>8
<1> QED
  BY <1>1, <1>2

LEMMA CommitRotationStep ==
  ASSUME Inv, NEW a \in Admins, CommitRotation(a)
  PROVE  Inv'
<1> USE SlotAssumption DEF Inv
<1>0. a \in Slots /\ End(a) /\ Past(a) /\ status # "NONE" /\ UNCHANGED << status, callerVars >>
  BY DEF CommitRotation, Slots, Past, StatusInv
<1>new. PICK m \in Versions : m = next[a]
  BY <1>0 DEF RotationInv, Past, Reading
<1>old. PICK o \in 0 .. MaxVersion : o = prev[a]
  BY DEF TypeOK
<1>1. Below(m) /\ ~Exists(m) /\ mine[a] \in Secrets
  BY <1>0, <1>new DEF RotationInv, Past, Reading
<1>2. /\ \A v \in Versions : primary[v] => v = o
      /\ o \in Versions => primary[o] \/ revoked[o]
  BY <1>0, <1>1, <1>new, <1>old DEF PrevInv
<1>3. /\ secret' = [secret EXCEPT ![m] = mine[a]]
      /\ primary' = [v \in Versions |-> v = m \/ (primary[v] /\ v # o)]
      /\ until' = [v \in Versions |-> IF v = o THEN "later" ELSE until[v]]
      /\ revoked' = revoked
      /\ cut' = FALSE
  BY <1>new, <1>old DEF CommitRotation
<1>4. o # m
  BY <1>1, <1>2 DEF TableInv
<1>5. /\ secret' \in [Versions -> Secrets \union {NoSecret}]
      /\ primary' \in [Versions -> BOOLEAN]
      /\ until' \in [Versions -> Ends]
  <2>1. secret' \in [Versions -> Secrets \union {NoSecret}]
    BY <1>1, <1>3 DEF TypeOK
  <2>2. primary' \in [Versions -> BOOLEAN]
    BY <1>3
  <2>3. until' \in [Versions -> Ends]
    BY <1>3 DEF TypeOK, Ends
  <2> QED
    BY <2>1, <2>2, <2>3
<1>6. \A v \in Versions : primary'[v] <=> v = m
  BY <1>2, <1>3
<1>7. TableGrown(m)
  <2>1. \A v \in Versions : Exists(v)' <=> Exists(v) \/ v = m
    BY <1>1, <1>3, SecretAssumption DEF TypeOK, Exists
  <2>2. \A v \in Versions : Accepted(v) => Accepted(v)' /\ secret'[v] = secret[v]
    BY <1>1, <1>3, <2>1 DEF TypeOK, Exists, Accepted, Unrevoked
  <2>3. Lasting(m)'
    <3>1. Exists(m)' /\ ~revoked'[m] /\ until'[m] = "never"
      BY <1>1, <1>3, <1>4, <2>1 DEF TypeOK, TableInv
    <3> QED
      BY <3>1 DEF Lasting, Unrevoked
  <2> QED
    BY <2>1, <2>2, <2>3 DEF TableGrown
<1>8. TableInv'
  <2> SUFFICES ASSUME NEW v \in Versions
               PROVE  /\ ~Exists(v)' => ~primary'[v] /\ until'[v] = "never" /\ ~revoked'[v]
                      /\ primary'[v] => Lasting(v)'
                      /\ Exists(v)' => Below(v)'
    BY DEF TableInv
  <2>1. ~Exists(v)' => ~primary'[v] /\ until'[v] = "never" /\ ~revoked'[v]
    BY <1>2, <1>3, <1>6, <1>7 DEF TableGrown, TableInv
  <2>2. primary'[v] => Lasting(v)'
    BY <1>6, <1>7 DEF TableGrown
  <2>3. Exists(v)' => Below(v)'
    BY <1>1, <1>7, GrownEffect DEF TableGrown, TableInv
  <2> QED
    BY <2>1, <2>2, <2>3
<1>9. OneCurrentSecret'
  <2>1. \A v \in Versions : v # m /\ Lasting(v)' => v # o /\ Lasting(v)
    BY <1>3 DEF TypeOK, Lasting, Unrevoked, Exists
  <2>2. \A v \in Versions : v # o => ~primary[v]
    BY <1>2
  <2>3. \A v \in Versions : Lasting(v)' => v = m
    BY <2>1, <2>2 DEF OneCurrentSecret
  <2> QED
    BY <1>6, <2>3 DEF OneCurrentSecret
<1>10. OnlyMoves(a)
  BY <1>0, EndMoves
<1>11. TypeOK'
  BY <1>0, <1>3, <1>5, EndEffect DEF TypeOK, callerVars
<1>12. RotationInv' /\ PrevInv' /\ SeedInv'
  <2>1. \A b \in Admins \ {a} : ~Past(b)
    BY <1>0 DEF RotationInv
  <2> QED
    BY <1>0, <1>1, <1>7, <1>10, <2>1, GrownCalls
<1>13. StatusInv' /\ OwedInv' /\ LockoutInv'
  BY <1>0, <1>1, <1>7, <1>10, GrownRest DEF OnlyMoves
<1> QED
  BY <1>8, <1>9, <1>11, <1>12, <1>13

LEMMA RevokeSecretsStep ==
  ASSUME Inv, NEW d \in Seeds, RevokeSecrets(d)
  PROVE  Inv'
<1> USE SlotAssumption DEF Inv
<1>0. /\ pc' = [pc EXCEPT ![d] = "replacing"] /\ pc[d] = "waiting"
      /\ UNCHANGED << status, secret, mine, next, prev, targets, shown, cut >>
      /\ owed' = {}
  BY DEF RevokeSecrets, Goto, slotVars
<1>1. /\ primary' = [v \in Versions |-> primary[v] /\ v \notin targets[d]]
      /\ until' = [v \in Versions |-> IF v \in targets[d] THEN "over" ELSE until[v]]
      /\ revoked' = [v \in Versions |-> revoked[v] \/ v \in targets[d]]
  BY DEF RevokeSecrets
<1>2. targets[d] \subseteq Stored
  BY DEF SeedInv
<1>3. /\ \A v \in Versions : (Exists(v)' <=> Exists(v)) /\ (Below(v)' <=> Below(v))
      /\ Stored' = Stored
  BY <1>0 DEF Exists, Below, Stored
<1>4. TypeOK'
  <2>1. until' \in [Versions -> Ends]
    BY <1>1 DEF TypeOK, Ends
  <2>2. primary' \in [Versions -> BOOLEAN] /\ revoked' \in [Versions -> BOOLEAN]
    BY <1>1
  <2>3. pc' \in [Slots \union Callers -> AdminSteps \union SeedSteps \union CallerSteps]
    BY <1>0 DEF TypeOK, SeedSteps
  <2>4. /\ \A a \in Admins : pc'[a] \in AdminSteps
        /\ \A e \in Seeds : pc'[e] \in SeedSteps
        /\ \A c \in Callers : pc'[c] \in CallerSteps
    BY <1>0 DEF TypeOK, SeedSteps, Slots
  <2> QED
    BY <1>0, <2>1, <2>2, <2>3, <2>4 DEF TypeOK
<1>5. \A v \in Versions : Lasting(v)' <=> Lasting(v) /\ v \notin targets[d]
  BY <1>0, <1>1 DEF TypeOK, Lasting, Unrevoked, Exists
<1>6. TableInv'
  <2> SUFFICES ASSUME NEW v \in Versions
               PROVE  /\ ~Exists(v)' => ~primary'[v] /\ until'[v] = "never" /\ ~revoked'[v]
                      /\ primary'[v] => Lasting(v)'
                      /\ Exists(v)' => Below(v)'
    BY DEF TableInv
  <2>1. ~Exists(v) => v \notin targets[d]
    BY <1>2 DEF Stored
  <2>2. ~Exists(v)' => ~primary'[v] /\ until'[v] = "never" /\ ~revoked'[v]
    BY <1>1, <1>3, <2>1 DEF TableInv
  <2>3. primary'[v] => Lasting(v)'
    BY <1>1, <1>5 DEF TableInv
  <2> QED
    BY <1>3, <2>2, <2>3 DEF TableInv
<1>7. OneCurrentSecret'
  BY <1>1, <1>5 DEF OneCurrentSecret
<1>8. StatusInv'
  BY <1>0 DEF StatusInv
<1>9. RotationInv'
  BY <1>0, <1>3 DEF RotationInv, TypeOK, Past, Reading, Slots
<1>10. PrevInv'
  <2> SUFFICES ASSUME NEW a \in Admins, (pc[a] = "inserting" \/ Past(a))', ~Exists(next[a])'
               PROVE  /\ \A v \in Versions : primary'[v] => v = prev'[a]
                      /\ prev'[a] \in Versions => primary'[prev'[a]] \/ revoked'[prev'[a]]
    BY DEF PrevInv
  <2>1. pc[a] = "inserting" \/ Past(a)
    BY <1>0 DEF TypeOK, Past, Slots
  <2>2. next[a] \in Versions /\ ~Exists(next[a])
    BY <1>0, <1>3, <2>1 DEF RotationInv, Past, Reading
  <2>3. /\ \A v \in Versions : primary[v] => v = prev[a]
        /\ prev[a] \in Versions => primary[prev[a]] \/ revoked[prev[a]]
    BY <2>1, <2>2 DEF PrevInv
  <2> QED
    BY <1>0, <1>1, <2>3
<1>11. SeedInv'
  <2> SUFFICES ASSUME NEW e \in Seeds
               PROVE  /\ pc'[e] # "idle" => mine'[e] \in Secrets
                      /\ targets'[e] \subseteq Stored'
                      /\ pc'[e] \in {"idle", "listing", "bootstrap"} => next'[e] = 0
                      /\ pc'[e] \in {"revoking", "waiting", "replacing"} /\ next'[e] \in Versions =>
                           /\ Below(next[e])'
                           /\ pc'[e] = "waiting" /\ ~Exists(next[e])' => Stored' \subseteq targets'[e]
                           /\ pc'[e] = "replacing" /\ ~Exists(next[e])' =>
                                \A v \in Versions : ~primary'[v]
    BY DEF SeedInv
  <2>1. \A v \in Versions : primary[v] => v \in Stored
    BY DEF TableInv, Stored
  <2>2. CASE e = d
    <3>1. /\ pc'[e] = "replacing"
          /\ next'[e] \in Versions => Below(next[e])
          /\ next'[e] \in Versions /\ ~Exists(next[e]) => Stored \subseteq targets[d]
      BY <1>0, <2>2 DEF SeedInv, TypeOK, Slots
    <3> QED
      BY <1>0, <1>1, <1>3, <2>1, <2>2, <3>1 DEF SeedInv
  <2>3. CASE e # d
    <3>1. pc'[e] = pc[e]
      BY <1>0, <2>3 DEF TypeOK, Slots
    <3> QED
      BY <1>0, <1>1, <1>3, <3>1 DEF SeedInv
  <2> QED
    BY <2>2, <2>3
<1>12. OwedInv'
  BY <1>0 DEF OwedInv
<1>13. LockoutInv'
  BY <1>0 DEF LockoutInv, TypeOK, Slots
<1> QED
  BY <1>4, <1>6, <1>7, <1>8, <1>9, <1>10, <1>11, <1>12, <1>13

LEMMA LapseStep ==
  ASSUME Inv, NEW v \in Versions, Lapse(v)
  PROVE  Inv'
<1> USE DEF Inv, Lapse, slotVars
<1>1. /\ \A w \in Versions : (Exists(w)' <=> Exists(w)) /\ (Below(w)' <=> Below(w))
                             /\ (Lasting(w)' <=> Lasting(w)) /\ (w # v => (Accepted(w)' <=> Accepted(w)))
      /\ Stored' = Stored
      /\ LockedOut' <=> LockedOut
  <2>1. \A w \in Versions : (Exists(w)' <=> Exists(w)) /\ (Below(w)' <=> Below(w))
    BY DEF Exists, Below
  <2>2. \A w \in Versions : Lasting(w)' <=> Lasting(w)
    BY <2>1 DEF Lasting, Unrevoked, TypeOK
  <2>3. \A w \in Versions : w # v => (Accepted(w)' <=> Accepted(w))
    BY <2>1 DEF Accepted, Unrevoked, TypeOK
  <2> QED
    BY <2>1, <2>2, <2>3 DEF Stored, LockedOut
<1>2. TypeOK'
  BY DEF TypeOK, Ends
<1>3. TableInv' /\ OneCurrentSecret'
  <2>1. Exists(v)
    BY DEF TableInv
  <2>2. \A w \in Versions \ {v} : until'[w] = until[w]
    BY DEF TypeOK
  <2> QED
    BY <1>1, <2>1, <2>2 DEF TableInv, OneCurrentSecret
<1>4. StatusInv' /\ RotationInv'
  BY <1>1 DEF StatusInv, RotationInv, Past, Reading
<1>5. PrevInv'
  BY <1>1 DEF PrevInv, RotationInv, Past, Reading
<1>6. SeedInv'
  BY <1>1 DEF SeedInv
<1>7. OwedInv'
  BY <1>1 DEF OwedInv
<1>8. LockoutInv'
  BY <1>1 DEF LockoutInv
<1> QED
  BY <1>2, <1>3, <1>4, <1>5, <1>6, <1>7, <1>8

-----------------------------------------------------------------------------
(* The theorems.                                                           *)

LEMMA InitInv == Init => Inv
<1> SUFFICES ASSUME Init
             PROVE  Inv
  OBVIOUS
<1> USE SecretAssumption, SlotAssumption, BoundAssumption DEF Init
<1>1. TypeOK
  <2>1. /\ secret \in [Versions -> Secrets \union {NoSecret}]
        /\ primary \in [Versions -> BOOLEAN]
        /\ until \in [Versions -> Ends]
        /\ revoked \in [Versions -> BOOLEAN]
    BY DEF Ends
  <2>2. /\ pc \in [Slots \union Callers -> AdminSteps \union SeedSteps \union CallerSteps]
        /\ \A a \in Admins : pc[a] \in AdminSteps
        /\ \A d \in Seeds : pc[d] \in SeedSteps
        /\ \A c \in Callers : pc[c] \in CallerSteps
    BY DEF AdminSteps, SeedSteps, CallerSteps, Slots
  <2>3. /\ mine \in [Slots -> Secrets \union {NoSecret}]
        /\ next \in [Slots -> 0 .. MaxVersion]
        /\ prev \in [Admins -> 0 .. MaxVersion]
        /\ targets \in [Seeds -> SUBSET Versions]
    OBVIOUS
  <2> QED
    BY <2>1, <2>2, <2>3 DEF TypeOK
<1>2. TableInv /\ OneCurrentSecret
  BY DEF TableInv, OneCurrentSecret, Exists, Lasting, Unrevoked
<1>3. StatusInv /\ RotationInv /\ PrevInv
  BY DEF StatusInv, RotationInv, PrevInv, Past, Reading, Exists, Slots
<1>4. SeedInv /\ OwedInv /\ LockoutInv
  BY DEF SeedInv, OwedInv, LockoutInv, Slots
<1> QED
  BY <1>1, <1>2, <1>3, <1>4 DEF Inv

LEMMA NextInv == Inv /\ [Next]_vars => Inv'
<1> SUFFICES ASSUME Inv, [Next]_vars
             PROVE  Inv'
  OBVIOUS
<1>1. CASE \E x \in Secrets, st \in Statuses : CreateClient(x, st)
  BY <1>1, CreateClientStep
<1>2. CASE \E st \in Statuses : UpdateClient(st)
  BY <1>2, UpdateClientStep
<1>3. ASSUME NEW a \in Admins, RotationStep(a)
      PROVE  Inv'
  BY <1>3, StartRotationStep, ReadLatestStep, ReadPrimaryStep, InsertSecretStep,
     DemoteStep, CommitRotationStep DEF RotationStep
<1>4. ASSUME NEW d \in Seeds, SeedStep(d)
      PROVE  Inv'
  BY <1>4, StartSeedStep, SeedClientStep, ListSecretsStep, SkipExistingStep,
     SeedFirstStep, StartRevokingStep, RevokeSecretsStep, ReplaceSecretStep DEF SeedStep
<1>5. ASSUME NEW c \in Callers, CallerStep(c)
      PROVE  Inv'
  BY <1>5, CheckClientStep, AdmitCallerStep, RefuseCallerStep, AnswerCallerStep
     DEF CallerStep
<1>6. CASE \E v \in Versions : Lapse(v)
  BY <1>6, LapseStep
<1>7. CASE \E s \in Slots : Abort(s)
  BY <1>7, AbortStep
<1>8. CASE UNCHANGED vars
  <2>1. TableKept
    BY <1>8, KeptEffect DEF vars, secretVars
  <2> USE <1>8, <2>1 DEF Inv, vars, secretVars, slotVars, callerVars, TableKept
  <2>2. TypeOK' /\ TableInv' /\ StatusInv' /\ OneCurrentSecret'
    BY DEF TypeOK, TableInv, StatusInv, OneCurrentSecret
  <2>3. RotationInv' /\ PrevInv'
    BY DEF RotationInv, PrevInv, Past, Reading
  <2>4. SeedInv' /\ OwedInv' /\ LockoutInv'
    BY DEF SeedInv, OwedInv, LockoutInv
  <2> QED
    BY <2>2, <2>3, <2>4
<1> QED
  BY <1>1, <1>2, <1>3, <1>4, <1>5, <1>6, <1>7, <1>8 DEF Next

\* The invariant holds in every reachable state.
THEOREM Invariance == Spec => []Inv
BY InitInv, NextInv, PTL DEF Spec

\* Every variable keeps its type, whatever the calls do.
THEOREM TypeCorrect == Spec => []TypeOK
<1>1. Inv => TypeOK
  BY DEF Inv
<1> QED
  BY <1>1, Invariance, PTL

\* At most one secret of a client is current, however the statements of rotations
\* and seeds interleave.
THEOREM OneCurrent == Spec => []OneCurrentSecret
<1>1. Inv => OneCurrentSecret
  BY DEF Inv
<1> QED
  BY <1>1, Invariance, PTL

\* Whatever rotations and seeds race for the next version or stop before they
\* stored it, the stored versions are 1, 2, 3 and so on without a gap: the version
\* after the latest, which a rotation reads and stores later, is the first free
\* one (ServiceClientsRepository.rotateSecret, seedServiceClients).
THEOREM NoGaps == Spec => [](\A v \in Versions : Exists(v) => Below(v))
<1>1. Inv => \A v \in Versions : Exists(v) => Below(v)
  BY DEF Inv, TableInv
<1> QED
  BY <1>1, Invariance, PTL

\* The only ways to be without a lasting secret are a seed between its statements
\* and one that stopped there.
THEOREM LockoutExplained == Spec => []NoLockout
<1>1. Inv => NoLockout
  BY DEF Inv, LockoutInv, NoLockout
<1> QED
  BY <1>1, Invariance, PTL

\* An insert writes a free version and leaves the others as they are.
LEMMA InsertRevivesNothing ==
  ASSUME TypeOK, NEW m \in Versions, NEW x, Insert(m, x), ~Exists(m),
         NEW v \in Versions, Exists(v), ~Accepted(v)
  PROVE  ~Accepted(v)'
BY DEF TypeOK, Insert, Exists, Accepted, Unrevoked

LEMMA DeadStep ==
  ASSUME Inv, [Next]_vars, NEW v \in Versions, Exists(v), ~Accepted(v)
  PROVE  ~Accepted(v)'
<1>0. ASSUME UNCHANGED secretVars
      PROVE  ~Accepted(v)'
  BY <1>0, KeptEffect DEF TableKept
<1>1. ASSUME NEW x \in Secrets, NEW st \in Statuses, CreateClient(x, st)
      PROVE  ~Accepted(v)'
  BY <1>1 DEF CreateClient, Inv, StatusInv
<1>2. ASSUME NEW st \in Statuses, UpdateClient(st)
      PROVE  ~Accepted(v)'
  BY <1>0, <1>2 DEF UpdateClient
<1>3. ASSUME NEW a \in Admins, CommitRotation(a)
      PROVE  ~Accepted(v)'
  <2>1. next[a] \in Versions /\ ~Exists(next[a])
    BY <1>3 DEF CommitRotation, Inv, RotationInv, Past, Reading
  <2>2. prev[a] = v => primary[v] \/ revoked[v]
    BY <1>3, <2>1 DEF CommitRotation, Inv, PrevInv, Past
  <2>3. v # next[a]
    BY <2>1
  <2>4. prev[a] = v => revoked[v]
    BY <2>2 DEF Inv, TableInv, Lasting, Accepted
  <2>5. /\ secret'[v] = secret[v] /\ revoked'[v] = revoked[v]
        /\ prev[a] # v => until'[v] = until[v]
    BY <1>3, <2>3 DEF CommitRotation, Inv, TypeOK
  <2> QED
    BY <2>4, <2>5 DEF Accepted, Unrevoked, Exists
<1>4. ASSUME NEW a \in Admins, RotationStep(a)
      PROVE  ~Accepted(v)'
  <2>1. CASE CommitRotation(a)
    BY <1>3, <2>1
  <2>2. CASE ~CommitRotation(a)
    BY <1>0, <1>4, <2>2
       DEF RotationStep, StartRotation, ReadLatest, ReadPrimary, InsertSecret, Demote
  <2> QED
    BY <2>1, <2>2
<1>5. ASSUME NEW d \in Seeds, SeedFirst(d)
      PROVE  ~Accepted(v)'
  <2>1. CASE Exists(1)
    BY <1>0, <1>5, <2>1 DEF SeedFirst
  <2>2. CASE ~Exists(1)
    BY <1>5, <2>2, InsertRevivesNothing, BoundAssumption DEF SeedFirst, Inv, Versions
  <2> QED
    BY <2>1, <2>2
<1>6. ASSUME NEW d \in Seeds, RevokeSecrets(d)
      PROVE  ~Accepted(v)'
  BY <1>6 DEF RevokeSecrets, Inv, TypeOK, Accepted, Unrevoked, Exists
<1>7. ASSUME NEW d \in Seeds, ReplaceSecret(d)
      PROVE  ~Accepted(v)'
  <2>1. CASE next[d] \in Versions \ Stored
    <3>1. PICK m \in Versions : m = next[d] /\ ~Exists(m)
      BY <2>1 DEF Stored
    <3> QED
      BY <1>7, <2>1, <3>1, InsertRevivesNothing DEF ReplaceSecret, Inv
  <2>2. CASE next[d] \notin Versions \ Stored
    BY <1>0, <1>7, <2>2 DEF ReplaceSecret
  <2> QED
    BY <2>1, <2>2
<1>8. ASSUME NEW d \in Seeds, SeedStep(d)
      PROVE  ~Accepted(v)'
  <2>1. CASE SeedFirst(d) \/ RevokeSecrets(d) \/ ReplaceSecret(d)
    BY <1>5, <1>6, <1>7, <2>1
  <2>2. CASE ~(SeedFirst(d) \/ RevokeSecrets(d) \/ ReplaceSecret(d))
    BY <1>0, <1>8, <2>2
       DEF SeedStep, StartSeed, SeedClient, ListSecrets, SkipExisting, StartRevoking
  <2> QED
    BY <2>1, <2>2
<1>9. ASSUME NEW c \in Callers, CallerStep(c)
      PROVE  ~Accepted(v)'
  BY <1>0, <1>9 DEF CallerStep, CheckClient, AdmitCaller, RefuseCaller, AnswerCaller
<1>10. ASSUME NEW w \in Versions, Lapse(w)
       PROVE  ~Accepted(v)'
  BY <1>10 DEF Lapse, Inv, TypeOK, Accepted, Unrevoked, Exists
<1>11. ASSUME NEW s \in Slots, Abort(s)
       PROVE  ~Accepted(v)'
  BY <1>0, <1>11 DEF Abort
<1>12. CASE UNCHANGED vars
  BY <1>0, <1>12 DEF vars
<1> QED
  BY <1>1, <1>2, <1>4, <1>8, <1>9, <1>10, <1>11, <1>12 DEF Next

\* No rotation, seed or update makes a refused secret acceptable again.
THEOREM DeadStaysDead == Spec => DeadSecretStaysDead
<1>1. Inv /\ [Next]_vars =>
        [\A v \in Versions : Exists(v) /\ ~Accepted(v) => ~Accepted(v)']_vars
  BY DeadStep
<1> QED
  BY <1>1, Invariance, PTL DEF Spec, DeadSecretStaysDead

\* Only the guard's comparison ends an active request.
LEMMA RefusalStep ==
  ASSUME Inv, [Next]_vars, NEW c \in Callers, pc[c] = "active", pc'[c] = "idle"
  PROVE  RefuseCaller(c)
<1> USE SlotAssumption DEF Inv
<1>0. ASSUME NEW s \in Slots, NEW step, Goto(s, step)
      PROVE  FALSE
  BY <1>0 DEF Goto, TypeOK, Slots
<1>1. ASSUME UNCHANGED pc
      PROVE  FALSE
  BY <1>1
<1>2. ASSUME NEW a \in Admins, RotationStep(a)
      PROVE  FALSE
  BY <1>0, <1>2 DEF RotationStep, StartRotation, ReadLatest, ReadPrimary, InsertSecret,
     Demote, CommitRotation, End, Slots
<1>3. ASSUME NEW d \in Seeds, SeedStep(d)
      PROVE  FALSE
  BY <1>0, <1>3 DEF SeedStep, StartSeed, SeedClient, ListSecrets, SkipExisting,
     SeedFirst, StartRevoking, RevokeSecrets, ReplaceSecret, End, Slots
<1>4. ASSUME NEW b \in Callers, CallerStep(b)
      PROVE  RefuseCaller(c)
  <2>1. b = c
    BY <1>4 DEF CallerStep, CheckClient, AdmitCaller, RefuseCaller, AnswerCaller, Leave,
       Goto, TypeOK
  <2> QED
    BY <1>4, <2>1 DEF CallerStep, CheckClient, AdmitCaller, AnswerCaller, Goto, TypeOK
<1>5. ASSUME NEW s \in Slots, Abort(s)
      PROVE  FALSE
  BY <1>0, <1>5 DEF Abort, End
<1> QED
  BY <1>1, <1>2, <1>3, <1>4, <1>5 DEF Next, vars, CreateClient, UpdateClient, Lapse

\* A request with the current secret is never refused because of a rotation.
THEOREM RotationIsSafe == Spec => RotationRefusesNobody
<1>1. ASSUME Inv, [Next]_vars, NEW c \in Callers, pc[c] = "active", pc'[c] = "idle"
      PROVE  c \notin owed
  BY <1>1, RefusalStep DEF RefuseCaller, Inv, OwedInv
<1>2. Inv /\ [Next]_vars =>
        [\A c \in Callers : pc[c] = "active" /\ pc'[c] = "idle" => c \notin owed]_vars
  BY <1>1
<1> QED
  BY <1>2, Invariance, PTL DEF Spec, RotationRefusesNobody

=============================================================================
