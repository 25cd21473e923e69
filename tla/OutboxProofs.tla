---------------------------- MODULE OutboxProofs ----------------------------
(***************************************************************************)
(* Theorems of Outbox for every set of events, processes and runs and      *)
(* every batch size, attempt limit and number of faults.                   *)
(***************************************************************************)
EXTENDS Outbox, TLAPS

(***************************************************************************)
(* The inductive invariant.  A claim is identified by the event and the    *)
(* attempts value its run read: the locks make the value unique while the  *)
(* claim is open, the increment makes it unique afterwards.                *)
(***************************************************************************)

\* a run that is past the publish call for the event it is at
PastPublish(r, e) == pc[r] \in {"draining", "hung", "marking", "failing"} /\ IsNext(r, e)

\* A locked row belongs to the open claim that read its current attempts.
LockInv ==
  \A e \in Events : \A r \in Runs : lock[e] = r =>
    /\ pc[r] = "claiming"
    /\ Holds(r, e)
    /\ status[e] \in {"PENDING", "FAILED"}

\* An open claim locks all of its rows, a committed one is behind the counter.
ClaimInv ==
  \A r \in Runs : \A e \in Events : Holds(r, e) =>
    /\ pc[r] \notin {"idle", "selecting"}
    /\ pc[r] = "claiming" =>
         lock[e] = r /\ copy[r][e] = attempts[e] /\ attempts[e] < MaxAttempts
    /\ pc[r] # "claiming" => copy[r][e] < attempts[e]

\* A copy not yet handed out by its holder was handed out by nobody.
SentInv ==
  \A r \in Runs : \A e \in Events :
    Holds(r, e) /\ ~PastPublish(r, e) => sent[e][copy[r][e]] = 0

\* A run about to mark an event published it.
MarkInv ==
  \A r \in Runs : \A e \in Events :
    pc[r] \in {"draining", "hung", "marking"} /\ IsNext(r, e) => sent[e][copy[r][e]] = 1

\* Unless recovered, a claimed event stays PROCESSING for its only holder, which
\* may find its own update of it to have succeeded when it believes it failed.
ExclusiveInv ==
  \A e \in Events \ recovered : \A r \in Runs :
    Holds(r, e) /\ pc[r] # "claiming" =>
      \/ status[e] = "PROCESSING"
      \/ status[e] = "PROCESSED" /\ pc[r] = "failing" /\ IsNext(r, e)

Inv ==
  /\ TypeOK
  /\ LockInv
  /\ ClaimInv
  /\ OneHolderPerAttempt
  /\ OnePublishPerAttempt
  /\ SentInv
  /\ MarkInv
  /\ ProcessedWasPublished
  /\ ExclusiveHolder
  /\ ExclusiveInv

\* The loop is at one event at a time.
LEMMA NextIsUnique ==
  ASSUME NEW r \in Runs, NEW e \in Events, NEW f \in Events, IsNext(r, e), IsNext(r, f)
  PROVE  e = f
BY EventsAssumption DEF IsNext

-----------------------------------------------------------------------------
(* The steps that need more than their definition.                         *)

\* The selected rows were free, so nobody else claims them, and waiting, so nobody
\* holds the claim of their current attempt.
LEMMA SelectPendingStep ==
  ASSUME Inv, NEW r \in Runs, SelectPending(r)
  PROVE  Inv'
<1> USE LimitAssumption, NoRunAssumption DEF Inv, Holds, None
<1>1. PICK rows \in SUBSET Events :
        /\ \A e \in rows : status[e] \in {"PENDING", "FAILED"}
                           /\ attempts[e] < MaxAttempts /\ lock[e] = NoRun
        /\ \/ rows = {} /\ EndRun(r) /\ UNCHANGED lock
           \/ /\ rows # {}
              /\ lock' = [e \in Events |-> IF e \in rows THEN r ELSE lock[e]]
              /\ copy' = [copy EXCEPT ![r] =
                            [e \in Events |-> IF e \in rows THEN attempts[e] ELSE -1]]
              /\ pc' = [pc EXCEPT ![r] = "claiming"]
              /\ UNCHANGED isRunning
  <2> DEFINE found == Oldest({e \in Events : Selectable(e)})
  <2>1. found \in SUBSET Events /\ \A e \in found : Selectable(e)
    BY DEF Oldest
  <2>2. \A e \in Events : Selectable(e) => status[e] \in {"PENDING", "FAILED"}
                           /\ attempts[e] < MaxAttempts /\ lock[e] = NoRun
    BY DEF Selectable, Claimable, Unlocked
  <2>3. \/ found = {} /\ EndRun(r) /\ UNCHANGED lock
        \/ /\ found # {}
           /\ lock' = [e \in Events |-> IF e \in found THEN r ELSE lock[e]]
           /\ copy' = [copy EXCEPT ![r] =
                         [e \in Events |-> IF e \in found THEN attempts[e] ELSE -1]]
           /\ pc' = [pc EXCEPT ![r] = "claiming"]
           /\ UNCHANGED isRunning
    BY DEF SelectPending
  <2> HIDE DEF found
  <2> QED
    BY <2>1, <2>2, <2>3
<1>2. \A e \in rows : /\ e \in Events
                       /\ status[e] \in {"PENDING", "FAILED"}
                       /\ attempts[e] < MaxAttempts
                       /\ lock[e] = NoRun
  BY <1>1
<1>3. /\ pc[r] = "selecting"
      /\ \A e \in Events : copy[r][e] = -1
  BY DEF SelectPending, ClaimInv, TypeOK
<1>4. /\ UNCHANGED << status, attempts, age, chan, stopping, wire, delivered >>
      /\ UNCHANGED << sent, recovered, faults >>
  BY DEF SelectPending, rowVars, pubVars
<1>5. \A e \in rows : sent[e][attempts[e]] = 0
  BY <1>2 DEF OnePublishPerAttempt, TypeOK
<1>6. ASSUME NEW e \in rows, NEW s \in Runs
      PROVE  /\ copy[s][e] # attempts[e]
             /\ e \notin recovered => copy[s][e] = -1
  <2>1. /\ e \in Events
        /\ status[e] \in {"PENDING", "FAILED"}
        /\ lock[e] # s
        /\ attempts[e] \in Nat
    BY <1>2 DEF TypeOK
  <2>2. ASSUME copy[s][e] # -1 PROVE pc[s] # "claiming" /\ copy[s][e] < attempts[e]
    BY <2>1, <2>2 DEF ClaimInv
  <2>3. copy[s][e] # -1 /\ pc[s] # "claiming" => e \in recovered
    BY <2>1 DEF ExclusiveInv
  <2> QED
    BY <2>1, <2>2, <2>3
<1>7. (EndRun(r) \/ copy' = [copy EXCEPT ![r] =
                         [e \in Events |-> IF e \in rows THEN attempts[e] ELSE -1]]) =>
        \A s \in Runs \ {r} : \A f \in Events : IsNext(s, f)' <=> IsNext(s, f)
  BY DEF IsNext, EndRun, TypeOK
<1>8. CASE rows = {} /\ EndRun(r) /\ UNCHANGED lock
  <2> USE <1>3, <1>4, <1>7, <1>8 DEF EndRun, Return
  <2>1. TypeOK'
    BY DEF TypeOK, ClaimInv, Statuses, Ages, Steps
  <2>2. LockInv'
    BY DEF TypeOK, LockInv, ClaimInv
  <2>3. ClaimInv'
    BY DEF TypeOK, LockInv, ClaimInv
  <2>4. OneHolderPerAttempt'
    BY DEF TypeOK, LockInv, ClaimInv, OneHolderPerAttempt
  <2>5. OnePublishPerAttempt'
    BY DEF TypeOK, ClaimInv, OnePublishPerAttempt, SentInv, PastPublish
  <2>6. SentInv'
    BY DEF TypeOK, ClaimInv, OneHolderPerAttempt, OnePublishPerAttempt, SentInv, PastPublish
  <2>7. MarkInv'
    BY DEF TypeOK, MarkInv, OnePublishPerAttempt
  <2>8. ProcessedWasPublished'
    BY DEF TypeOK, OnePublishPerAttempt, ProcessedWasPublished
  <2>9. ExclusiveHolder'
    BY DEF TypeOK, LockInv, ClaimInv, ExclusiveHolder, ExclusiveInv
  <2>10. ExclusiveInv'
    BY DEF TypeOK, ClaimInv, ExclusiveHolder, ExclusiveInv
  <2> QED
    BY <2>1, <2>2, <2>3, <2>4, <2>5, <2>6, <2>7, <2>8, <2>9, <2>10 DEF Inv
<1>9. CASE /\ rows # {}
           /\ lock' = [e \in Events |-> IF e \in rows THEN r ELSE lock[e]]
           /\ copy' = [copy EXCEPT ![r] =
                         [e \in Events |-> IF e \in rows THEN attempts[e] ELSE -1]]
           /\ pc' = [pc EXCEPT ![r] = "claiming"]
           /\ UNCHANGED isRunning
  <2> USE <1>2, <1>3, <1>4, <1>5, <1>6, <1>7, <1>9
  <2>1. TypeOK'
    BY DEF TypeOK, ClaimInv, Statuses, Ages, Steps
  <2>2. LockInv'
    BY DEF TypeOK, LockInv, ClaimInv
  <2>3. ClaimInv'
    BY DEF TypeOK, LockInv, ClaimInv
  <2>4. OneHolderPerAttempt'
    BY DEF TypeOK, LockInv, ClaimInv, OneHolderPerAttempt
  <2>5. OnePublishPerAttempt'
    BY DEF TypeOK, ClaimInv, OnePublishPerAttempt, SentInv, PastPublish
  <2>6. SentInv'
    BY DEF TypeOK, ClaimInv, OneHolderPerAttempt, OnePublishPerAttempt, SentInv, PastPublish
  <2>7. MarkInv'
    BY DEF TypeOK, MarkInv, OnePublishPerAttempt
  <2>8. ProcessedWasPublished'
    BY DEF TypeOK, OnePublishPerAttempt, ProcessedWasPublished
  <2>9. ExclusiveHolder'
    BY DEF TypeOK, LockInv, ClaimInv, ExclusiveHolder, ExclusiveInv
  <2>10. ExclusiveInv'
    BY DEF TypeOK, ClaimInv, ExclusiveHolder, ExclusiveInv
  <2> QED
    BY <2>1, <2>2, <2>3, <2>4, <2>5, <2>6, <2>7, <2>8, <2>9, <2>10 DEF Inv
<1> QED
  BY <1>1, <1>8, <1>9

\* A claim that fails leaves the rows as they were, or claimed by nobody.
LEMMA ClaimFailsStep ==
  ASSUME Inv, NEW r \in Runs, ClaimFails(r)
  PROVE  Inv'
<1> USE LimitAssumption, NoRunAssumption DEF Inv, Holds, None
<1>1. /\ pc[r] \in {"selecting", "claiming"}
      /\ faults < MaxFaults /\ faults' = faults + 1
      /\ UNCHANGED << chan, stopping, wire, delivered, sent, recovered >>
      /\ lock' = [e \in Events |-> IF lock[e] = r THEN NoRun ELSE lock[e]]
  BY DEF ClaimFails, Fault, Release, pubVars
<1>2. /\ copy' = [copy EXCEPT ![r] = [e \in Events |-> None]]
      /\ pc' = [pc EXCEPT ![r] = "idle"]
      /\ isRunning' = [w \in Workers |-> isRunning[w] /\ w # ProcOf[r]]
  BY DEF ClaimFails, EndRun, Return
<1>3. \A s \in Runs \ {r} : \A f \in Events : IsNext(s, f)' <=> IsNext(s, f)
  BY <1>2 DEF IsNext, TypeOK
<1>4. CASE UNCHANGED rowVars
  <2> USE <1>1, <1>2, <1>3, <1>4 DEF rowVars
  <2>1. TypeOK'
    BY DEF TypeOK, ClaimInv, Statuses, Ages, Steps
  <2>2. LockInv'
    BY DEF TypeOK, LockInv, ClaimInv
  <2>3. ClaimInv'
    BY DEF TypeOK, LockInv, ClaimInv
  <2>4. OneHolderPerAttempt'
    BY DEF TypeOK, LockInv, ClaimInv, OneHolderPerAttempt
  <2>5. OnePublishPerAttempt'
    BY DEF TypeOK, ClaimInv, OnePublishPerAttempt, SentInv, PastPublish
  <2>6. SentInv'
    BY DEF TypeOK, ClaimInv, OneHolderPerAttempt, OnePublishPerAttempt, SentInv, PastPublish
  <2>7. MarkInv'
    BY DEF TypeOK, MarkInv, OnePublishPerAttempt
  <2>8. ProcessedWasPublished'
    BY DEF TypeOK, OnePublishPerAttempt, ProcessedWasPublished
  <2>9. ExclusiveHolder'
    BY DEF TypeOK, LockInv, ClaimInv, ExclusiveHolder, ExclusiveInv
  <2>10. ExclusiveInv'
    BY DEF TypeOK, ClaimInv, ExclusiveHolder, ExclusiveInv
  <2> QED
    BY <2>1, <2>2, <2>3, <2>4, <2>5, <2>6, <2>7, <2>8, <2>9, <2>10 DEF Inv
<1>5. CASE pc[r] = "claiming" /\ ClaimRows(r)
  <2> USE <1>1, <1>2, <1>3, <1>5 DEF ClaimRows
  <2>1. TypeOK'
    BY DEF TypeOK, ClaimInv, Statuses, Ages, Steps
  <2>2. LockInv'
    BY DEF TypeOK, LockInv, ClaimInv
  <2>3. ClaimInv'
    BY DEF TypeOK, LockInv, ClaimInv
  <2>4. OneHolderPerAttempt'
    BY DEF TypeOK, LockInv, ClaimInv, OneHolderPerAttempt
  <2>5. OnePublishPerAttempt'
    BY DEF TypeOK, ClaimInv, OnePublishPerAttempt, SentInv, PastPublish
  <2>6. SentInv'
    BY DEF TypeOK, ClaimInv, OneHolderPerAttempt, OnePublishPerAttempt, SentInv, PastPublish
  <2>7. MarkInv'
    BY DEF TypeOK, MarkInv, OnePublishPerAttempt
  <2>8. ProcessedWasPublished'
    BY DEF TypeOK, OnePublishPerAttempt, ProcessedWasPublished
  <2>9. ExclusiveHolder'
    BY DEF TypeOK, LockInv, ClaimInv, ExclusiveHolder, ExclusiveInv
  <2>10. ExclusiveInv'
    BY DEF TypeOK, ClaimInv, ExclusiveHolder, ExclusiveInv
  <2> QED
    BY <2>1, <2>2, <2>3, <2>4, <2>5, <2>6, <2>7, <2>8, <2>9, <2>10 DEF Inv
<1> QED
  BY <1>4, <1>5 DEF ClaimFails

\* Publishing hands out the copy of the current event, which nobody handed out yet.
LEMMA PublishStep ==
  ASSUME Inv, NEW r \in Runs, NEW e \in Events, Publish(r, e)
  PROVE  Inv'
<1> USE LimitAssumption, NoRunAssumption DEF Inv, Holds, None
<1> DEFINE n == copy[r][e]
<1>1. /\ n \in 0 .. MaxAttempts - 1
      /\ n < attempts[e]
      /\ pc[r] = "publishing"
      /\ IsNext(r, e)
  BY DEF Publish, IsNext, TypeOK, ClaimInv
<1>2. sent[e][n] = 0
  BY <1>1 DEF SentInv, PastPublish
<1>3. PICK step \in {"marking", "draining"} :
        pc' = [pc EXCEPT ![r] = step] /\ UNCHANGED << copy, isRunning >>
  BY DEF Publish, Goto
<1>4. /\ sent' = [sent EXCEPT ![e][n] = 1]
      /\ UNCHANGED << status, attempts, age, lock, chan, stopping, delivered, recovered, faults >>
  BY <1>1, <1>2 DEF Publish, rowVars, TypeOK
<1>5. wire' \subseteq Message
  BY <1>1, ProcessAssumption DEF Publish, TypeOK, Message
<1>6. \A f \in Events : \A k \in 0 .. MaxAttempts - 1 :
        sent'[f][k] = IF f = e /\ k = n THEN 1 ELSE sent[f][k]
  BY <1>1, <1>4 DEF TypeOK
<1>7. sent' \in [Events -> [0 .. MaxAttempts - 1 -> Nat]]
  BY <1>1, <1>4 DEF TypeOK
<1>8. \A s \in Runs : \A f \in Events : IsNext(s, f)' <=> IsNext(s, f)
  BY <1>3 DEF IsNext
<1>9. \A f \in Events \ {e} : ~IsNext(r, f)
  BY <1>1, NextIsUnique
<1> HIDE DEF n
<1> USE <1>1, <1>3, <1>4, <1>5, <1>6, <1>7, <1>8, <1>9
<1>10. TypeOK'
  BY DEF TypeOK, ClaimInv, Statuses, Ages, Steps
<1>11. LockInv'
  BY DEF TypeOK, LockInv, ClaimInv
<1>12. ClaimInv'
  BY DEF TypeOK, LockInv, ClaimInv
<1>13. OneHolderPerAttempt'
  BY DEF TypeOK, LockInv, ClaimInv, OneHolderPerAttempt
<1>14. OnePublishPerAttempt'
  BY DEF TypeOK, ClaimInv, OnePublishPerAttempt, SentInv, PastPublish
<1>15. SentInv'
  BY DEF n, TypeOK, ClaimInv, OneHolderPerAttempt, OnePublishPerAttempt, SentInv, PastPublish
<1>16. MarkInv'
  BY DEF n, TypeOK, MarkInv, OnePublishPerAttempt
<1>17. ProcessedWasPublished'
  BY DEF TypeOK, OnePublishPerAttempt, ProcessedWasPublished
<1>18. ExclusiveHolder'
  BY DEF TypeOK, LockInv, ClaimInv, ExclusiveHolder, ExclusiveInv
<1>19. ExclusiveInv'
  BY DEF TypeOK, ClaimInv, ExclusiveHolder, ExclusiveInv
<1> QED
  BY <1>10, <1>11, <1>12, <1>13, <1>14, <1>15, <1>16, <1>17, <1>18, <1>19 DEF Inv

\* The event marked PROCESSED was published by the run that marks it.
LEMMA MarkProcessedStep ==
  ASSUME Inv, NEW r \in Runs, NEW e \in Events, MarkProcessed(r, e)
  PROVE  Inv'
<1> USE LimitAssumption, NoRunAssumption DEF Inv, Holds, None
<1>1. /\ pc[r] = "marking"
      /\ IsNext(r, e)
      /\ lock[e] = NoRun
      /\ UNCHANGED << attempts, lock, sent, recovered, chan, stopping, wire, delivered, faults >>
  BY DEF MarkProcessed, SetProcessed, Unlocked, pubVars
<1>2. PICK step \in {"publishing", "idle"} :
        /\ pc' = [pc EXCEPT ![r] = step]
        /\ step = "idle" => \A f \in Events \ {e} : copy[r][f] = -1
  BY DEF MarkProcessed, Advance, Return
<1>3. /\ copy' = [copy EXCEPT ![r][e] = -1]
      /\ isRunning' \in [Workers -> BOOLEAN]
  BY DEF MarkProcessed, Advance, Return, TypeOK
<1>4. /\ status' = [status EXCEPT ![e] = "PROCESSED"]
      /\ age' \in [Events -> Ages]
  BY DEF MarkProcessed, SetProcessed, TypeOK, Ages
<1>5. copy[r][e] \in 0 .. MaxAttempts - 1
  BY <1>1 DEF IsNext, TypeOK
<1>6. pc[r] = "marking" => sent[e][copy[r][e]] = 1
  BY <1>1 DEF MarkInv
<1>7. \A s \in Runs \ {r} : \A f \in Events : IsNext(s, f)' <=> IsNext(s, f)
  BY <1>3 DEF IsNext, TypeOK
<1>8. \A f \in Events \ {e} : ~IsNext(r, f)
  BY <1>1, NextIsUnique
<1> USE <1>1, <1>2, <1>3, <1>4, <1>5, <1>6, <1>7, <1>8
<1>9. TypeOK'
  BY DEF TypeOK, ClaimInv, Statuses, Ages, Steps
<1>10. LockInv'
  BY DEF TypeOK, LockInv, ClaimInv
<1>11. ClaimInv'
  BY DEF TypeOK, LockInv, ClaimInv
<1>12. OneHolderPerAttempt'
  BY DEF TypeOK, LockInv, ClaimInv, OneHolderPerAttempt
<1>13. OnePublishPerAttempt'
  BY DEF TypeOK, ClaimInv, OnePublishPerAttempt, SentInv, PastPublish
<1>14. SentInv'
  BY DEF TypeOK, ClaimInv, OneHolderPerAttempt, OnePublishPerAttempt, SentInv, PastPublish
<1>15. MarkInv'
  BY DEF TypeOK, MarkInv, OnePublishPerAttempt
<1>16. ProcessedWasPublished'
  BY DEF TypeOK, OnePublishPerAttempt, ProcessedWasPublished
<1>17. ExclusiveHolder'
  BY DEF TypeOK, LockInv, ClaimInv, ExclusiveHolder, ExclusiveInv
<1>18. ExclusiveInv'
  BY DEF TypeOK, ClaimInv, ExclusiveHolder, ExclusiveInv
<1> QED
  BY <1>9, <1>10, <1>11, <1>12, <1>13, <1>14, <1>15, <1>16, <1>17, <1>18 DEF Inv

\* The event marked FAILED leaves the hands of the run that marks it.
LEMMA MarkFailedStep ==
  ASSUME Inv, NEW r \in Runs, NEW e \in Events, MarkFailed(r, e)
  PROVE  Inv'
<1> USE LimitAssumption, NoRunAssumption DEF Inv, Holds, None
<1>1. /\ pc[r] = "failing"
      /\ IsNext(r, e)
      /\ lock[e] = NoRun
      /\ UNCHANGED << attempts, lock, sent, recovered, chan, stopping, wire, delivered, faults >>
  BY DEF MarkFailed, SetFailed, Unlocked, pubVars
<1>2. PICK step \in {"publishing", "idle"} :
        /\ pc' = [pc EXCEPT ![r] = step]
        /\ step = "idle" => \A f \in Events \ {e} : copy[r][f] = -1
  BY DEF MarkFailed, Advance, Return
<1>3. /\ copy' = [copy EXCEPT ![r][e] = -1]
      /\ isRunning' \in [Workers -> BOOLEAN]
  BY DEF MarkFailed, Advance, Return, TypeOK
<1>4. /\ status' = [status EXCEPT ![e] = "FAILED"]
      /\ age' \in [Events -> Ages]
  BY DEF MarkFailed, SetFailed, TypeOK, Ages
<1>5. copy[r][e] \in 0 .. MaxAttempts - 1
  BY <1>1 DEF IsNext, TypeOK
<1>6. pc[r] = "marking" => sent[e][copy[r][e]] = 1
  BY <1>1 DEF MarkInv
<1>7. \A s \in Runs \ {r} : \A f \in Events : IsNext(s, f)' <=> IsNext(s, f)
  BY <1>3 DEF IsNext, TypeOK
<1>8. \A f \in Events \ {e} : ~IsNext(r, f)
  BY <1>1, NextIsUnique
<1> USE <1>1, <1>2, <1>3, <1>4, <1>5, <1>6, <1>7, <1>8
<1>9. TypeOK'
  BY DEF TypeOK, ClaimInv, Statuses, Ages, Steps
<1>10. LockInv'
  BY DEF TypeOK, LockInv, ClaimInv
<1>11. ClaimInv'
  BY DEF TypeOK, LockInv, ClaimInv
<1>12. OneHolderPerAttempt'
  BY DEF TypeOK, LockInv, ClaimInv, OneHolderPerAttempt
<1>13. OnePublishPerAttempt'
  BY DEF TypeOK, ClaimInv, OnePublishPerAttempt, SentInv, PastPublish
<1>14. SentInv'
  BY DEF TypeOK, ClaimInv, OneHolderPerAttempt, OnePublishPerAttempt, SentInv, PastPublish
<1>15. MarkInv'
  BY DEF TypeOK, MarkInv, OnePublishPerAttempt
<1>16. ProcessedWasPublished'
  BY DEF TypeOK, OnePublishPerAttempt, ProcessedWasPublished
<1>17. ExclusiveHolder'
  BY DEF TypeOK, LockInv, ClaimInv, ExclusiveHolder, ExclusiveInv
<1>18. ExclusiveInv'
  BY DEF TypeOK, ClaimInv, ExclusiveHolder, ExclusiveInv
<1> QED
  BY <1>9, <1>10, <1>11, <1>12, <1>13, <1>14, <1>15, <1>16, <1>17, <1>18 DEF Inv

\* A failed markProcessed changes the row or not; the run goes on to markFailed.
LEMMA MarkProcessedFailsStep ==
  ASSUME Inv, NEW r \in Runs, NEW e \in Events, MarkProcessedFails(r, e)
  PROVE  Inv'
<1> USE LimitAssumption, NoRunAssumption DEF Inv, Holds, None
<1>1. /\ pc[r] = "marking"
      /\ IsNext(r, e)
      /\ faults < MaxFaults /\ faults' = faults + 1
      /\ UNCHANGED << attempts, lock, sent, recovered, chan, stopping, wire, delivered >>
  BY DEF MarkProcessedFails, Fault, SetProcessed, rowVars, pubVars
<1>2. pc' = [pc EXCEPT ![r] = "failing"] /\ UNCHANGED << copy, isRunning >>
  BY DEF MarkProcessedFails, Goto
<1>3. /\ copy[r][e] \in 0 .. MaxAttempts - 1
      /\ pc[r] = "marking" => sent[e][copy[r][e]] = 1
  BY <1>1 DEF IsNext, TypeOK, MarkInv
<1>4. \A s \in Runs : \A f \in Events : IsNext(s, f)' <=> IsNext(s, f)
  BY <1>2 DEF IsNext
<1>5. IsNext(r, e)'
  BY <1>1, <1>4
<1>6. \A f \in Events \ {e} : ~IsNext(r, f)
  BY <1>1, NextIsUnique
<1>7. CASE UNCHANGED rowVars
  <2> USE <1>1, <1>2, <1>3, <1>4, <1>5, <1>6, <1>7 DEF rowVars
  <2>1. TypeOK'
    BY DEF TypeOK, ClaimInv, Statuses, Ages, Steps
  <2>2. LockInv'
    BY DEF TypeOK, LockInv, ClaimInv
  <2>3. ClaimInv'
    BY DEF TypeOK, LockInv, ClaimInv
  <2>4. OneHolderPerAttempt'
    BY DEF TypeOK, LockInv, ClaimInv, OneHolderPerAttempt
  <2>5. OnePublishPerAttempt'
    BY DEF TypeOK, ClaimInv, OnePublishPerAttempt, SentInv, PastPublish
  <2>6. SentInv'
    BY DEF TypeOK, ClaimInv, OneHolderPerAttempt, OnePublishPerAttempt, SentInv, PastPublish
  <2>7. MarkInv'
    BY DEF TypeOK, MarkInv, OnePublishPerAttempt
  <2>8. ProcessedWasPublished'
    BY DEF TypeOK, OnePublishPerAttempt, ProcessedWasPublished
  <2>9. ExclusiveHolder'
    BY DEF TypeOK, LockInv, ClaimInv, ExclusiveHolder, ExclusiveInv
  <2>10. ExclusiveInv'
    BY DEF TypeOK, ClaimInv, ExclusiveHolder, ExclusiveInv
  <2> QED
    BY <2>1, <2>2, <2>3, <2>4, <2>5, <2>6, <2>7, <2>8, <2>9, <2>10 DEF Inv
<1>8. CASE SetProcessed(e)
  <2> USE <1>1, <1>2, <1>3, <1>4, <1>5, <1>6, <1>8 DEF SetProcessed, Unlocked
  <2>1. TypeOK'
    BY DEF TypeOK, ClaimInv, Statuses, Ages, Steps
  <2>2. LockInv'
    BY DEF TypeOK, LockInv, ClaimInv
  <2>3. ClaimInv'
    BY DEF TypeOK, LockInv, ClaimInv
  <2>4. OneHolderPerAttempt'
    BY DEF TypeOK, LockInv, ClaimInv, OneHolderPerAttempt
  <2>5. OnePublishPerAttempt'
    BY DEF TypeOK, ClaimInv, OnePublishPerAttempt, SentInv, PastPublish
  <2>6. SentInv'
    BY DEF TypeOK, ClaimInv, OneHolderPerAttempt, OnePublishPerAttempt, SentInv, PastPublish
  <2>7. MarkInv'
    BY DEF TypeOK, MarkInv, OnePublishPerAttempt
  <2>8. ProcessedWasPublished'
    BY DEF TypeOK, OnePublishPerAttempt, ProcessedWasPublished
  <2>9. ExclusiveHolder'
    BY DEF TypeOK, LockInv, ClaimInv, ExclusiveHolder, ExclusiveInv
  <2>10. ExclusiveInv'
    BY DEF TypeOK, ClaimInv, ExclusiveHolder, ExclusiveInv
  <2> QED
    BY <2>1, <2>2, <2>3, <2>4, <2>5, <2>6, <2>7, <2>8, <2>9, <2>10 DEF Inv
<1> QED
  BY <1>7, <1>8 DEF MarkProcessedFails

\* A failed markFailed changes the row or not; the run ends.
LEMMA MarkFailedFailsStep ==
  ASSUME Inv, NEW r \in Runs, NEW e \in Events, MarkFailedFails(r, e)
  PROVE  Inv'
<1> USE LimitAssumption, NoRunAssumption DEF Inv, Holds, None
<1>1. /\ pc[r] = "failing"
      /\ IsNext(r, e)
      /\ faults < MaxFaults /\ faults' = faults + 1
      /\ UNCHANGED << attempts, lock, sent, recovered, chan, stopping, wire, delivered >>
  BY DEF MarkFailedFails, Fault, SetFailed, rowVars, pubVars
<1>2. /\ copy' = [copy EXCEPT ![r] = [f \in Events |-> None]]
      /\ pc' = [pc EXCEPT ![r] = "idle"]
      /\ isRunning' = [w \in Workers |-> isRunning[w] /\ w # ProcOf[r]]
  BY DEF MarkFailedFails, EndRun, Return
<1>3. /\ copy[r][e] \in 0 .. MaxAttempts - 1
      /\ pc[r] = "marking" => sent[e][copy[r][e]] = 1
  BY <1>1 DEF IsNext, TypeOK, MarkInv
<1>4. \A s \in Runs \ {r} : \A f \in Events : IsNext(s, f)' <=> IsNext(s, f)
  BY <1>2 DEF IsNext, TypeOK
<1>5. \A f \in Events : ~Holds(r, f)'
  BY <1>2 DEF TypeOK
<1>6. \A f \in Events \ {e} : ~IsNext(r, f)
  BY <1>1, NextIsUnique
<1>7. CASE UNCHANGED rowVars
  <2> USE <1>1, <1>2, <1>3, <1>4, <1>5, <1>6, <1>7 DEF rowVars
  <2>1. TypeOK'
    BY DEF TypeOK, ClaimInv, Statuses, Ages, Steps
  <2>2. LockInv'
    BY DEF TypeOK, LockInv, ClaimInv
  <2>3. ClaimInv'
    BY DEF TypeOK, LockInv, ClaimInv
  <2>4. OneHolderPerAttempt'
    BY DEF TypeOK, LockInv, ClaimInv, OneHolderPerAttempt
  <2>5. OnePublishPerAttempt'
    BY DEF TypeOK, ClaimInv, OnePublishPerAttempt, SentInv, PastPublish
  <2>6. SentInv'
    BY DEF TypeOK, ClaimInv, OneHolderPerAttempt, OnePublishPerAttempt, SentInv, PastPublish
  <2>7. MarkInv'
    BY DEF TypeOK, MarkInv, OnePublishPerAttempt
  <2>8. ProcessedWasPublished'
    BY DEF TypeOK, OnePublishPerAttempt, ProcessedWasPublished
  <2>9. ExclusiveHolder'
    BY DEF TypeOK, LockInv, ClaimInv, ExclusiveHolder, ExclusiveInv
  <2>10. ExclusiveInv'
    BY DEF TypeOK, ClaimInv, ExclusiveHolder, ExclusiveInv
  <2> QED
    BY <2>1, <2>2, <2>3, <2>4, <2>5, <2>6, <2>7, <2>8, <2>9, <2>10 DEF Inv
<1>8. CASE SetFailed(e)
  <2> USE <1>1, <1>2, <1>3, <1>4, <1>5, <1>6, <1>8 DEF SetFailed, Unlocked
  <2>1. TypeOK'
    BY DEF TypeOK, ClaimInv, Statuses, Ages, Steps
  <2>2. LockInv'
    BY DEF TypeOK, LockInv, ClaimInv
  <2>3. ClaimInv'
    BY DEF TypeOK, LockInv, ClaimInv
  <2>4. OneHolderPerAttempt'
    BY DEF TypeOK, LockInv, ClaimInv, OneHolderPerAttempt
  <2>5. OnePublishPerAttempt'
    BY DEF TypeOK, ClaimInv, OnePublishPerAttempt, SentInv, PastPublish
  <2>6. SentInv'
    BY DEF TypeOK, ClaimInv, OneHolderPerAttempt, OnePublishPerAttempt, SentInv, PastPublish
  <2>7. MarkInv'
    BY DEF TypeOK, MarkInv, OnePublishPerAttempt
  <2>8. ProcessedWasPublished'
    BY DEF TypeOK, OnePublishPerAttempt, ProcessedWasPublished
  <2>9. ExclusiveHolder'
    BY DEF TypeOK, LockInv, ClaimInv, ExclusiveHolder, ExclusiveInv
  <2>10. ExclusiveInv'
    BY DEF TypeOK, ClaimInv, ExclusiveHolder, ExclusiveInv
  <2> QED
    BY <2>1, <2>2, <2>3, <2>4, <2>5, <2>6, <2>7, <2>8, <2>9, <2>10 DEF Inv
<1> QED
  BY <1>7, <1>8 DEF MarkFailedFails
-----------------------------------------------------------------------------
(* Steps that only move runs forward, or touch channels and messages.      *)

\* moves of a run that neither take nor drop a claim, nor publish
Moves == {<<"idle", "selecting">>, <<"publishing", "connecting">>, <<"connecting", "publishing">>,
          <<"connecting", "failing">>, <<"publishing", "failing">>, <<"draining", "marking">>,
          <<"draining", "hung">>}

LEMMA MoveStep ==
  ASSUME Inv, TypeOK',
         status' = status, attempts' = attempts, lock' = lock, copy' = copy, sent' = sent,
         recovered' = recovered,
         \A r \in Runs : pc'[r] = pc[r] \/ <<pc[r], pc'[r]>> \in Moves
  PROVE  Inv'
<1> USE NoRunAssumption DEF Inv, Holds, None
<1>1. \A r \in Runs : \A e \in Events : IsNext(r, e)' <=> IsNext(r, e)
  BY DEF IsNext
<1>2. \A r \in Runs :
        /\ pc'[r] = "claiming" <=> pc[r] = "claiming"
        /\ pc'[r] \in {"idle", "selecting"} <=> pc[r] \in {"idle", "selecting"}
        /\ pc'[r] \in {"draining", "hung", "marking"} <=> pc[r] \in {"draining", "hung", "marking"}
        /\ pc[r] = "failing" => pc'[r] = "failing"
  BY DEF Moves
<1>3. LockInv' /\ ClaimInv'
  BY <1>2 DEF LockInv, ClaimInv
<1>4. OneHolderPerAttempt' /\ OnePublishPerAttempt' /\ ProcessedWasPublished' /\ ExclusiveHolder'
  BY DEF OneHolderPerAttempt, OnePublishPerAttempt, ProcessedWasPublished, ExclusiveHolder
<1>5. SentInv'
  BY <1>1, <1>2 DEF SentInv, PastPublish
<1>6. MarkInv'
  BY <1>1, <1>2 DEF MarkInv
<1>7. ExclusiveInv'
  BY <1>1, <1>2 DEF ExclusiveInv
<1> QED
  BY <1>3, <1>4, <1>5, <1>6, <1>7

-----------------------------------------------------------------------------
(* The invariant.                                                          *)

LEMMA InitInv == Init => Inv
BY LimitAssumption, NoRunAssumption
   DEF Init, Inv, TypeOK, LockInv, ClaimInv, OneHolderPerAttempt, OnePublishPerAttempt,
       SentInv, MarkInv, ProcessedWasPublished, ExclusiveHolder, ExclusiveInv, PastPublish,
       IsNext, Holds, None, Statuses, Ages, Steps, Channels, Message, Processes

LEMMA NextInv == Inv /\ [Next]_vars => Inv'
<1> SUFFICES ASSUME Inv, [Next]_vars PROVE Inv'
  OBVIOUS
<1> USE LimitAssumption, NoRunAssumption, ProcessAssumption
    DEF rowVars, runVars, pubVars, Inv, Holds, None
<1>1. ASSUME NEW r \in Runs, Tick(r) PROVE Inv'
  <2>1. TypeOK'
    BY <1>1 DEF Tick, TypeOK, Steps, Channels, Message, Processes
  <2>2. \A s \in Runs : pc'[s] = pc[s] \/ <<pc[s], pc'[s]>> \in Moves
    BY <1>1 DEF Tick, TypeOK, Moves
  <2> QED
    BY <1>1, <2>1, <2>2, MoveStep DEF Tick
<1>2. ASSUME NEW r \in Runs, DispatchRequest(r) PROVE Inv'
  <2>1. TypeOK'
    BY <1>2 DEF DispatchRequest, Goto, TypeOK, Steps, Channels, Message, Processes
  <2>2. \A s \in Runs : pc'[s] = pc[s] \/ <<pc[s], pc'[s]>> \in Moves
    BY <1>2 DEF DispatchRequest, Goto, TypeOK, Moves
  <2> QED
    BY <1>2, <2>1, <2>2, MoveStep DEF DispatchRequest, Goto
<1>3. ASSUME NEW r \in Runs, Connect(r) PROVE Inv'
  <2>1. TypeOK'
    BY <1>3 DEF Connect, Goto, TypeOK, Steps, Channels, Message, Processes
  <2>2. \A s \in Runs : pc'[s] = pc[s] \/ <<pc[s], pc'[s]>> \in Moves
    BY <1>3 DEF Connect, Goto, TypeOK, Moves
  <2> QED
    BY <1>3, <2>1, <2>2, MoveStep DEF Connect, Goto
<1>4. ASSUME NEW r \in Runs, Connected(r) PROVE Inv'
  <2>1. TypeOK'
    BY <1>4 DEF Connected, Goto, TypeOK, Steps, Channels, Message, Processes
  <2>2. \A s \in Runs : pc'[s] = pc[s] \/ <<pc[s], pc'[s]>> \in Moves
    BY <1>4 DEF Connected, Goto, TypeOK, Moves
  <2> QED
    BY <1>4, <2>1, <2>2, MoveStep DEF Connected, Goto
<1>5. ASSUME NEW r \in Runs, ConnectFails(r) PROVE Inv'
  <2>1. TypeOK'
    <3>1. UNCHANGED chan \/ chan' = [chan EXCEPT ![ProcOf[r]] = "dead"]
      BY <1>5 DEF ConnectFails
    <3>2. chan' \in [Processes -> Channels]
      BY <3>1 DEF TypeOK, Channels
    <3>3. pc' \in [Runs -> Steps] /\ faults' \in 0 .. MaxFaults
      BY <1>5 DEF ConnectFails, Fault, Goto, TypeOK, Steps
    <3> QED
      BY <1>5, <3>2, <3>3 DEF ConnectFails, Goto, TypeOK
  <2>2. \A s \in Runs : pc'[s] = pc[s] \/ <<pc[s], pc'[s]>> \in Moves
    BY <1>5 DEF ConnectFails, Fault, Goto, TypeOK, Moves
  <2> QED
    BY <1>5, <2>1, <2>2, MoveStep DEF ConnectFails, Fault, Goto
<1>6. ASSUME NEW r \in Runs, PublishFails(r) PROVE Inv'
  <2>1. TypeOK'
    BY <1>6 DEF PublishFails, Goto, TypeOK, Steps, Channels, Message, Processes
  <2>2. \A s \in Runs : pc'[s] = pc[s] \/ <<pc[s], pc'[s]>> \in Moves
    BY <1>6 DEF PublishFails, Goto, TypeOK, Moves
  <2> QED
    BY <1>6, <2>1, <2>2, MoveStep DEF PublishFails, Goto
<1>7. ASSUME NEW r \in Runs, Drained(r) PROVE Inv'
  <2>1. TypeOK'
    BY <1>7 DEF Drained, Goto, TypeOK, Steps, Channels, Message, Processes
  <2>2. \A s \in Runs : pc'[s] = pc[s] \/ <<pc[s], pc'[s]>> \in Moves
    BY <1>7 DEF Drained, Goto, TypeOK, Moves
  <2> QED
    BY <1>7, <2>1, <2>2, MoveStep DEF Drained, Goto
<1>8. ASSUME NEW m \in wire, Deliver(m) PROVE Inv'
  <2>1. TypeOK'
    BY <1>8 DEF Deliver, TypeOK, Steps, Channels, Message, Processes
  <2>2. \A s \in Runs : pc'[s] = pc[s] \/ <<pc[s], pc'[s]>> \in Moves
    BY <1>8 DEF Deliver, TypeOK, Moves
  <2> QED
    BY <1>8, <2>1, <2>2, MoveStep DEF Deliver
<1>9. ASSUME NEW p \in Processes, ConnectionLost(p) PROVE Inv'
  <2>1. TypeOK'
    BY <1>9 DEF ConnectionLost, Fault, Hang, WireOf, TypeOK, Steps, Channels, Message, Processes
  <2>2. \A s \in Runs : pc'[s] = pc[s] \/ <<pc[s], pc'[s]>> \in Moves
    BY <1>9 DEF ConnectionLost, Fault, Hang, WireOf, TypeOK, Moves
  <2> QED
    BY <1>9, <2>1, <2>2, MoveStep DEF ConnectionLost, Fault, Hang, WireOf
<1>10. ASSUME NEW p \in Processes, BeginShutdown(p) PROVE Inv'
  <2>1. TypeOK'
    BY <1>10 DEF BeginShutdown, Fault, TypeOK, Steps, Channels, Message, Processes
  <2>2. \A s \in Runs : pc'[s] = pc[s] \/ <<pc[s], pc'[s]>> \in Moves
    BY <1>10 DEF BeginShutdown, Fault, TypeOK, Moves
  <2> QED
    BY <1>10, <2>1, <2>2, MoveStep DEF BeginShutdown, Fault
<1>11. ASSUME NEW p \in Processes, ChannelClosed(p) PROVE Inv'
  <2>1. TypeOK'
    BY <1>11 DEF ChannelClosed, Hang, WireOf, TypeOK, Steps, Channels, Message, Processes
  <2>2. \A s \in Runs : pc'[s] = pc[s] \/ <<pc[s], pc'[s]>> \in Moves
    BY <1>11 DEF ChannelClosed, Hang, WireOf, TypeOK, Moves
  <2> QED
    BY <1>11, <2>1, <2>2, MoveStep DEF ChannelClosed, Hang, WireOf
<1>12. ASSUME NEW e \in Events, Create(e) PROVE Inv'
  <2> USE <1>12 DEF Create
  <2>1. TypeOK'
    BY DEF TypeOK, ClaimInv, Statuses, Ages, Steps, Channels, Processes
  <2>2. LockInv' /\ ClaimInv'
    BY DEF TypeOK, LockInv, ClaimInv
  <2>3. OneHolderPerAttempt'
    BY DEF TypeOK, LockInv, ClaimInv, OneHolderPerAttempt
  <2>4. OnePublishPerAttempt' /\ ProcessedWasPublished'
    BY DEF TypeOK, OnePublishPerAttempt, ProcessedWasPublished
  <2>5. SentInv' /\ MarkInv'
    BY DEF TypeOK, ClaimInv, SentInv, MarkInv, PastPublish, IsNext
  <2>6. ExclusiveHolder'
    BY DEF TypeOK, LockInv, ClaimInv, ExclusiveHolder, ExclusiveInv
  <2>7. ExclusiveInv'
    BY DEF TypeOK, ClaimInv, ExclusiveHolder, ExclusiveInv, IsNext
  <2> QED
    BY <2>1, <2>2, <2>3, <2>4, <2>5, <2>6, <2>7
<1>13. ASSUME NEW r \in Runs, CommitClaim(r) PROVE Inv'
  <2> USE <1>13 DEF CommitClaim, ClaimRows, Release, Goto
  <2>1. TypeOK'
    BY DEF TypeOK, ClaimInv, Statuses, Ages, Steps, Channels, Processes
  <2>2. LockInv' /\ ClaimInv'
    BY DEF TypeOK, LockInv, ClaimInv
  <2>3. OneHolderPerAttempt'
    BY DEF TypeOK, LockInv, ClaimInv, OneHolderPerAttempt
  <2>4. OnePublishPerAttempt' /\ ProcessedWasPublished'
    BY DEF TypeOK, OnePublishPerAttempt, ProcessedWasPublished
  <2>5. SentInv' /\ MarkInv'
    BY DEF TypeOK, ClaimInv, SentInv, MarkInv, PastPublish, IsNext
  <2>6. ExclusiveHolder'
    BY DEF TypeOK, LockInv, ClaimInv, ExclusiveHolder, ExclusiveInv
  <2>7. ExclusiveInv'
    BY DEF TypeOK, ClaimInv, ExclusiveHolder, ExclusiveInv, IsNext
  <2> QED
    BY <2>1, <2>2, <2>3, <2>4, <2>5, <2>6, <2>7
<1>14. CASE RequeueFailed
  <2> USE <1>14 DEF RequeueFailed, RequeueRows, Unlocked
  <2>1. TypeOK'
    BY DEF TypeOK, ClaimInv, Statuses, Ages, Steps, Channels, Processes
  <2>2. LockInv' /\ ClaimInv'
    BY DEF TypeOK, LockInv, ClaimInv
  <2>3. OneHolderPerAttempt'
    BY DEF TypeOK, LockInv, ClaimInv, OneHolderPerAttempt
  <2>4. OnePublishPerAttempt' /\ ProcessedWasPublished'
    BY DEF TypeOK, OnePublishPerAttempt, ProcessedWasPublished
  <2>5. SentInv' /\ MarkInv'
    BY DEF TypeOK, ClaimInv, SentInv, MarkInv, PastPublish, IsNext
  <2>6. ExclusiveHolder'
    BY DEF TypeOK, LockInv, ClaimInv, ExclusiveHolder, ExclusiveInv
  <2>7. ExclusiveInv'
    BY DEF TypeOK, ClaimInv, ExclusiveHolder, ExclusiveInv, IsNext
  <2> QED
    BY <2>1, <2>2, <2>3, <2>4, <2>5, <2>6, <2>7
<1>15. CASE RecoverProcessing
  <2> USE <1>15 DEF RecoverProcessing
  <2>1. TypeOK'
    BY DEF TypeOK, ClaimInv, Statuses, Ages, Steps, Channels, Processes
  <2>2. LockInv' /\ ClaimInv'
    BY DEF TypeOK, LockInv, ClaimInv
  <2>3. OneHolderPerAttempt'
    BY DEF TypeOK, LockInv, ClaimInv, OneHolderPerAttempt
  <2>4. OnePublishPerAttempt' /\ ProcessedWasPublished'
    BY DEF TypeOK, OnePublishPerAttempt, ProcessedWasPublished
  <2>5. SentInv' /\ MarkInv'
    BY DEF TypeOK, ClaimInv, SentInv, MarkInv, PastPublish, IsNext
  <2>6. ExclusiveHolder'
    BY DEF TypeOK, LockInv, ClaimInv, ExclusiveHolder, ExclusiveInv
  <2>7. ExclusiveInv'
    BY DEF TypeOK, ClaimInv, ExclusiveHolder, ExclusiveInv, IsNext
  <2> QED
    BY <2>1, <2>2, <2>3, <2>4, <2>5, <2>6, <2>7
<1>16. ASSUME NEW e \in Events, Age(e) PROVE Inv'
  <2> USE <1>16 DEF Age
  <2>1. TypeOK'
    BY DEF TypeOK, ClaimInv, Statuses, Ages, Steps, Channels, Processes
  <2>2. LockInv' /\ ClaimInv'
    BY DEF TypeOK, LockInv, ClaimInv
  <2>3. OneHolderPerAttempt'
    BY DEF TypeOK, LockInv, ClaimInv, OneHolderPerAttempt
  <2>4. OnePublishPerAttempt' /\ ProcessedWasPublished'
    BY DEF TypeOK, OnePublishPerAttempt, ProcessedWasPublished
  <2>5. SentInv' /\ MarkInv'
    BY DEF TypeOK, ClaimInv, SentInv, MarkInv, PastPublish, IsNext
  <2>6. ExclusiveHolder'
    BY DEF TypeOK, LockInv, ClaimInv, ExclusiveHolder, ExclusiveInv
  <2>7. ExclusiveInv'
    BY DEF TypeOK, ClaimInv, ExclusiveHolder, ExclusiveInv, IsNext
  <2> QED
    BY <2>1, <2>2, <2>3, <2>4, <2>5, <2>6, <2>7
<1>17. ASSUME NEW p \in Processes, Exit(p) PROVE Inv'
  <2> USE <1>17 DEF Exit, NoFault, Restart, WireOf
  <2>1. TypeOK'
    BY DEF TypeOK, ClaimInv, Statuses, Ages, Steps, Channels, Processes
  <2>2. LockInv' /\ ClaimInv'
    BY DEF TypeOK, LockInv, ClaimInv
  <2>3. OneHolderPerAttempt'
    BY DEF TypeOK, LockInv, ClaimInv, OneHolderPerAttempt
  <2>4. OnePublishPerAttempt' /\ ProcessedWasPublished'
    BY DEF TypeOK, OnePublishPerAttempt, ProcessedWasPublished
  <2>5. SentInv' /\ MarkInv'
    BY DEF TypeOK, ClaimInv, SentInv, MarkInv, PastPublish, IsNext
  <2>6. ExclusiveHolder'
    BY DEF TypeOK, LockInv, ClaimInv, ExclusiveHolder, ExclusiveInv
  <2>7. ExclusiveInv'
    BY DEF TypeOK, ClaimInv, ExclusiveHolder, ExclusiveInv, IsNext
  <2> QED
    BY <2>1, <2>2, <2>3, <2>4, <2>5, <2>6, <2>7
<1>18. ASSUME NEW p \in Processes, Crash(p) PROVE Inv'
  <2> USE <1>18 DEF Crash, Fault, Restart, WireOf
  <2>1. TypeOK'
    BY DEF TypeOK, ClaimInv, Statuses, Ages, Steps, Channels, Processes
  <2>2. LockInv' /\ ClaimInv'
    BY DEF TypeOK, LockInv, ClaimInv
  <2>3. OneHolderPerAttempt'
    BY DEF TypeOK, LockInv, ClaimInv, OneHolderPerAttempt
  <2>4. OnePublishPerAttempt' /\ ProcessedWasPublished'
    BY DEF TypeOK, OnePublishPerAttempt, ProcessedWasPublished
  <2>5. SentInv' /\ MarkInv'
    BY DEF TypeOK, ClaimInv, SentInv, MarkInv, PastPublish, IsNext
  <2>6. ExclusiveHolder'
    BY DEF TypeOK, LockInv, ClaimInv, ExclusiveHolder, ExclusiveInv
  <2>7. ExclusiveInv'
    BY DEF TypeOK, ClaimInv, ExclusiveHolder, ExclusiveInv, IsNext
  <2> QED
    BY <2>1, <2>2, <2>3, <2>4, <2>5, <2>6, <2>7
<1>19. CASE UNCHANGED vars
  <2>1. TypeOK' /\ UNCHANGED << status, attempts, lock, copy, sent, recovered, pc >>
    BY <1>19 DEF vars, TypeOK
  <2> QED
    BY <2>1, MoveStep
<1> QED
  BY <1>1, <1>2, <1>3, <1>4, <1>5, <1>6, <1>7, <1>8, <1>9, <1>10, <1>11, <1>12, <1>13,
     <1>14, <1>15, <1>16, <1>17, <1>18, <1>19,
     SelectPendingStep, ClaimFailsStep, PublishStep, MarkProcessedStep,
     MarkProcessedFailsStep, MarkFailedStep, MarkFailedFailsStep
  DEF Next, RunStep, ProcessStep

LEMMA Invariance == Spec => []Inv
  BY InitInv, NextInv, PTL DEF Spec

-----------------------------------------------------------------------------
(* The theorems.                                                           *)

\* Every variable keeps its type; in particular no row is ever claimed more often
\* than OUTBOX_MAX_ATTEMPTS allows, although requeueing does not reset attempts.
THEOREM TypeCorrect == Spec => []TypeOK
  BY Invariance, PTL DEF Inv

\* No two runs ever hold the same claim of an event: the row locks of
\* claimPending and the increment of attempts under them make claims unique.
THEOREM ClaimsAreUnique == Spec => []OneHolderPerAttempt
  BY Invariance, PTL DEF Inv

\* Every claim publishes its copy of the event at most once, under any number of
\* crashes, lost answers, retries and recoveries.
THEOREM CopiesAreDistinct == Spec => []OnePublishPerAttempt
  BY Invariance, PTL DEF Inv

\* An event no operator recovered has at most one run working on it.
THEOREM HolderIsExclusive == Spec => []ExclusiveHolder
  BY Invariance, PTL DEF Inv

\* An event is PROCESSED only after a copy of it was handed to a channel.
THEOREM ProcessedImpliesPublished == Spec => []ProcessedWasPublished
  BY Invariance, PTL DEF Inv
-----------------------------------------------------------------------------
(* Action properties.                                                      *)

\* A step changes the status of rows in one of these ways, and nothing else of the
\* state that OutboxDelivery shows, except that Publish hands out a copy.
LEMMA StatusStep ==
  ASSUME Inv, Next
  PROVE  \/ UNCHANGED << status, attempts, sent >>
         \/ \E e \in Events : Delivery!Insert(e)
         \/ \E r \in Runs : /\ pc[r] = "claiming"
                            /\ Delivery!Claim(Batch(r))
         \/ \E r \in Runs, e \in Events : Holds(r, e) /\ Delivery!Settle(e)
         \/ \E r \in Runs, e \in Events : Holds(r, e) /\ Delivery!GiveUp(e)
         \/ \E batch \in SUBSET Events : Delivery!Reopen(batch)
         \/ \E e \in Events, n \in 0 .. MaxAttempts - 1 : Delivery!Hand(e, n)
<1> USE DEF rowVars
<1>1. ASSUME NEW e \in Events, Create(e) PROVE Delivery!Insert(e)
  BY <1>1 DEF Create, Delivery!Insert
<1>2. ASSUME NEW r \in Runs, pc[r] = "claiming", ClaimRows(r), UNCHANGED sent
      PROVE  Delivery!Claim(Batch(r))
  <2>1. \A e \in Batch(r) : status[e] \in {"PENDING", "FAILED"} /\ attempts[e] < MaxAttempts
    BY <1>2 DEF Batch, Inv, LockInv, ClaimInv
  <2> QED
    BY <1>2, <2>1 DEF ClaimRows, Batch, Delivery!Claim
<1>3. ASSUME NEW r \in Runs, NEW e \in Events, pc[r] = "marking", IsNext(r, e),
             SetProcessed(e), UNCHANGED sent
      PROVE  Holds(r, e) /\ Delivery!Settle(e)
  <2>1. Holds(r, e) /\ sent[e][copy[r][e]] = 1 /\ copy[r][e] \in 0 .. MaxAttempts - 1
    BY <1>3 DEF Inv, MarkInv, TypeOK, IsNext, Holds, None
  <2> QED
    BY <1>3, <2>1 DEF SetProcessed, Delivery!Settle
<1>4. ASSUME NEW r \in Runs, NEW e \in Events, pc[r] = "failing", IsNext(r, e),
             SetFailed(e), UNCHANGED sent
      PROVE  Holds(r, e) /\ Delivery!GiveUp(e)
  <2>1. Holds(r, e) /\ 0 < attempts[e]
    BY <1>4 DEF Inv, ClaimInv, TypeOK, IsNext, Holds, None
  <2> QED
    BY <1>4, <2>1 DEF SetFailed, Delivery!GiveUp
<1>5. ASSUME NEW r \in Runs, NEW e \in Events, Publish(r, e)
      PROVE  \E n \in 0 .. MaxAttempts - 1 : Delivery!Hand(e, n)
  <2>1. /\ copy[r][e] \in 0 .. MaxAttempts - 1
        /\ copy[r][e] < attempts[e]
        /\ sent[e][copy[r][e]] = 0
    <3>1. pc[r] = "publishing" /\ Holds(r, e)
      BY <1>5 DEF Publish, IsNext
    <3>2. copy[r][e] \in 0 .. MaxAttempts - 1 /\ copy[r][e] < attempts[e]
      BY <3>1 DEF Inv, TypeOK, ClaimInv, Holds, None
    <3> QED
      BY <3>1, <3>2 DEF Inv, SentInv, PastPublish
  <2>2. Delivery!Hand(e, copy[r][e])
    BY <1>5, <2>1 DEF Publish, Delivery!Hand, Inv, TypeOK
  <2> QED
    BY <2>1, <2>2
<1>6. ASSUME RequeueFailed PROVE \E batch \in SUBSET Events : Delivery!Reopen(batch)
  <2>1. Delivery!Reopen({e \in Events : status[e] = "FAILED"})
    BY <1>6 DEF RequeueFailed, RequeueRows, Delivery!Reopen
  <2> QED
    BY <2>1
<1>7. ASSUME RecoverProcessing PROVE \E batch \in SUBSET Events : Delivery!Reopen(batch)
  <2>1. Delivery!Reopen({e \in Events : status[e] = "PROCESSING" /\ age[e] = "stale"})
    BY <1>7 DEF RecoverProcessing, Delivery!Reopen
  <2> QED
    BY <2>1
<1>8. ASSUME NEW r \in Runs, RunStep(r)
      PROVE  \/ UNCHANGED << status, attempts, sent >>
             \/ pc[r] = "claiming" /\ Delivery!Claim(Batch(r))
             \/ \E e \in Events : Holds(r, e) /\ (Delivery!Settle(e) \/ Delivery!GiveUp(e))
             \/ \E e \in Events, n \in 0 .. MaxAttempts - 1 : Delivery!Hand(e, n)
  <2>1. CASE CommitClaim(r) \/ ClaimFails(r)
    BY <1>2, <2>1 DEF CommitClaim, ClaimFails
  <2>2. CASE \E e \in Events : MarkProcessed(r, e) \/ MarkProcessedFails(r, e)
    BY <1>3, <2>2 DEF MarkProcessed, MarkProcessedFails
  <2>3. CASE \E e \in Events : MarkFailed(r, e) \/ MarkFailedFails(r, e)
    BY <1>4, <2>3 DEF MarkFailed, MarkFailedFails
  <2>4. CASE \E e \in Events : Publish(r, e)
    BY <1>5, <2>4
  <2>5. CASE SelectPending(r) \/ Connect(r) \/ Connected(r) \/ ConnectFails(r)
             \/ PublishFails(r) \/ Drained(r)
    BY <2>5 DEF SelectPending, Connect, Connected, ConnectFails, PublishFails, Drained
  <2> QED
    BY <1>8, <2>1, <2>2, <2>3, <2>4, <2>5 DEF RunStep
<1>9. ASSUME NEW p \in Processes, ProcessStep(p) PROVE UNCHANGED << status, attempts, sent >>
  BY <1>9 DEF ProcessStep, ConnectionLost, BeginShutdown, ChannelClosed, Exit, Crash, Restart
<1>10. ASSUME \/ \E r \in Runs : Tick(r) \/ DispatchRequest(r)
              \/ \E e \in Events : Age(e)
              \/ \E m \in wire : Deliver(m)
       PROVE  UNCHANGED << status, attempts, sent >>
  BY <1>10 DEF Tick, DispatchRequest, Age, Deliver
<1> QED
  BY <1>1, <1>6, <1>7, <1>8, <1>9, <1>10 DEF Next

\* The outbox implements OutboxDelivery: every step is a step of the promise or
\* changes nothing it shows.
THEOREM Implementation == Spec => ImplementsDelivery
<1>1. Init => Delivery!Init
  BY DEF Init, Delivery!Init
<1>2. Inv /\ [Next]_vars => [Delivery!Next]_(Delivery!deliveryVars)
  <2>1. ASSUME Inv, Next PROVE Delivery!Next \/ UNCHANGED << status, attempts, sent >>
    <3>1. \A r \in Runs : Batch(r) \in SUBSET Events
      BY DEF Batch
    <3> QED
      BY <2>1, <3>1, StatusStep DEF Delivery!Next
  <2> QED
    BY <2>1 DEF vars, rowVars, Delivery!deliveryVars
<1> QED
  BY <1>1, <1>2, Invariance, PTL DEF Spec, ImplementsDelivery, Delivery!Spec

\* A settled event stays settled unless a run still holds it: requeue, recover and new claims leave PROCESSED rows alone.
THEOREM SettledStays == Spec => SettledIsFinal
<1>1. ASSUME Inv, Next, NEW e \in Events, status[e] = "PROCESSED",
             \A r \in Runs : ~Holds(r, e)
      PROVE  status'[e] = "PROCESSED"
  <2>1. ASSUME NEW batch \in SUBSET Events, Delivery!Reopen(batch) PROVE status'[e] = status[e]
    BY <1>1, <2>1 DEF Delivery!Reopen
  <2>2. ASSUME NEW r \in Runs, Delivery!Claim(Batch(r)) PROVE status'[e] = status[e]
    BY <1>1, <2>2 DEF Delivery!Claim, Batch
  <2>3. ASSUME NEW r \in Runs, NEW f \in Events, Holds(r, f),
               Delivery!Settle(f) \/ Delivery!GiveUp(f)
        PROVE  status'[e] = status[e]
    BY <1>1, <2>3 DEF Delivery!Settle, Delivery!GiveUp, Inv, TypeOK
  <2>4. ASSUME NEW f \in Events, Delivery!Insert(f) PROVE status'[e] = status[e]
    BY <1>1, <2>4 DEF Delivery!Insert, Inv, TypeOK
  <2>5. ASSUME NEW f \in Events, NEW n \in 0 .. MaxAttempts - 1, Delivery!Hand(f, n)
        PROVE  status'[e] = status[e]
    BY <2>5 DEF Delivery!Hand
  <2> QED
    BY <1>1, <2>1, <2>2, <2>3, <2>4, <2>5, StatusStep
<1>2. Inv /\ [Next]_vars =>
        [\A e \in Events :
           /\ status[e] = "PROCESSED"
           /\ \A r \in Runs : ~Holds(r, e)
           => status'[e] = "PROCESSED"]_vars
  BY <1>1 DEF vars, rowVars
<1> QED
  BY <1>2, Invariance, PTL DEF Spec, SettledIsFinal

-----------------------------------------------------------------------------
(* The re-entrancy flag.                                                   *)

\* A step raises the flag, ends one run, ends all runs of a process, or leaves
\* the flags alone and ends or begins no run of a worker.
LEMMA FlagStep ==
  ASSUME TypeOK, Next
  PROVE  \/ \E r \in Runs : Tick(r)
         \/ \E r \in Runs : pc[r] # "idle" /\ Return(r)
         \/ \E p \in Processes : Restart(p)
         \/ /\ UNCHANGED isRunning
            /\ \A s \in Runs : ProcOf[s] \in Workers => (pc'[s] = "idle" <=> pc[s] = "idle")
<1> USE DEF TypeOK, runVars
<1> DEFINE Alone == /\ UNCHANGED isRunning
                    /\ \A s \in Runs : ProcOf[s] \in Workers => (pc'[s] = "idle" <=> pc[s] = "idle")
<1>1. ASSUME NEW r \in Runs, DispatchRequest(r) PROVE Alone
  BY <1>1, ProcessAssumption DEF DispatchRequest, Goto
<1>2. ASSUME NEW r \in Runs, NEW step \in Steps \ {"idle"}, pc[r] # "idle", Goto(r, step)
      PROVE  Alone
  BY <1>2 DEF Goto
<1>3. ASSUME NEW r \in Runs, RunStep(r)
      PROVE  Alone \/ (pc[r] # "idle" /\ Return(r))
  <2>1. CASE SelectPending(r)
    BY <2>1 DEF SelectPending, EndRun
  <2>2. CASE CommitClaim(r) \/ Connect(r) \/ Connected(r) \/ ConnectFails(r) \/ PublishFails(r) \/ Drained(r)
    BY <2>2, <1>2 DEF CommitClaim, Connect, Connected, ConnectFails, PublishFails, Drained, Steps
  <2>3. CASE ClaimFails(r)
    BY <2>3 DEF ClaimFails, EndRun
  <2>4. ASSUME NEW e \in Events, Publish(r, e) PROVE Alone
    BY <2>4, <1>2 DEF Publish, Steps
  <2>5. ASSUME NEW e \in Events, MarkProcessed(r, e) \/ MarkFailed(r, e)
        PROVE  Alone \/ (pc[r] # "idle" /\ Return(r))
    BY <2>5 DEF MarkProcessed, MarkFailed, Advance
  <2>6. ASSUME NEW e \in Events, MarkProcessedFails(r, e) PROVE Alone
    BY <2>6, <1>2 DEF MarkProcessedFails, Steps
  <2>7. ASSUME NEW e \in Events, MarkFailedFails(r, e) PROVE pc[r] # "idle" /\ Return(r)
    BY <2>7 DEF MarkFailedFails, EndRun
  <2> QED
    BY <1>3, <2>1, <2>2, <2>3, <2>4, <2>5, <2>6, <2>7 DEF RunStep
<1>4. ASSUME NEW p \in Processes, ProcessStep(p)
      PROVE  Alone \/ Restart(p)
  BY <1>4 DEF ProcessStep, ConnectionLost, BeginShutdown, ChannelClosed, Hang, Exit, Crash
<1>5. CASE \/ \E e \in Events : Create(e) \/ Age(e)
           \/ RequeueFailed
           \/ RecoverProcessing
           \/ \E m \in wire : Deliver(m)
  BY <1>5 DEF Create, Age, RequeueFailed, RequeueRows, RecoverProcessing, Deliver
<1> QED
  BY <1>1, <1>3, <1>4, <1>5 DEF Next

\* A worker's flag is up exactly while one run of it is in flight, for any number
\* of runs, faults and restarts: ticks never overlap, and the flag of a run that
\* threw or died comes down again.
THEOREM FlagIsRight == Spec => []TickFlag
<1>1. Init => TickFlag
  BY DEF Init, TickFlag
<1>2. TypeOK /\ TickFlag /\ [Next]_vars => TickFlag'
  <2> SUFFICES ASSUME TypeOK, TickFlag, [Next]_vars, NEW w \in Workers
               PROVE  /\ isRunning'[w] <=> \E r \in Runs : ProcOf[r] = w /\ pc'[r] # "idle"
                      /\ \A r, s \in Runs : ProcOf[r] = w /\ pc'[r] # "idle"
                                          /\ ProcOf[s] = w /\ pc'[s] # "idle" => r = s
    BY DEF TickFlag
  <2> USE DEF TypeOK
  <2>0. /\ isRunning[w] <=> \E r \in Runs : ProcOf[r] = w /\ pc[r] # "idle"
        /\ \A r, s \in Runs : ProcOf[r] = w /\ pc[r] # "idle"
                            /\ ProcOf[s] = w /\ pc[s] # "idle" => r = s
    BY DEF TickFlag
  <2> DEFINE Goal ==
        /\ isRunning'[w] <=> \E r \in Runs : ProcOf[r] = w /\ pc'[r] # "idle"
        /\ \A r, s \in Runs : ProcOf[r] = w /\ pc'[r] # "idle"
                            /\ ProcOf[s] = w /\ pc'[s] # "idle" => r = s
  <2>1. ASSUME NEW r \in Runs, Tick(r) PROVE Goal
    BY <2>0, <2>1 DEF Tick
  <2>2. ASSUME NEW r \in Runs, pc[r] # "idle", Return(r) PROVE Goal
    BY <2>0, <2>2 DEF Return
  <2>3. ASSUME NEW p \in Processes, Restart(p) PROVE Goal
    BY <2>0, <2>3 DEF Restart
  <2>4. ASSUME /\ UNCHANGED isRunning
               /\ \A s \in Runs : ProcOf[s] \in Workers => (pc'[s] = "idle" <=> pc[s] = "idle")
        PROVE  Goal
    BY <2>0, <2>4
  <2>5. CASE UNCHANGED vars
    BY <2>4, <2>5 DEF vars, runVars
  <2> QED
    BY <2>1, <2>2, <2>3, <2>4, <2>5, FlagStep
<1> QED
  BY <1>1, <1>2, TypeCorrect, PTL DEF Spec
=============================================================================
