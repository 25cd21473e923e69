--------------------------- MODULE OutboxDelivery ---------------------------
(***************************************************************************)
(* What the outbox promises to whoever inserts an event, without runs,     *)
(* locks, channels or time: every claim spends one of MaxAttempts          *)
(* attempts, allows one copy of the event to be published, and an event is *)
(* settled as PROCESSED only after a copy of it was published.             *)
(***************************************************************************)
EXTENDS Naturals

CONSTANTS Events, MaxAttempts

VARIABLES
  status,    \* status of a row
  attempts,  \* claims of the row so far
  sent       \* copies published under each claim

deliveryVars == << status, attempts, sent >>

Init ==
  /\ status = [e \in Events |-> "NONE"]
  /\ attempts = [e \in Events |-> 0]
  /\ sent = [e \in Events |-> [a \in 0 .. MaxAttempts - 1 |-> 0]]

Insert(e) ==
  /\ status[e] = "NONE"
  /\ status' = [status EXCEPT ![e] = "PENDING"]
  /\ UNCHANGED << attempts, sent >>

\* a batch of waiting events is claimed; each spends an attempt
Claim(batch) ==
  /\ \A e \in batch : status[e] \in {"PENDING", "FAILED"} /\ attempts[e] < MaxAttempts
  /\ status' = [e \in Events |-> IF e \in batch THEN "PROCESSING" ELSE status[e]]
  /\ attempts' = [e \in Events |-> IF e \in batch THEN attempts[e] + 1 ELSE attempts[e]]
  /\ UNCHANGED sent

\* the copy that carries attempt number a is published, once
Hand(e, a) ==
  /\ a < attempts[e]
  /\ sent[e][a] = 0
  /\ sent' = [sent EXCEPT ![e][a] = 1]
  /\ UNCHANGED << status, attempts >>

Settle(e) ==
  /\ \E a \in 0 .. MaxAttempts - 1 : sent[e][a] = 1
  /\ status' = [status EXCEPT ![e] = "PROCESSED"]
  /\ UNCHANGED << attempts, sent >>

\* a claimed event is put back by the run that claimed it
GiveUp(e) ==
  /\ attempts[e] > 0
  /\ status' = [status EXCEPT ![e] = "FAILED"]
  /\ UNCHANGED << attempts, sent >>

\* an operator reopens failed or stalled events, never a settled one
Reopen(batch) ==
  /\ \A e \in batch : status[e] \in {"FAILED", "PROCESSING"}
  /\ status' = [e \in Events |-> IF e \in batch THEN "PENDING" ELSE status[e]]
  /\ UNCHANGED << attempts, sent >>

Next ==
  \/ \E e \in Events : Insert(e) \/ Settle(e) \/ GiveUp(e)
  \/ \E batch \in SUBSET Events : Claim(batch) \/ Reopen(batch)
  \/ \E e \in Events, a \in 0 .. MaxAttempts - 1 : Hand(e, a)

Spec == Init /\ [][Next]_deliveryVars
=============================================================================
