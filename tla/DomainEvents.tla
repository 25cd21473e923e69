---------------------------- MODULE DomainEvents ----------------------------
(***************************************************************************)
(* What the services promise about the events of the changes they make,    *)
(* without tables or statements: a change is announced in the outbox only  *)
(* once it is committed and at most once, the caller is answered only when *)
(* the announcement is stored, and the audit log only knows answered       *)
(* requests.  Nothing is promised about a request that stops half way.     *)
(***************************************************************************)
CONSTANT Requests

VARIABLES
  written,    \* requests whose change is committed
  announced,  \* requests whose event, with that change, is in the outbox
  answered,   \* requests answered with success
  audited     \* requests in the audit log

eventVars == << written, announced, answered, audited >>

Init ==
  /\ written = {}
  /\ announced = {}
  /\ answered = {}
  /\ audited = {}

\* the change alone: the event is the next statement
Write(r) ==
  /\ r \notin written
  /\ written' = written \cup {r}
  /\ UNCHANGED << announced, answered, audited >>

Announce(r) ==
  /\ r \in written \ announced
  /\ announced' = announced \cup {r}
  /\ UNCHANGED << written, answered, audited >>

\* the change and its events in one transaction
WriteAndAnnounce(r) ==
  /\ r \notin written \cup announced
  /\ written' = written \cup {r}
  /\ announced' = announced \cup {r}
  /\ UNCHANGED << answered, audited >>

Answer(r) ==
  /\ r \in announced \ answered
  /\ answered' = answered \cup {r}
  /\ UNCHANGED << written, announced, audited >>

\* the audit record is written after the answer, or never
Audit(r) ==
  /\ r \in answered \ audited
  /\ audited' = audited \cup {r}
  /\ UNCHANGED << written, announced, answered >>

Next == \E r \in Requests :
  Write(r) \/ Announce(r) \/ WriteAndAnnounce(r) \/ Answer(r) \/ Audit(r)

Spec == Init /\ [][Next]_eventVars
=============================================================================
