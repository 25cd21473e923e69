------------------------------- MODULE Outbox -------------------------------
(***************************************************************************)
(* The platform outbox: rows of platform.outbox_events, the dispatch runs  *)
(* that claim and publish them, the AMQP channel every process caches, and *)
(* the operator's requeue and recover endpoints.                           *)
(*                                                                         *)
(* A dispatch run is one call of OutboxDispatcherService.dispatchOnce.     *)
(* A worker process (main.jobs.ts) starts runs from its timer, one at a    *)
(* time; the API process starts one per POST dispatch-once, as many as it  *)
(* is asked for.  Every await of a run is a point where other runs,        *)
(* operators and faults may step in, so every database or broker call is   *)
(* an action of its own.                                                   *)
(*                                                                         *)
(* Event ids are numbered in the order of created_at.  Rows become visible *)
(* in any order, since created_at is the start of the inserting            *)
(* transaction.                                                            *)
(***************************************************************************)
EXTENDS Integers, FiniteSets

CONSTANTS
  Events,       \* ids of outbox rows, ordered by created_at
  Workers,      \* processes running main.jobs.ts with the publisher enabled
  Api,          \* the process running main.ts
  Runs,         \* slots for calls of dispatchOnce
  ProcOf,       \* the process a run belongs to
  BatchSize,    \* OUTBOX_BATCH_SIZE
  MaxAttempts,  \* OUTBOX_MAX_ATTEMPTS
  MaxFaults,    \* bound on crashes, shutdowns, lost connections, failed calls
  NoRun         \* the owner of an unlocked row

Processes == Workers \union {Api}

ASSUME EventsAssumption == Events \subseteq Nat /\ IsFiniteSet(Events)
ASSUME ProcessAssumption == Api \notin Workers /\ ProcOf \in [Runs -> Processes]
ASSUME NoRunAssumption == NoRun \notin Runs
ASSUME LimitAssumption ==
  BatchSize \in Nat \ {0} /\ MaxAttempts \in Nat \ {0} /\ MaxFaults \in Nat

VARIABLES
  \* the table
  status,     \* status of a row, "NONE" before it is inserted
  attempts,   \* how many times the row was claimed
  age,        \* available_at against now: ahead, passed, passed long ago
  lock,       \* the run whose open transaction locks the row
  \* the runs, in the memory of their processes
  pc,         \* the call a run is waiting for
  copy,       \* attempts as read by the claim, for each event still to handle
  isRunning,  \* the worker's re-entrancy flag
  \* the publisher of each process, and the broker
  chan,       \* the cached channel
  stopping,   \* the process runs its shutdown hooks
  wire,       \* messages written to a connection, not yet at the broker
  delivered,  \* messages the exchange received
  \* history
  sent,       \* how many times each copy of an event was handed to a channel
  recovered,  \* events an operator ever recovered from PROCESSING
  faults      \* faults so far

rowVars   == << status, attempts, age >>
runVars   == << pc, copy, isRunning >>
pubVars   == << chan, stopping, wire, delivered >>
vars == << rowVars, lock, runVars, pubVars, sent, recovered, faults >>

None == -1
Statuses == {"NONE", "PENDING", "PROCESSING", "PROCESSED", "FAILED"}
Ages     == {"later", "due", "stale"}
Steps    == {"idle", "selecting", "claiming", "publishing", "connecting",
             "draining", "hung", "marking", "failing"}
Channels == {"none", "open", "closing", "dead"}
Message  == [proc : Processes, id : Events, attempts : 0 .. MaxAttempts - 1]

TypeOK ==
  /\ status \in [Events -> Statuses]
  /\ attempts \in [Events -> 0 .. MaxAttempts]
  /\ age \in [Events -> Ages]
  /\ lock \in [Events -> Runs \union {NoRun}]
  /\ pc \in [Runs -> Steps]
  /\ copy \in [Runs -> [Events -> -1 .. MaxAttempts - 1]]
  /\ isRunning \in [Workers -> BOOLEAN]
  /\ chan \in [Processes -> Channels]
  /\ stopping \in [Processes -> BOOLEAN]
  /\ wire \subseteq Message
  /\ delivered \subseteq Events
  /\ sent \in [Events -> [0 .. MaxAttempts - 1 -> Nat]]
  /\ recovered \subseteq Events
  /\ faults \in 0 .. MaxFaults

Init ==
  /\ status = [e \in Events |-> "NONE"]
  /\ attempts = [e \in Events |-> 0]
  /\ age = [e \in Events |-> "due"]
  /\ lock = [e \in Events |-> NoRun]
  /\ pc = [r \in Runs |-> "idle"]
  /\ copy = [r \in Runs |-> [e \in Events |-> None]]
  /\ isRunning = [w \in Workers |-> FALSE]
  /\ chan = [p \in Processes |-> "none"]
  /\ stopping = [p \in Processes |-> FALSE]
  /\ wire = {}
  /\ delivered = {}
  /\ sent = [e \in Events |-> [a \in 0 .. MaxAttempts - 1 |-> 0]]
  /\ recovered = {}
  /\ faults = 0

-----------------------------------------------------------------------------
(* Helpers.                                                                *)

Holds(r, e) == copy[r][e] # None
Batch(r)    == {e \in Events : Holds(r, e)}

\* the event the dispatch loop is at: the batch is ordered by created_at
IsNext(r, e) == Holds(r, e) /\ \A f \in Events : Holds(r, f) => e <= f

Unlocked(e) == lock[e] = NoRun

\* rows whose lock the transaction of run r holds are released
Release(r) == lock' = [e \in Events |-> IF lock[e] = r THEN NoRun ELSE lock[e]]

\* dispatchOnce returns or throws; the worker's finally clears the flag
Return(r) ==
  /\ pc' = [pc EXCEPT ![r] = "idle"]
  /\ isRunning' = [w \in Workers |-> isRunning[w] /\ w # ProcOf[r]]

\* the run ends, whatever is left of its batch
EndRun(r) ==
  /\ copy' = [copy EXCEPT ![r] = [e \in Events |-> None]]
  /\ Return(r)

\* (variant: the loop returns after its first event)
AdvanceReturns(r, e) == EndRun(r)

\* event e of the batch is done: go on with the next one, if any
Advance(r, e) ==
  /\ copy' = [copy EXCEPT ![r][e] = None]
  /\ \/ /\ \E f \in Events \ {e} : Holds(r, f)
        /\ pc' = [pc EXCEPT ![r] = "publishing"]
        /\ UNCHANGED isRunning
     \/ /\ ~ \E f \in Events \ {e} : Holds(r, f)
        /\ Return(r)

Goto(r, step) == pc' = [pc EXCEPT ![r] = step] /\ UNCHANGED << copy, isRunning >>

Fault == faults < MaxFaults /\ faults' = faults + 1
NoFault == UNCHANGED faults

-----------------------------------------------------------------------------
(* OutboxRepository.create: the row appears when its transaction commits.  *)

Create(e) ==
  /\ status[e] = "NONE"
  /\ status' = [status EXCEPT ![e] = "PENDING"]
  /\ UNCHANGED << attempts, age, lock, runVars, pubVars, sent, recovered, faults >>

-----------------------------------------------------------------------------
(* Starting a run.                                                         *)

\* (variant: no re-entrancy guard)
TickReentrant(r) ==
  /\ ProcOf[r] \in Workers
  /\ ~stopping[ProcOf[r]]
  /\ pc[r] = "idle"
  /\ isRunning' = [isRunning EXCEPT ![ProcOf[r]] = TRUE]
  /\ pc' = [pc EXCEPT ![r] = "selecting"]
  /\ UNCHANGED << rowVars, lock, copy, pubVars, sent, recovered, faults >>

Tick(r) ==
  /\ ProcOf[r] \in Workers
  /\ ~stopping[ProcOf[r]]
  /\ ~isRunning[ProcOf[r]]
  /\ pc[r] = "idle"
  /\ isRunning' = [isRunning EXCEPT ![ProcOf[r]] = TRUE]
  /\ pc' = [pc EXCEPT ![r] = "selecting"]
  /\ UNCHANGED << rowVars, lock, copy, pubVars, sent, recovered, faults >>

DispatchRequest(r) ==
  /\ ProcOf[r] = Api
  /\ ~stopping[Api]
  /\ pc[r] = "idle"
  /\ Goto(r, "selecting")
  /\ UNCHANGED << rowVars, lock, pubVars, sent, recovered, faults >>

-----------------------------------------------------------------------------
(* OutboxRepository.claimPending.                                          *)

\* (variants: an off-by-one, no retries, PROCESSING rows taken over)
ClaimableOnceMore(e) ==
  status[e] \in {"PENDING", "FAILED"} /\ attempts[e] <= MaxAttempts /\ age[e] # "later"
ClaimablePending(e) ==
  status[e] = "PENDING" /\ attempts[e] < MaxAttempts /\ age[e] # "later"
ClaimableTakeover(e) ==
  /\ status[e] \in {"PENDING", "FAILED", "PROCESSING"}
  /\ attempts[e] < MaxAttempts
  /\ age[e] # "later"

Claimable(e) ==
  /\ status[e] \in {"PENDING", "FAILED"}
  /\ attempts[e] < MaxAttempts
  /\ age[e] # "later"

\* (variant: a plain select)
SelectableUnlocked(e) == Claimable(e)

\* for update skip locked
Selectable(e) == Claimable(e) /\ Unlocked(e)

\* order by created_at asc limit BatchSize
Oldest(S) == {e \in S : Cardinality({f \in S : f < e}) < BatchSize}

SelectPending(r) ==
  LET rows == Oldest({e \in Events : Selectable(e)}) IN
  /\ pc[r] = "selecting"
  /\ \/ /\ rows = {}
        /\ EndRun(r)
        /\ UNCHANGED lock
     \/ /\ rows # {}
        /\ lock' = [e \in Events |-> IF e \in rows THEN r ELSE lock[e]]
        /\ copy' = [copy EXCEPT ![r] =
                      [e \in Events |-> IF e \in rows THEN attempts[e] ELSE None]]
        /\ pc' = [pc EXCEPT ![r] = "claiming"]
        /\ UNCHANGED isRunning
  /\ UNCHANGED << rowVars, pubVars, sent, recovered, faults >>

\* the update of the claim, for the rows of the batch
ClaimRows(r) ==
  /\ status' = [e \in Events |-> IF Holds(r, e) THEN "PROCESSING" ELSE status[e]]
  /\ attempts' = [e \in Events |-> IF Holds(r, e) THEN attempts[e] + 1 ELSE attempts[e]]
  /\ age' = [e \in Events |-> IF Holds(r, e) THEN "due" ELSE age[e]]

CommitClaim(r) ==
  /\ pc[r] = "claiming"
  /\ ClaimRows(r)
  /\ Release(r)
  /\ Goto(r, "publishing")
  /\ UNCHANGED << pubVars, sent, recovered, faults >>

\* A call of the transaction fails and dispatchOnce throws.  The transaction
\* is rolled back, or its commit took effect and only the answer was lost.
ClaimFails(r) ==
  /\ pc[r] \in {"selecting", "claiming"}
  /\ Fault
  /\ \/ UNCHANGED rowVars
     \/ pc[r] = "claiming" /\ ClaimRows(r)
  /\ Release(r)
  /\ EndRun(r)
  /\ UNCHANGED << pubVars, sent, recovered >>

-----------------------------------------------------------------------------
(* OutboxRabbitmqPublisher.publish and getChannel.                         *)

Connect(r) ==
  /\ pc[r] = "publishing"
  /\ chan[ProcOf[r]] = "none"
  /\ Goto(r, "connecting")
  /\ UNCHANGED << rowVars, lock, pubVars, sent, recovered, faults >>

Connected(r) ==
  /\ pc[r] = "connecting"
  /\ chan' = [chan EXCEPT ![ProcOf[r]] = "open"]
  /\ Goto(r, "publishing")
  /\ UNCHANGED << rowVars, lock, stopping, wire, delivered, sent, recovered, faults >>

\* connect or createChannel fails, or assertExchange does: the channel is then
\* already cached, and closed by the broker
ConnectFails(r) ==
  /\ pc[r] = "connecting"
  /\ Fault
  /\ \/ UNCHANGED chan
     \/ chan' = [chan EXCEPT ![ProcOf[r]] = "dead"]
  /\ Goto(r, "failing")
  /\ UNCHANGED << rowVars, lock, stopping, wire, delivered, sent, recovered >>

\* channel.publish buffers the message; a full buffer makes the run wait for
\* the drain event
Publish(r, e) ==
  /\ pc[r] = "publishing"
  /\ chan[ProcOf[r]] = "open"
  /\ IsNext(r, e)
  /\ sent' = [sent EXCEPT ![e][copy[r][e]] = @ + 1]
  /\ wire' = wire \union {[proc |-> ProcOf[r], id |-> e, attempts |-> copy[r][e]]}
  /\ \E step \in {"marking", "draining"} : Goto(r, step)
  /\ UNCHANGED << rowVars, lock, chan, stopping, delivered, recovered, faults >>

\* channel.publish throws on a closed channel
PublishFails(r) ==
  /\ pc[r] = "publishing"
  /\ chan[ProcOf[r]] \in {"closing", "dead"}
  /\ Goto(r, "failing")
  /\ UNCHANGED << rowVars, lock, pubVars, sent, recovered, faults >>

Drained(r) ==
  /\ pc[r] = "draining"
  /\ Goto(r, "marking")
  /\ UNCHANGED << rowVars, lock, pubVars, sent, recovered, faults >>

-----------------------------------------------------------------------------
(* The rest of the dispatch loop: markProcessed, or markFailed in the      *)
(* catch.  Both update by id alone, and wait for the row's lock.           *)

SetProcessed(e) ==
  /\ Unlocked(e)
  /\ status' = [status EXCEPT ![e] = "PROCESSED"]
  /\ UNCHANGED << attempts, age >>

SetFailed(e) ==
  /\ Unlocked(e)
  /\ status' = [status EXCEPT ![e] = "FAILED"]
  /\ age' = [age EXCEPT ![e] = "later"]
  /\ UNCHANGED attempts

MarkProcessed(r, e) ==
  /\ pc[r] = "marking"
  /\ IsNext(r, e)
  /\ SetProcessed(e)
  /\ Advance(r, e)
  /\ UNCHANGED << lock, pubVars, sent, recovered, faults >>

\* markProcessed throws, with or without effect: the catch goes on to markFailed
MarkProcessedFails(r, e) ==
  /\ pc[r] = "marking"
  /\ IsNext(r, e)
  /\ Fault
  /\ UNCHANGED rowVars \/ SetProcessed(e)
  /\ Goto(r, "failing")
  /\ UNCHANGED << lock, pubVars, sent, recovered >>

MarkFailed(r, e) ==
  /\ pc[r] = "failing"
  /\ IsNext(r, e)
  /\ SetFailed(e)
  /\ Advance(r, e)
  /\ UNCHANGED << lock, pubVars, sent, recovered, faults >>

\* markFailed throws out of the loop: the rest of the batch is abandoned
MarkFailedFails(r, e) ==
  /\ pc[r] = "failing"
  /\ IsNext(r, e)
  /\ Fault
  /\ UNCHANGED rowVars \/ SetFailed(e)
  /\ EndRun(r)
  /\ UNCHANGED << lock, pubVars, sent, recovered >>

-----------------------------------------------------------------------------
(* Operator endpoints.  An update statement waits for the locked rows it   *)
(* matches.                                                                *)

RequeueRows(rows) ==
  /\ rows # {}
  /\ \A e \in rows : Unlocked(e)
  /\ status' = [e \in Events |-> IF e \in rows THEN "PENDING" ELSE status[e]]
  /\ age' = [e \in Events |-> IF e \in rows THEN "due" ELSE age[e]]
  /\ UNCHANGED << lock, runVars, pubVars, sent, recovered, faults >>

\* (variants: requeueing gives new attempts, or takes PROCESSED rows too)
RequeueWithReset ==
  LET rows == {e \in Events : status[e] = "FAILED"} IN
  /\ RequeueRows(rows)
  /\ attempts' = [e \in Events |-> IF e \in rows THEN 0 ELSE attempts[e]]
RequeueEverything ==
  /\ RequeueRows({e \in Events : status[e] \in {"FAILED", "PROCESSED"}})
  /\ UNCHANGED attempts

RequeueFailed ==
  /\ RequeueRows({e \in Events : status[e] = "FAILED"})
  /\ UNCHANGED attempts

RecoverProcessing ==
  LET rows == {e \in Events : status[e] = "PROCESSING" /\ age[e] = "stale"} IN
  /\ rows # {}
  /\ status' = [e \in Events |-> IF e \in rows THEN "PENDING" ELSE status[e]]
  /\ age' = [e \in Events |-> IF e \in rows THEN "due" ELSE age[e]]
  /\ recovered' = recovered \union rows
  /\ UNCHANGED << attempts, lock, runVars, pubVars, sent, faults >>

\* Time passes: the retry delay of a FAILED row ends, a PROCESSING row gets
\* older than the threshold of a recover request.  Other rows' ages are never read.
Age(e) ==
  /\ \/ /\ status[e] = "FAILED" /\ age[e] = "later"
        /\ age' = [age EXCEPT ![e] = "due"]
     \/ /\ status[e] = "PROCESSING" /\ age[e] = "due"
        /\ age' = [age EXCEPT ![e] = "stale"]
  /\ UNCHANGED << status, attempts, lock, runVars, pubVars, sent, recovered, faults >>

-----------------------------------------------------------------------------
(* The broker and the life of a process.                                   *)

Deliver(m) ==
  /\ m \in wire
  /\ wire' = wire \ {m}
  /\ delivered' = delivered \union {m.id}
  /\ UNCHANGED << rowVars, lock, runVars, chan, stopping, sent, recovered, faults >>

WireOf(p) == {m \in wire : m.proc = p}

\* runs of p that wait for a drain event which will never come
Hang(p) ==
  pc' = [r \in Runs |-> IF ProcOf[r] = p /\ pc[r] = "draining" THEN "hung" ELSE pc[r]]

\* The connection closes under the publisher, with what it still buffers.  The
\* publisher has no close handler: the closed channel stays cached.
ConnectionLost(p) ==
  /\ chan[p] \in {"open", "closing"}
  /\ Fault
  /\ chan' = [chan EXCEPT ![p] = "dead"]
  /\ wire' = wire \ WireOf(p)
  /\ Hang(p)
  /\ UNCHANGED << rowVars, lock, copy, isRunning, stopping, delivered, sent, recovered >>

\* SIGTERM: the shutdown hooks clear the timer and close the channel; runs in
\* flight go on
BeginShutdown(p) ==
  /\ ~stopping[p]
  /\ Fault
  /\ stopping' = [stopping EXCEPT ![p] = TRUE]
  /\ chan' = [chan EXCEPT ![p] = IF @ = "open" THEN "closing" ELSE @]
  /\ UNCHANGED << rowVars, lock, runVars, wire, delivered, sent, recovered >>

\* the close handshake flushes the channel; a later publish opens a new one
ChannelClosed(p) ==
  /\ chan[p] = "closing"
  /\ chan' = [chan EXCEPT ![p] = "none"]
  /\ wire' = wire \ WireOf(p)
  /\ delivered' = delivered \union {m.id : m \in WireOf(p)}
  /\ Hang(p)
  /\ UNCHANGED << rowVars, lock, copy, isRunning, stopping, sent, recovered, faults >>

\* The process ends, its transactions roll back, and a new one starts.
Restart(p) ==
  /\ pc' = [r \in Runs |-> IF ProcOf[r] = p THEN "idle" ELSE pc[r]]
  /\ copy' = [r \in Runs |-> IF ProcOf[r] = p THEN [e \in Events |-> None] ELSE copy[r]]
  /\ isRunning' = [w \in Workers |-> isRunning[w] /\ w # p]
  /\ lock' = [e \in Events |-> IF lock[e] \in Runs /\ ProcOf[lock[e]] = p
                                 THEN NoRun ELSE lock[e]]
  /\ chan' = [chan EXCEPT ![p] = "none"]
  /\ stopping' = [stopping EXCEPT ![p] = FALSE]
  /\ wire' = wire \ WireOf(p)
  /\ UNCHANGED << rowVars, delivered, sent, recovered >>

Exit(p) == stopping[p] /\ chan[p] # "closing" /\ Restart(p) /\ NoFault

Crash(p) == Fault /\ Restart(p)

-----------------------------------------------------------------------------
RunStep(r) ==
  \/ SelectPending(r)
  \/ CommitClaim(r)
  \/ ClaimFails(r)
  \/ Connect(r)
  \/ Connected(r)
  \/ ConnectFails(r)
  \/ \E e \in Events : Publish(r, e)
  \/ PublishFails(r)
  \/ Drained(r)
  \/ \E e \in Events : MarkProcessed(r, e)
  \/ \E e \in Events : MarkProcessedFails(r, e)
  \/ \E e \in Events : MarkFailed(r, e)
  \/ \E e \in Events : MarkFailedFails(r, e)

ProcessStep(p) ==
  \/ ConnectionLost(p)
  \/ BeginShutdown(p)
  \/ ChannelClosed(p)
  \/ Exit(p)
  \/ Crash(p)

Next ==
  \/ \E e \in Events : Create(e)
  \/ \E r \in Runs : Tick(r)
  \/ \E r \in Runs : DispatchRequest(r)
  \/ \E r \in Runs : RunStep(r)
  \/ RequeueFailed
  \/ RecoverProcessing
  \/ \E e \in Events : Age(e)
  \/ \E m \in wire : Deliver(m)
  \/ \E p \in Processes : ProcessStep(p)

Spec == Init /\ [][Next]_vars

-----------------------------------------------------------------------------
(* Fairness: awaited calls return, the interval timer keeps firing, time   *)
(* passes, a reachable broker receives what was written.  Nothing is       *)
(* assumed of operators, requests or faults.                               *)

RunProgress(r) ==
  \/ SelectPending(r)
  \/ CommitClaim(r)
  \/ Connect(r)
  \/ Connected(r)
  \/ \E e \in Events : Publish(r, e)
  \/ PublishFails(r)
  \/ Drained(r)
  \/ \E e \in Events : MarkProcessed(r, e)
  \/ \E e \in Events : MarkFailed(r, e)

Fairness ==
  /\ \A w \in Workers : WF_vars(\E r \in Runs : ProcOf[r] = w /\ Tick(r))
  /\ \A r \in Runs : WF_vars(RunProgress(r))
  /\ \A e \in Events : WF_vars(Age(e))
  /\ \A p \in Processes : WF_vars(ChannelClosed(p)) /\ WF_vars(Exit(p))
  /\ \A e \in Events : WF_vars(\E m \in wire : m.id = e /\ Deliver(m))

FairSpec == Spec /\ Fairness

-----------------------------------------------------------------------------
(* Safety.                                                                 *)

\* Two runs never hold the same claim of an event: for update skip locked and
\* the increment in the same transaction give every claim a number of its own,
\* even when an operator recovers a row whose run is still alive.
OneHolderPerAttempt ==
  \A r, s \in Runs : r # s =>
    \A e \in Events : Holds(r, e) => copy[r][e] # copy[s][e]

\* A copy of an event with a given attempts field is handed to RabbitMQ at most
\* once, whatever crashes, failed updates or recoveries happen: a consumer may
\* tell redeliveries of the broker from retries of the outbox by that field.
OnePublishPerAttempt ==
  \A e \in Events : \A n \in 0 .. MaxAttempts - 1 :
    /\ sent[e][n] <= 1
    /\ sent[e][n] = 1 => n < attempts[e]

\* As long as no operator recovered it, an event is in the hands of one run at
\* a time: retries never overlap with the run that claimed the event before.
ExclusiveHolder ==
  \A e \in Events \ recovered :
    \A r, s \in Runs : Holds(r, e) /\ Holds(s, e) => r = s

\* A row is PROCESSED only if a copy of the event was handed to a channel.
ProcessedWasPublished ==
  \A e \in Events :
    status[e] = "PROCESSED" => \E n \in 0 .. MaxAttempts - 1 : sent[e][n] = 1

\* The re-entrancy flag of a worker is up exactly while one run of it is in
\* flight, so ticks never overlap and a failed tick does not stop the timer.
TickFlag ==
  \A w \in Workers :
    LET active == {r \in Runs : ProcOf[r] = w /\ pc[r] # "idle"} IN
    /\ isRunning[w] <=> active # {}
    /\ \A r, s \in active : r = s

\* A PROCESSED row that no run holds is final: neither a claim, a requeue nor a
\* recovery touches it.  (A run that still holds it may turn it back to FAILED.)
SettledIsFinal ==
  [][\A e \in Events :
       /\ status[e] = "PROCESSED"
       /\ \A r \in Runs : ~Holds(r, e)
       => status'[e] = "PROCESSED"]_vars

Delivery == INSTANCE OutboxDelivery WITH
  Events <- Events, MaxAttempts <- MaxAttempts,
  status <- status, attempts <- attempts, sent <- sent

\* The outbox keeps the promises of OutboxDelivery.
ImplementsDelivery == Delivery!Spec

-----------------------------------------------------------------------------
(* Liveness.                                                               *)

Exhausted(e) == attempts[e] = MaxAttempts
Stranded(e)  ==
  status[e] = "PROCESSING" /\ \A r \in Runs : Holds(r, e) => pc[r] = "hung"
Hung(w)      == \E r \in Runs : ProcOf[r] = w /\ pc[r] = "hung"

\* Whatever fails, an inserted event ends as PROCESSED, or with all its attempts
\* spent, or stranded in PROCESSING by a run that died or hangs, or behind a hung
\* worker.
EventSettles ==
  \A e \in Events :
    status[e] = "PENDING"
      ~> \/ status[e] = "PROCESSED" \/ Exhausted(e) \/ Stranded(e)
         \/ \A w \in Workers : Hung(w)

\* Without faults every inserted event reaches the exchange.
EventIsDelivered ==
  [](faults = 0) => \A e \in Events : status[e] = "PENDING" ~> e \in delivered

\* docs/06-operations/async-runtime-and-diagnostics.md:20 makes the jobs process
\* responsible for recovering rows stalled in processing.
StrandedIsRecovered ==
  \A e \in Events : Stranded(e) ~> ~Stranded(e)
=============================================================================
