--------------------------- MODULE DeliveryWorker ---------------------------
(***************************************************************************)
(* The notification delivery worker                                        *)
(* (app/workers/notification_delivery_worker.py, app/notifications/        *)
(* sender.py): it reads a batch of pending deliveries, hands each to the   *)
(* push provider and commits the outcome.                                  *)
(*                                                                         *)
(* Nothing in the code keeps two worker processes apart: Worker is the set *)
(* of those that run, one in a normal deployment, two while one replaces   *)
(* the other.  A delivery is the number of its place in the order          *)
(* (created_at, id), in which batches are read.  Deliveries may become     *)
(* visible in another order, for created_at is taken before the commit.    *)
(***************************************************************************)
EXTENDS Naturals, FiniteSets

CONSTANTS
    Delivery,    \* the deliveries that may be queued
    Ios,         \* those whose platform is iOS
    Unsendable,  \* those that the provider's client always raises on
    Configured,  \* whether the APNs settings are there
    Worker,      \* the running worker processes
    BatchSize,   \* notification_delivery_batch_size
    MaxFaults    \* bound: how often each worker may crash or fail

ASSUME DeliveryAssumption == Delivery \subseteq Nat

ASSUME KindAssumption == Ios \subseteq Delivery /\ Unsendable \subseteq Delivery

ASSUME ConfiguredAssumption == Configured \in BOOLEAN

ASSUME BatchSizeAssumption == BatchSize \in Nat \ {0}

ASSUME MaxFaultsAssumption == MaxFaults \in Nat

Settled == {"sent", "failed", "skipped"}

Status == {"absent", "pending"} \cup Settled

VARIABLES
    status,     \* the status column of each delivery; "absent": no row yet
    pushes,     \* how often the provider accepted a delivery from a worker
    faults,     \* how often each worker has crashed or failed
    pc,         \* where each worker is
    batch,      \* the deliveries each worker has read and not yet settled
    outcome,    \* the outcome each worker is about to commit
    processed,  \* processed_count of each worker's batch
    lastRun     \* the newest row of worker_runs

vars == <<status, pushes, faults, pc, batch, outcome, processed, lastRun>>

TypeOK ==
    /\ status \in [Delivery -> Status]
    /\ pushes \in [Worker -> [Delivery -> Nat]]
    /\ faults \in [Worker -> 0 .. MaxFaults]
    /\ pc \in [Worker -> {"idle", "send", "mark"}]
    /\ batch \in [Worker -> SUBSET Delivery]
    /\ outcome \in [Worker -> Settled \cup {"none"}]
    /\ processed \in [Worker -> Nat]
    /\ lastRun \in [status : {"none", "success", "failed"}, count : Nat]

Init ==
    /\ status = [d \in Delivery |-> "absent"]
    /\ pushes = [w \in Worker |-> [d \in Delivery |-> 0]]
    /\ faults = [w \in Worker |-> 0]
    /\ pc = [w \in Worker |-> "idle"]
    /\ batch = [w \in Worker |-> {}]
    /\ outcome = [w \in Worker |-> "none"]
    /\ processed = [w \in Worker |-> 0]
    /\ lastRun = [status |-> "none", count |-> 0]

-----------------------------------------------------------------------------
Pending == {d \in Delivery : status[d] = "pending"}

\* Mutant of Batches: a failed delivery is read again.
BatchesWithFailed ==
    {{d} : d \in {e \in Delivery : status[e] \in {"pending", "failed"}}} \cup {{}}

\* The first `limit' pending deliveries in order.
Batches ==
    {b \in SUBSET Pending :
        /\ Cardinality(b) <= BatchSize
        /\ Cardinality(b) = BatchSize \/ b = Pending
        /\ \A d \in b, e \in Pending \ b : d < e}

\* The delivery a worker has come to in its batch.
At(w, d) == d \in batch[w] /\ \A e \in batch[w] : d <= e

\* The snapshot worker, or the API for a test push, commits a new delivery.
Enqueue(d) ==
    /\ status[d] = "absent"
    /\ status' = [status EXCEPT ![d] = "pending"]
    /\ UNCHANGED <<pushes, faults, pc, batch, outcome, processed, lastRun>>

ReadBatch(w) ==
    /\ pc[w] = "idle"
    /\ \E b \in Batches : batch' = [batch EXCEPT ![w] = b]
    /\ pc' = [pc EXCEPT ![w] = "send"]
    /\ processed' = [processed EXCEPT ![w] = 0]
    /\ UNCHANGED <<status, pushes, faults, outcome, lastRun>>

\* The worker has the outcome of the delivery it is at.
Resolve(w, result) ==
    /\ outcome' = [outcome EXCEPT ![w] = result]
    /\ pc' = [pc EXCEPT ![w] = "mark"]
    /\ UNCHANGED <<status, faults, batch, processed, lastRun>>

\* Mutant of Skip: the unsupported platform is passed over without a mark.
SkipWithoutMark(w) ==
    /\ pc[w] = "send"
    /\ \E d \in batch[w] \ Ios :
        /\ At(w, d)
        /\ batch' = [batch EXCEPT ![w] = @ \ {d}]
    /\ UNCHANGED <<status, pushes, faults, pc, outcome, processed, lastRun>>

\* Another platform, or no settings: skipped without a request.
Skip(w) ==
    /\ pc[w] = "send"
    /\ \E d \in Delivery : At(w, d) /\ (d \in Ios => ~ Configured)
    /\ Resolve(w, "skipped")
    /\ UNCHANGED pushes

Sendable(w, d) == pc[w] = "send" /\ At(w, d) /\ d \in Ios /\ Configured

ProviderAccepts(w, d) ==
    pushes' = [pushes EXCEPT ![w][d] = @ + 1]

Accepted(w) ==
    /\ \E d \in Delivery \ Unsendable : Sendable(w, d) /\ ProviderAccepts(w, d)
    /\ Resolve(w, "sent")

\* Mutant of Refused: the answer is not looked at.
RefusedTakenForSent(w) ==
    /\ \E d \in Delivery \ Unsendable : Sendable(w, d)
    /\ Resolve(w, "sent")
    /\ UNCHANGED pushes

\* The provider refuses it, or the variant has no bundle id.
Refused(w) ==
    /\ \E d \in Delivery \ Unsendable : Sendable(w, d)
    /\ Resolve(w, "failed")
    /\ UNCHANGED pushes

\* Mutants of Mark: a status set and not committed, a refusal put back in the
\* queue.
MarkAs(w, new(_)) ==
    /\ pc[w] = "mark"
    /\ \E d \in Delivery :
        /\ At(w, d)
        /\ status' = [status EXCEPT ![d] = new(@)]
        /\ batch' = [batch EXCEPT ![w] = @ \ {d}]
    /\ outcome' = [outcome EXCEPT ![w] = "none"]
    /\ processed' = [processed EXCEPT ![w] = @ + 1]
    /\ pc' = [pc EXCEPT ![w] = "send"]
    /\ UNCHANGED <<pushes, faults, lastRun>>

MarkUncommitted(w) == MarkAs(w, LAMBDA old : old)

MarkRequeuing(w) ==
    MarkAs(w, LAMBDA old : IF outcome[w] = "failed" THEN "pending" ELSE outcome[w])

\* The outcome is committed, over whatever status the row has by now.
Mark(w) ==
    /\ pc[w] = "mark"
    /\ \E d \in Delivery :
        /\ At(w, d)
        /\ status' = [status EXCEPT ![d] = outcome[w]]
        /\ batch' = [batch EXCEPT ![w] = @ \ {d}]
    /\ outcome' = [outcome EXCEPT ![w] = "none"]
    /\ processed' = [processed EXCEPT ![w] = @ + 1]
    /\ pc' = [pc EXCEPT ![w] = "send"]
    /\ UNCHANGED <<pushes, faults, lastRun>>

LeaveBatch(w) ==
    /\ pc' = [pc EXCEPT ![w] = "idle"]
    /\ batch' = [batch EXCEPT ![w] = {}]
    /\ outcome' = [outcome EXCEPT ![w] = "none"]
    /\ processed' = [processed EXCEPT ![w] = 0]

FinishBatch(w) ==
    /\ pc[w] = "send" /\ batch[w] = {}
    /\ LeaveBatch(w)
    /\ lastRun' = [status |-> "success", count |-> processed[w]]
    /\ UNCHANGED <<status, pushes, faults>>

-----------------------------------------------------------------------------
\* Mutant of Abort: the exception is swallowed and the delivery marked.
AbortSwallowed(w) ==
    /\ pc' = [pc EXCEPT ![w] = "mark"]
    /\ UNCHANGED <<status, batch, outcome, processed, lastRun>>

\* An exception leaves the loop over the batch: the rest is not attempted.
Abort(w) ==
    /\ LeaveBatch(w)
    /\ lastRun' = [status |-> "failed", count |-> 0]
    /\ UNCHANGED status

\* The request cannot even be made, whenever it is tried.
SendRaises(w) ==
    /\ \E d \in Unsendable : Sendable(w, d)
    /\ Abort(w)
    /\ UNCHANGED <<pushes, faults>>

Fault(w) ==
    /\ faults[w] < MaxFaults
    /\ faults' = [faults EXCEPT ![w] = @ + 1]

\* The request times out, whether or not the provider has accepted it.
SendTimesOut(w) ==
    /\ \E d \in Delivery \ Unsendable :
        Sendable(w, d) /\ (ProviderAccepts(w, d) \/ UNCHANGED pushes)
    /\ Fault(w)
    /\ Abort(w)

\* Another error of the database, at a read or at a commit.
WorkerError(w) ==
    /\ pc[w] # "idle"
    /\ Fault(w)
    /\ Abort(w)
    /\ UNCHANGED pushes

\* The process is killed, or cannot even record its run.
WorkerCrash(w) ==
    /\ pc[w] # "idle"
    /\ Fault(w)
    /\ LeaveBatch(w)
    /\ UNCHANGED <<status, pushes, lastRun>>

-----------------------------------------------------------------------------
\* What a running worker does by itself.
Work(w) ==
    \/ ReadBatch(w)
    \/ Skip(w)
    \/ Accepted(w)
    \/ Refused(w)
    \/ Mark(w)
    \/ FinishBatch(w)
    \/ SendRaises(w)

Fail(w) == SendTimesOut(w) \/ WorkerError(w) \/ WorkerCrash(w)

Next ==
    \/ \E d \in Delivery : Enqueue(d)
    \/ \E w \in Worker : Work(w) \/ Fail(w)

Spec == Init /\ [][Next]_vars

\* A worker loops for ever: it goes on from every await and polls again.
Fairness == \A w \in Worker : WF_vars(Work(w))

FairSpec == Spec /\ Fairness

-----------------------------------------------------------------------------
\* A worker has the provider accept a delivery twice only if it has crashed,
\* failed or timed out in between: rereading the queue never repeats a push.
DuplicatesOnlyFromFaults ==
    \A w \in Worker : \A d \in Delivery : pushes[w][d] <= 1 + faults[w]

\* A delivery marked sent has been accepted by the provider, whichever worker
\* marked it, and whatever became of the others that read it.
SentWasPushed ==
    \A d \in Delivery :
        status[d] = "sent" => \E w \in Worker : pushes[w][d] > 0

\* A settled delivery is never queued again, and the only worker never
\* changes the status it gave it: a poll of a test push sees one answer.
SettledIsFinal ==
    [][\A d \in Delivery :
        status[d] \in Settled =>
            /\ status'[d] \in Settled
            /\ (\A v, w \in Worker : v = w) => status'[d] = status[d]]_vars

\* Every delivery queued is settled in the end, whatever is queued before or
\* after it: the README has a client poll until it is sent, failed or skipped.
EveryDeliverySettles ==
    \A d \in Delivery : status[d] = "pending" ~> status[d] \in Settled

\* Implementation of the abstract queue by a single worker.
Handed == {d \in Delivery : \E w \in Worker : pushes[w][d] > 0}

Queue == INSTANCE PushQueue WITH
            Pushable <- IF Configured THEN Ios \ Unsendable ELSE {},
            accepted <- Handed

\* The worker, through any crash, timeout or error, is a queue as promised:
\* no push of a delivery that has settled, no second outcome, none "sent"
\* without a push, none "skipped" after one.
ImplementsQueue == Queue!Spec
=============================================================================
