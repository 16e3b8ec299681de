------------------------ MODULE DeliveryWorkerProofs ------------------------
(***************************************************************************)
(* The safety properties of the delivery worker, proved for any number of  *)
(* deliveries and workers, any batch size and any number of faults.        *)
(***************************************************************************)
EXTENDS DeliveryWorker, TLAPS

\* A worker about to commit an outcome has one, and has come to a delivery.
Decided ==
    \A w \in Worker :
        /\ pc[w] = "mark" => outcome[w] \in Settled
        /\ pc[w] = "idle" => batch[w] = {}

\* The provider has accepted what a worker is about to mark sent.
SentIsPushed ==
    \A w \in Worker : \A d \in Delivery :
        pc[w] = "mark" /\ At(w, d) /\ outcome[w] = "sent" => pushes[w][d] > 0

\* What is still in the queue, or in a worker's batch and not yet sent from
\* there, has been accepted from that worker at most once for each fault.
OwedPushes ==
    \A w \in Worker : \A d \in Delivery :
        /\ d \in batch[w] \/ status[d] \notin Settled
        /\ ~ (pc[w] = "mark" /\ At(w, d))
        => pushes[w][d] <= faults[w]

\* The only worker holds deliveries that are still pending.
SoleReader ==
    (\A v, w \in Worker : v = w) => \A w \in Worker : batch[w] \subseteq Pending

IInv ==
    /\ TypeOK
    /\ Decided
    /\ SentIsPushed
    /\ SentWasPushed
    /\ OwedPushes
    /\ DuplicatesOnlyFromFaults
    /\ SoleReader

-----------------------------------------------------------------------------
\* A worker is at one delivery of its batch only.
LEMMA AtUnique ==
    ASSUME TypeOK, NEW w \in Worker, NEW d \in Delivery, NEW e \in Delivery,
           At(w, d), At(w, e)
    PROVE  d = e
BY DeliveryAssumption DEF At, TypeOK

\* The empty queue, with every worker idle, satisfies the invariant.
LEMMA InitHolds == Init => IInv
<1> SUFFICES ASSUME Init PROVE IInv
  OBVIOUS
<1>1. TypeOK
  BY MaxFaultsAssumption DEF Init, TypeOK, Status, Settled
<1>2. QED
  BY <1>1, MaxFaultsAssumption
  DEF Init, IInv, Decided, SentIsPushed, SentWasPushed, OwedPushes,
      DuplicatesOnlyFromFaults, SoleReader, Settled, Pending

\* Queueing a delivery disturbs only what is said of pending deliveries.
LEMMA EnqueueStep ==
    ASSUME IInv, NEW d \in Delivery, Enqueue(d)
    PROVE  IInv'
<1> USE DEF IInv, Enqueue
<1>1. TypeOK'
  BY DEF TypeOK, Status
<1>2. Decided' /\ SentIsPushed' /\ DuplicatesOnlyFromFaults'
  BY DEF Decided, SentIsPushed, DuplicatesOnlyFromFaults, At
<1>3. SentWasPushed'
  BY DEF SentWasPushed, TypeOK
<1>4. OwedPushes'
  BY DEF OwedPushes, TypeOK, Settled, At
<1>5. SoleReader'
  BY DEF SoleReader, Pending, TypeOK
<1>6. QED
  BY <1>1, <1>2, <1>3, <1>4, <1>5

\* What a worker reads is pending, and so has been pushed at most as often as
\* the worker has failed.
LEMMA ReadBatchStep ==
    ASSUME IInv, NEW w \in Worker, ReadBatch(w)
    PROVE  IInv'
<1> USE DEF IInv, ReadBatch
<1>1. PICK b \in Batches : batch' = [batch EXCEPT ![w] = b]
  OBVIOUS
<1>2. b \subseteq Pending
  BY DEF Batches
<1>3. TypeOK'
  BY <1>1, <1>2 DEF TypeOK, Pending
<1>4. Decided'
  BY <1>1 DEF Decided, TypeOK
<1>5. SentIsPushed' /\ SentWasPushed' /\ DuplicatesOnlyFromFaults'
  BY <1>1 DEF SentIsPushed, SentWasPushed, DuplicatesOnlyFromFaults, TypeOK, At
<1>6. OwedPushes'
  BY <1>1, <1>2 DEF OwedPushes, TypeOK, Settled, Pending, At
<1>7. SoleReader'
  BY <1>1, <1>2 DEF SoleReader, Pending, TypeOK
<1>8. QED
  BY <1>3, <1>4, <1>5, <1>6, <1>7

\* An outcome without a push leaves the counts alone.
LEMMA ResolveStep ==
    ASSUME IInv, NEW w \in Worker, NEW d \in Delivery, pc[w] = "send", At(w, d),
           NEW result \in {"failed", "skipped"}, Resolve(w, result),
           UNCHANGED pushes
    PROVE  IInv'
<1> USE DEF IInv, Resolve
<1>1. TypeOK'
  BY DEF TypeOK, Settled
<1>2. Decided'
  BY DEF Decided, TypeOK, Settled
<1>3. SentIsPushed'
  BY DEF SentIsPushed, TypeOK, At
<1>4. SentWasPushed' /\ DuplicatesOnlyFromFaults'
  BY DEF SentWasPushed, DuplicatesOnlyFromFaults
<1>5. OwedPushes'
  BY DEF OwedPushes, TypeOK, At
<1>6. SoleReader'
  BY DEF SoleReader, Pending
<1>7. QED
  BY <1>1, <1>2, <1>3, <1>4, <1>5, <1>6

\* A push is of a delivery that was owed one.
LEMMA AcceptedStep ==
    ASSUME IInv, NEW w \in Worker, Accepted(w)
    PROVE  IInv'
<1> USE DEF IInv, Resolve
<1>1. PICK d \in Delivery : Sendable(w, d) /\ ProviderAccepts(w, d)
  BY DEF Accepted
<1>2. Resolve(w, "sent")
  BY DEF Accepted
<1>3. pc[w] = "send" /\ At(w, d) /\ d \in batch[w]
  BY <1>1 DEF Sendable, At
<1>4. pushes[w][d] <= faults[w]
  BY <1>3 DEF OwedPushes
<1> USE DEF ProviderAccepts
<1>5. TypeOK'
  BY <1>1, <1>2 DEF TypeOK, Settled
<1>6. Decided'
  BY <1>2 DEF Decided, TypeOK, Settled
<1>7. SentIsPushed'
  <2> SUFFICES ASSUME NEW v \in Worker, NEW e \in Delivery,
                      pc'[v] = "mark", At(v, e)', outcome'[v] = "sent"
               PROVE  pushes'[v][e] > 0
    BY DEF SentIsPushed
  <2>1. At(v, e)
    BY <1>2 DEF At
  <2>2. CASE v = w
    <3>1. e = d
      BY <1>3, <2>1, <2>2, AtUnique
    <3>2. QED
      BY <1>1, <2>2, <3>1 DEF TypeOK
  <2>3. CASE v # w
    BY <1>1, <1>2, <2>1, <2>3 DEF SentIsPushed, TypeOK
  <2>4. QED
    BY <2>2, <2>3
<1>8. SentWasPushed'
  <2> SUFFICES ASSUME NEW e \in Delivery, status[e] = "sent"
               PROVE  \E v \in Worker : pushes'[v][e] > 0
    BY <1>2 DEF SentWasPushed
  <2>1. PICK v \in Worker : pushes[v][e] > 0
    BY DEF SentWasPushed
  <2>2. pushes'[v][e] > 0
    BY <1>1, <2>1 DEF TypeOK
  <2>3. QED
    BY <2>2
<1>9. OwedPushes'
  <2> SUFFICES ASSUME NEW v \in Worker, NEW e \in Delivery,
                      e \in batch'[v] \/ status'[e] \notin Settled,
                      ~ (pc'[v] = "mark" /\ At(v, e)')
               PROVE  pushes'[v][e] <= faults'[v]
    BY DEF OwedPushes
  <2>1. ~ (v = w /\ e = d)
    BY <1>2, <1>3 DEF At, TypeOK
  <2>2. pushes'[v][e] = pushes[v][e]
    BY <1>1, <2>1 DEF TypeOK
  <2>3. ~ (pc[v] = "mark" /\ At(v, e))
    BY <1>2, <1>3 DEF At, TypeOK
  <2>4. QED
    BY <1>2, <2>2, <2>3 DEF OwedPushes
<1>10. DuplicatesOnlyFromFaults'
  BY <1>1, <1>2, <1>4 DEF DuplicatesOnlyFromFaults, TypeOK
<1>11. SoleReader'
  BY <1>2 DEF SoleReader, Pending
<1>12. QED
  BY <1>5, <1>6, <1>7, <1>8, <1>9, <1>10, <1>11
\* A commit settles the delivery the worker is at and moves on from it.
LEMMA MarkStep ==
    ASSUME IInv, NEW w \in Worker, Mark(w)
    PROVE  IInv'
<1> USE DEF IInv
<1>1. PICK d \in Delivery :
        /\ At(w, d)
        /\ status' = [status EXCEPT ![d] = outcome[w]]
        /\ batch' = [batch EXCEPT ![w] = @ \ {d}]
  BY DEF Mark
<1>2. /\ pc[w] = "mark" /\ outcome[w] \in Settled
      /\ outcome' = [outcome EXCEPT ![w] = "none"]
      /\ processed' = [processed EXCEPT ![w] = @ + 1]
      /\ pc' = [pc EXCEPT ![w] = "send"]
      /\ UNCHANGED <<pushes, faults, lastRun>>
  BY DEF Mark, Decided
<1>3. TypeOK'
  BY <1>1, <1>2 DEF TypeOK, Status
<1>4. Decided'
  BY <1>1, <1>2 DEF Decided, TypeOK
<1>5. \A v \in Worker \ {w} : \A e \in Delivery : At(v, e)' <=> At(v, e)
  BY <1>1 DEF At, TypeOK
<1>6. SentIsPushed'
  BY <1>2, <1>5 DEF SentIsPushed, TypeOK
<1>7. SentWasPushed'
  <2> SUFFICES ASSUME NEW e \in Delivery, status'[e] = "sent"
               PROVE  \E v \in Worker : pushes[v][e] > 0
    BY <1>2 DEF SentWasPushed
  <2>1. CASE e = d
    BY <1>1, <1>2, <2>1 DEF SentIsPushed, TypeOK
  <2>2. CASE e # d
    BY <1>1, <2>2 DEF SentWasPushed, TypeOK
  <2>3. QED
    BY <2>1, <2>2
<1>8. OwedPushes'
  <2> SUFFICES ASSUME NEW v \in Worker, NEW e \in Delivery,
                      e \in batch'[v] \/ status'[e] \notin Settled,
                      ~ (pc'[v] = "mark" /\ At(v, e)')
               PROVE  pushes[v][e] <= faults[v]
    BY <1>2 DEF OwedPushes
  <2>1. e \in batch[v] \/ status[e] \notin Settled
    BY <1>1, <1>2 DEF TypeOK
  <2>2. CASE v # w
    BY <1>2, <1>5, <2>1, <2>2 DEF OwedPushes, TypeOK
  <2>3. CASE v = w
    <3>1. e # d
      BY <1>1, <1>2, <2>3 DEF TypeOK
    <3>2. ~ At(w, e)
      BY <1>1, <3>1, AtUnique
    <3>3. QED
      BY <2>1, <2>3, <3>2 DEF OwedPushes
  <2>4. QED
    BY <2>2, <2>3
<1>9. DuplicatesOnlyFromFaults'
  BY <1>2 DEF DuplicatesOnlyFromFaults
<1>10. SoleReader'
  <2> SUFFICES ASSUME \A u, v \in Worker : u = v,
                      NEW v \in Worker, NEW e \in batch'[v]
               PROVE  e \in Pending'
    BY DEF SoleReader
  <2>1. v = w
    OBVIOUS
  <2>2. e \in batch[w] /\ e # d
    BY <1>1, <2>1 DEF TypeOK
  <2>3. QED
    BY <1>1, <2>2 DEF SoleReader, Pending, TypeOK
<1>11. QED
  BY <1>3, <1>4, <1>6, <1>7, <1>8, <1>9, <1>10

\* Leaving a batch is sound when no push is owed for it: what is queued has
\* been pushed at most once for each fault, the one that ends the batch counted.
LEMMA LeaveStep ==
    ASSUME IInv, NEW w \in Worker, LeaveBatch(w), UNCHANGED status,
           lastRun' \in [status : {"none", "success", "failed"}, count : Nat],
           pushes' \in [Worker -> [Delivery -> Nat]],
           faults' \in [Worker -> 0 .. MaxFaults],
           \A v \in Worker : v # w => /\ pushes'[v] = pushes[v]
                                      /\ faults'[v] = faults[v],
           \A e \in Delivery :
               /\ pushes[w][e] <= pushes'[w][e]
               /\ pushes'[w][e] <= 1 + faults'[w]
               /\ status[e] \notin Settled => pushes'[w][e] <= faults'[w]
    PROVE  IInv'
<1>0. \A v \in Worker : \A e \in Delivery :
        pushes[v][e] \in Nat /\ pushes'[v][e] \in Nat
  <2>1. pushes \in [Worker -> [Delivery -> Nat]]
    BY DEF IInv, TypeOK
  <2>2. QED
    BY <2>1
<1> USE MaxFaultsAssumption DEF IInv, LeaveBatch
<1>1. TypeOK'
  BY DEF TypeOK
<1>2. Decided'
  BY DEF Decided, TypeOK
<1>3. SentIsPushed'
  <2> SUFFICES ASSUME NEW v \in Worker, NEW e \in Delivery,
                      pc'[v] = "mark", At(v, e)', outcome'[v] = "sent"
               PROVE  pushes'[v][e] > 0
    BY DEF SentIsPushed
  <2>1. v # w
    BY DEF TypeOK
  <2>2. QED
    BY <2>1 DEF SentIsPushed, TypeOK, At
<1>4. SentWasPushed'
  <2> SUFFICES ASSUME NEW e \in Delivery, status[e] = "sent"
               PROVE  \E v \in Worker : pushes'[v][e] > 0
    BY DEF SentWasPushed
  <2>1. PICK v \in Worker : pushes[v][e] > 0
    BY DEF SentWasPushed
  <2>2. pushes'[v][e] > 0
    <3>1. CASE v = w
      <4>1. pushes[w][e] > 0 /\ pushes[w][e] <= pushes'[w][e]
        BY <2>1, <3>1
      <4>2. QED
        BY <1>0, <3>1, <4>1
    <3>2. CASE v # w
      BY <2>1, <3>2
    <3>3. QED
      BY <3>1, <3>2
  <2>3. QED
    BY <2>2
<1>5. OwedPushes'
  <2> SUFFICES ASSUME NEW v \in Worker, NEW e \in Delivery,
                      e \in batch'[v] \/ status[e] \notin Settled,
                      ~ (pc'[v] = "mark" /\ At(v, e)')
               PROVE  pushes'[v][e] <= faults'[v]
    BY DEF OwedPushes
  <2>1. CASE v # w
    BY <2>1 DEF OwedPushes, TypeOK, At
  <2>2. CASE v = w
    BY <2>2 DEF TypeOK
  <2>3. QED
    BY <2>1, <2>2
<1>6. DuplicatesOnlyFromFaults'
  <2> SUFFICES ASSUME NEW v \in Worker, NEW e \in Delivery
               PROVE  pushes'[v][e] <= 1 + faults'[v]
    BY DEF DuplicatesOnlyFromFaults
  <2>1. CASE v # w
    BY <2>1 DEF DuplicatesOnlyFromFaults
  <2>2. CASE v = w
    BY <2>2
  <2>3. QED
    BY <2>1, <2>2
<1>7. SoleReader'
  BY DEF SoleReader, Pending, TypeOK
<1>8. QED
  BY <1>1, <1>2, <1>3, <1>4, <1>5, <1>6, <1>7

\* A worker that is not about to commit a push leaves its batch without owing.
LEMMA QuietLeaveStep ==
    ASSUME IInv, NEW w \in Worker, LeaveBatch(w), pc[w] = "send",
           UNCHANGED <<status, pushes, faults>>,
           lastRun' \in [status : {"none", "success", "failed"}, count : Nat]
    PROVE  IInv'
<1>1. \A e \in Delivery : status[e] \notin Settled => pushes[w][e] <= faults[w]
  BY DEF IInv, OwedPushes
<1>2. \A e \in Delivery : pushes[w][e] <= 1 + faults[w]
  BY DEF IInv, DuplicatesOnlyFromFaults
<1>3. pushes \in [Worker -> [Delivery -> Nat]] /\ faults \in [Worker -> 0 .. MaxFaults]
  BY DEF IInv, TypeOK
<1>4. \A e \in Delivery : pushes[w][e] <= pushes[w][e]
  BY <1>3
<1>5. QED
  BY <1>1, <1>2, <1>3, <1>4, LeaveStep

\* A fault pays for the push that is lost with the batch.
LEMMA FaultStep ==
    ASSUME IInv, NEW w \in Worker, LeaveBatch(w), Fault(w), UNCHANGED status,
           lastRun' \in [status : {"none", "success", "failed"}, count : Nat],
           \/ UNCHANGED pushes
           \/ \E d \in Delivery : Sendable(w, d) /\ ProviderAccepts(w, d)
    PROVE  IInv'
<1> USE MaxFaultsAssumption
<1>1. pushes \in [Worker -> [Delivery -> Nat]] /\ faults \in [Worker -> 0 .. MaxFaults]
  BY DEF IInv, TypeOK
<1>2. /\ faults' \in [Worker -> 0 .. MaxFaults]
      /\ faults'[w] = faults[w] + 1
      /\ \A v \in Worker : v # w => faults'[v] = faults[v]
  BY <1>1 DEF Fault
<1>3. \A e \in Delivery : pushes[w][e] <= faults'[w]
  BY <1>1, <1>2 DEF IInv, DuplicatesOnlyFromFaults
<1>4. CASE UNCHANGED pushes
  <2>1. \A e \in Delivery : /\ pushes[w][e] <= pushes'[w][e]
                            /\ pushes'[w][e] <= 1 + faults'[w]
    BY <1>1, <1>2, <1>3, <1>4
  <2>2. QED
    BY <1>1, <1>2, <1>3, <1>4, <2>1, LeaveStep
<1>5. CASE \E d \in Delivery : Sendable(w, d) /\ ProviderAccepts(w, d)
  <2>1. PICK d \in Delivery : Sendable(w, d) /\ ProviderAccepts(w, d)
    BY <1>5
  <2>2. pushes[w][d] <= faults[w]
    BY <2>1 DEF IInv, OwedPushes, Sendable, At
  <2>3. /\ pushes' \in [Worker -> [Delivery -> Nat]]
        /\ \A v \in Worker : v # w => pushes'[v] = pushes[v]
        /\ pushes'[w][d] = pushes[w][d] + 1
        /\ \A e \in Delivery : e # d => pushes'[w][e] = pushes[w][e]
    BY <1>1, <2>1 DEF ProviderAccepts
  <2>4. \A e \in Delivery : /\ pushes[w][e] <= pushes'[w][e]
                            /\ pushes'[w][e] <= faults'[w]
    BY <1>1, <1>2, <1>3, <2>2, <2>3
  <2>5. \A e \in Delivery : pushes'[w][e] <= 1 + faults'[w]
    BY <1>2, <2>3, <2>4
  <2>6. QED
    BY <1>2, <2>3, <2>4, <2>5, LeaveStep
<1>6. QED
  BY <1>4, <1>5

-----------------------------------------------------------------------------
\* Every step of a worker preserves the invariant.
LEMMA WorkerStep ==
    ASSUME IInv, NEW w \in Worker, Work(w) \/ Fail(w)
    PROVE  IInv'
<1>1. CASE ReadBatch(w)
  BY <1>1, ReadBatchStep
<1>2. CASE Skip(w)
  <2>1. PICK d \in Delivery : At(w, d)
    BY <1>2 DEF Skip
  <2>2. QED
    BY <1>2, <2>1, ResolveStep DEF Skip
<1>3. CASE Accepted(w)
  BY <1>3, AcceptedStep
<1>4. CASE Refused(w)
  <2>1. PICK d \in Delivery : Sendable(w, d)
    BY <1>4 DEF Refused
  <2>2. pc[w] = "send" /\ At(w, d)
    BY <2>1 DEF Sendable
  <2>3. QED
    BY <1>4, <2>2, ResolveStep DEF Refused
<1>5. CASE Mark(w)
  BY <1>5, MarkStep
<1>6. CASE FinishBatch(w)
  <2>1. lastRun' \in [status : {"none", "success", "failed"}, count : Nat]
    BY <1>6 DEF FinishBatch, IInv, TypeOK
  <2>2. QED
    BY <1>6, <2>1, QuietLeaveStep DEF FinishBatch
<1>7. Abort(w) =>
        lastRun' \in [status : {"none", "success", "failed"}, count : Nat]
  BY DEF Abort
<1>8. CASE SendRaises(w)
  <2>1. pc[w] = "send"
    BY <1>8 DEF SendRaises, Sendable
  <2>2. QED
    BY <1>7, <1>8, <2>1, QuietLeaveStep DEF SendRaises, Abort
<1>9. CASE SendTimesOut(w)
  BY <1>7, <1>9, FaultStep DEF SendTimesOut, Abort
<1>10. CASE WorkerError(w)
  BY <1>7, <1>10, FaultStep DEF WorkerError, Abort
<1>11. CASE WorkerCrash(w)
  <2>1. lastRun' \in [status : {"none", "success", "failed"}, count : Nat]
    BY <1>11 DEF WorkerCrash, IInv, TypeOK
  <2>2. QED
    BY <1>11, <2>1, FaultStep DEF WorkerCrash
<1>12. QED
  BY <1>1, <1>2, <1>3, <1>4, <1>5, <1>6, <1>8, <1>9, <1>10, <1>11
  DEF Work, Fail

LEMMA StepPreserves == IInv /\ [Next]_vars => IInv'
<1> SUFFICES ASSUME IInv, [Next]_vars PROVE IInv'
  OBVIOUS
<1>1. CASE UNCHANGED vars
  BY <1>1
  DEF vars, IInv, TypeOK, Decided, SentIsPushed, SentWasPushed, OwedPushes,
      DuplicatesOnlyFromFaults, SoleReader, Pending, At
<1>2. CASE \E d \in Delivery : Enqueue(d)
  BY <1>2, EnqueueStep
<1>3. CASE \E w \in Worker : Work(w) \/ Fail(w)
  BY <1>3, WorkerStep
<1>4. QED
  BY <1>1, <1>2, <1>3 DEF Next

\* The inductive invariant of the delivery worker holds of every behaviour.
THEOREM Invariance == Spec => []IInv
<1>1. QED
  BY InitHolds, StepPreserves, PTL DEF Spec

\* Every variable keeps its type: an outcome is there whenever one is marked.
THEOREM TypeCorrect == Spec => []TypeOK
<1>1. IInv => TypeOK
  BY DEF IInv
<1>2. QED
  BY <1>1, Invariance, PTL

\* With any number of workers over one queue, none has the provider accept a
\* delivery more often than once and once for each of its faults.
THEOREM RepeatedPushesNeedFaults == Spec => []DuplicatesOnlyFromFaults
<1>1. IInv => DuplicatesOnlyFromFaults
  BY DEF IInv
<1>2. QED
  BY <1>1, Invariance, PTL

\* A delivery marked sent was accepted by the provider.
THEOREM SentDeliveriesWerePushed == Spec => []SentWasPushed
<1>1. IInv => SentWasPushed
  BY DEF IInv
<1>2. QED
  BY <1>1, Invariance, PTL

\* A settled delivery stays settled, and under one worker keeps its status.
THEOREM SettledDeliveriesAreFinal == Spec => SettledIsFinal
<1> DEFINE Final == \A d \in Delivery :
        status[d] \in Settled =>
            /\ status'[d] \in Settled
            /\ (\A v, w \in Worker : v = w) => status'[d] = status[d]
<1>1. ASSUME IInv, [Next]_vars PROVE [Final]_vars
  <2> SUFFICES ASSUME Next, NEW d \in Delivery, status[d] \in Settled
               PROVE  /\ status'[d] \in Settled
                      /\ (\A v, w \in Worker : v = w) => status'[d] = status[d]
    BY <1>1
  <2>1. CASE \E e \in Delivery : Enqueue(e)
    BY <1>1, <2>1 DEF Enqueue, IInv, TypeOK, Settled
  <2>2. ASSUME NEW w \in Worker, Mark(w)
        PROVE  /\ status'[d] \in Settled
               /\ (\A u, v \in Worker : u = v) => status'[d] = status[d]
    <3>1. PICK e \in Delivery :
            At(w, e) /\ status' = [status EXCEPT ![e] = outcome[w]]
      BY <2>2 DEF Mark
    <3>2. outcome[w] \in Settled
      BY <1>1, <2>2 DEF IInv, Decided, Mark
    <3>3. (\A u, v \in Worker : u = v) => d # e
      BY <1>1, <3>1 DEF IInv, SoleReader, Pending, At, Settled
    <3>4. QED
      BY <1>1, <3>1, <3>2, <3>3 DEF IInv, TypeOK
  <2>3. ASSUME NEW w \in Worker, Work(w) \/ Fail(w), ~ Mark(w)
        PROVE  status' = status
    BY <2>3
    DEF Work, Fail, ReadBatch, Skip, Accepted, Refused, Resolve, FinishBatch,
        SendRaises, Abort, SendTimesOut, WorkerError, WorkerCrash
  <2>4. QED
    BY <2>1, <2>2, <2>3 DEF Next
<1>2. QED
  BY <1>1, Invariance, PTL DEF Spec, SettledIsFinal

-----------------------------------------------------------------------------
\* Nothing in the code keeps workers apart: what follows needs one.
OneWorker == \A v, w \in Worker : v = w

\* Only what can be pushed is, and only what cannot is skipped.
Justified ==
    \A w \in Worker : \A d \in Delivery :
        /\ pushes[w][d] > 0 => d \in Ios \ Unsendable /\ Configured
        /\ pc[w] = "mark" /\ At(w, d) /\ outcome[w] = "skipped" =>
                (d \in Ios => ~ Configured)

LEMMA InitJustified == Init => Justified
BY DEF Init, Justified

LEMMA StepJustified ==
    ASSUME IInv, Justified, [Next]_vars
    PROVE  Justified'
<1> USE DEF IInv, TypeOK
<1>1. CASE UNCHANGED vars \/ \E d \in Delivery : Enqueue(d)
  BY <1>1 DEF vars, Enqueue, Justified, At
<1>2. ASSUME NEW w \in Worker, ReadBatch(w)
      PROVE  Justified'
  BY <1>2 DEF ReadBatch, Justified, At
<1>3. ASSUME NEW w \in Worker, NEW result \in Settled, Resolve(w, result),
             UNCHANGED pushes,
             result = "skipped" =>
                \E d \in Delivery : At(w, d) /\ (d \in Ios => ~ Configured)
      PROVE  Justified'
  <2>1. batch' = batch /\ \A v \in Worker : \A d \in Delivery : At(v, d)' <=> At(v, d)
    BY <1>3 DEF Resolve, At
  <2>2. ASSUME NEW v \in Worker, NEW d \in Delivery, v # w
        PROVE  Justified!(v)!(d)'
    BY <1>3, <2>1, <2>2 DEF Resolve, Justified
  <2>3. ASSUME NEW d \in Delivery
        PROVE  Justified!(w)!(d)'
    BY <1>3, <2>1, AtUnique DEF Resolve, Justified
  <2>4. QED
    BY <2>2, <2>3 DEF Justified
<1>4. ASSUME NEW w \in Worker, Accepted(w)
      PROVE  Justified'
  <2>1. PICK e \in Delivery \ Unsendable : Sendable(w, e) /\ ProviderAccepts(w, e)
    BY <1>4 DEF Accepted
  <2>2. ASSUME NEW v \in Worker, NEW d \in Delivery
        PROVE  pushes'[v][d] > 0 => d \in Ios \ Unsendable /\ Configured
    BY <2>1 DEF Sendable, ProviderAccepts, Justified
  <2>3. ASSUME NEW v \in Worker, NEW d \in Delivery, pc'[v] = "mark", At(v, d)',
               outcome'[v] = "skipped"
        PROVE  d \in Ios => ~ Configured
    BY <1>4, <2>3 DEF Accepted, Resolve, At, Justified
  <2>4. QED
    BY <2>2, <2>3 DEF Justified
<1>5. ASSUME NEW w \in Worker, Mark(w)
      PROVE  Justified'
  <2>1. pushes' = pushes /\ pc'[w] # "mark"
        /\ \A v \in Worker \ {w} : /\ pc'[v] = pc[v] /\ outcome'[v] = outcome[v]
                                   /\ batch'[v] = batch[v]
    BY <1>5 DEF Mark
  <2>2. QED
    BY <2>1 DEF Justified, At
<1>6. ASSUME NEW w \in Worker, LeaveBatch(w), UNCHANGED pushes
      PROVE  Justified'
  BY <1>6 DEF LeaveBatch, Justified, At
<1>7. ASSUME NEW w \in Worker, SendTimesOut(w)
      PROVE  Justified'
  <2>1. PICK e \in Delivery \ Unsendable :
            Sendable(w, e) /\ (ProviderAccepts(w, e) \/ UNCHANGED pushes)
    BY <1>7 DEF SendTimesOut
  <2>2. ASSUME NEW v \in Worker, NEW d \in Delivery
        PROVE  pushes'[v][d] > 0 => d \in Ios \ Unsendable /\ Configured
    <3>1. CASE UNCHANGED pushes
      BY <3>1 DEF Justified
    <3>2. CASE ProviderAccepts(w, e)
      BY <2>1, <3>2 DEF Sendable, ProviderAccepts, Justified
    <3>3. QED
      BY <2>1, <3>1, <3>2
  <2>3. ASSUME NEW v \in Worker, NEW d \in Delivery, pc'[v] = "mark", At(v, d)',
               outcome'[v] = "skipped"
        PROVE  d \in Ios => ~ Configured
    BY <1>7, <2>3 DEF SendTimesOut, Abort, LeaveBatch, At, Justified
  <2>4. QED
    BY <2>2, <2>3 DEF Justified
<1>8. ASSUME NEW w \in Worker, Work(w) \/ Fail(w)
      PROVE  Justified'
  <2>1. CASE Skip(w)
    BY <1>3, <2>1 DEF Skip, Settled
  <2>2. CASE Refused(w)
    BY <1>3, <2>2 DEF Refused, Settled
  <2>3. CASE FinishBatch(w) \/ SendRaises(w) \/ WorkerError(w) \/ WorkerCrash(w)
    BY <1>6, <2>3 DEF FinishBatch, SendRaises, WorkerError, WorkerCrash, Abort
  <2>4. QED
    BY <1>2, <1>4, <1>5, <1>7, <1>8, <2>1, <2>2, <2>3 DEF Work, Fail
<1>9. QED
  BY <1>1, <1>8 DEF Next

\* The provider accepts a delivery from the only worker while it is pending.
LEMMA PushStep ==
    ASSUME IInv, OneWorker, NEW w \in Worker, NEW d \in Delivery,
           d \notin Unsendable, Sendable(w, d), ProviderAccepts(w, d),
           UNCHANGED status
    PROVE  Queue!Push(d)
<1>1. status[d] = "pending" /\ d \in Ios \ Unsendable /\ Configured
  BY DEF IInv, SoleReader, OneWorker, Sendable, At, Pending
<1>2. \A e \in Delivery : /\ e # d => pushes'[w][e] = pushes[w][e]
                          /\ pushes'[w][d] > 0
  BY DEF IInv, TypeOK, ProviderAccepts
<1>3. \A v \in Worker : v = w
  BY DEF OneWorker
<1>4. Handed' = Handed \cup {d}
  BY <1>2, <1>3 DEF Handed
<1>5. QED
  BY <1>1, <1>4 DEF Queue!Push

\* Its mark settles a delivery that is pending.
LEMMA SettleStep ==
    ASSUME IInv, Justified, OneWorker, NEW w \in Worker, Mark(w)
    PROVE  Queue!Next
<1>1. PICK d \in Delivery :
        At(w, d) /\ status' = [status EXCEPT ![d] = outcome[w]]
  BY DEF Mark
<1>2. /\ pc[w] = "mark" /\ outcome[w] \in Queue!Outcome
      /\ status[d] = "pending" /\ pushes' = pushes
  BY <1>1 DEF Mark, IInv, Decided, Settled, SoleReader, OneWorker, At, Pending,
              Queue!Outcome
<1>3. Handed' = Handed
  BY <1>2 DEF Handed
<1>4. outcome[w] = "sent" => d \in Handed
  BY <1>1, <1>2 DEF IInv, SentIsPushed, Handed
<1>5. outcome[w] = "skipped" => d \notin Handed
  <2>1. SUFFICES ASSUME outcome[w] = "skipped", d \in Handed PROVE FALSE
    OBVIOUS
  <2>2. PICK v \in Worker : pushes[v][d] > 0
    BY <2>1 DEF Handed
  <2>3. QED
    BY <1>1, <1>2, <2>1, <2>2 DEF Justified
<1>6. Queue!Settle(d, outcome[w])
  BY <1>1, <1>2, <1>3, <1>4, <1>5 DEF Queue!Settle
<1>7. QED
  BY <1>2, <1>6 DEF Queue!Next

LEMMA QueueStep ==
    ASSUME IInv, Justified, OneWorker, [Next]_vars
    PROVE  [Queue!Next]_<<status, Handed>>
<1>1. CASE UNCHANGED <<status, pushes>>
  BY <1>1 DEF Handed
<1>2. ASSUME NEW d \in Delivery, Enqueue(d)
      PROVE  Queue!Next
  BY <1>2 DEF Enqueue, Handed, Queue!Next, Queue!Queue
<1>3. ASSUME NEW w \in Worker, Accepted(w)
      PROVE  Queue!Next
  BY <1>3, PushStep DEF Accepted, Resolve, Queue!Next
<1>4. ASSUME NEW w \in Worker, SendTimesOut(w), ~ UNCHANGED pushes
      PROVE  Queue!Next
  BY <1>4, PushStep DEF SendTimesOut, Abort, Queue!Next
<1>5. ASSUME NEW w \in Worker, Mark(w)
      PROVE  Queue!Next
  BY <1>5, SettleStep
<1>6. ASSUME NEW w \in Worker, Work(w) \/ Fail(w)
      PROVE  \/ UNCHANGED <<status, pushes>>
             \/ Accepted(w) \/ Mark(w)
             \/ SendTimesOut(w) /\ ~ UNCHANGED pushes
  BY <1>6 DEF Work, Fail, ReadBatch, Skip, Refused, Resolve, FinishBatch,
              SendRaises, WorkerError, WorkerCrash, SendTimesOut, Abort
<1>7. QED
  BY <1>1, <1>2, <1>3, <1>4, <1>5, <1>6 DEF Next, vars

\* A single worker, through any crash, timeout or error, implements the queue
\* that clients are promised, for any deliveries and any size of the batches.
THEOREM WorkerIsAQueue ==
    ASSUME OneWorker
    PROVE  Spec => ImplementsQueue
<1>1. Init => Queue!Init
  BY DEF Init, Queue!Init, Handed
<1>2. IInv /\ Justified /\ [Next]_vars => [Queue!Next]_<<status, Handed>>
  BY QueueStep
<1>3. Spec => []Justified
  <2>1. IInv /\ Justified /\ [Next]_vars => Justified'
    BY StepJustified
  <2>2. QED
    BY <2>1, InitJustified, Invariance, PTL DEF Spec
<1>4. QED
  BY <1>1, <1>2, <1>3, Invariance, PTL DEF Spec, ImplementsQueue, Queue!Spec
=============================================================================
