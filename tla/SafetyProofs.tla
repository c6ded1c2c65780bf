----------------------------- MODULE SafetyProofs -----------------------------
(***************************************************************************)
(* Types and safety of the composed scheduler, for any number of bookings, *)
(* jobs, crashes and faults, and any length of the clock.  Each theorem    *)
(* rests on lemmas that say what one step, of whichever coroutine, can do  *)
(* to the state it is about.                                               *)
(***************************************************************************)
EXTENDS SchedulerProperties, FiniteSetTheorems, TLAPS

-------------------------------------------------------------------------------
(* Rows                                                                     *)

(* The facts on the bounds that the arithmetic on windows needs. *)
LEMMA Bounds ==
  /\ MaxTime \in Nat /\ MaxEnd \in Nat /\ MaxAttempts \in Nat /\ RenewWindow \in Nat
  /\ MaxTime <= MaxEnd /\ MaxTime + RenewWindow <= MaxEnd
  BY StoreConstants

(* A row keeps its type when a worker or a handler writes one of these.    *)
LEMMA RowUpdates ==
  ASSUME NEW r \in LeaseRow
  PROVE  /\ \A s \in LeaseState : [r EXCEPT !.state = s] \in LeaseRow
         /\ \A s \in LeaseState, j \in Jobs \cup {NoJob} :
              [r EXCEPT !.job = j, !.state = s] \in LeaseRow
         /\ \A j \in Jobs \cup {NoJob} : [r EXCEPT !.job = j] \in LeaseRow
         /\ \A e \in 0..MaxEnd : [r EXCEPT !.end = e] \in LeaseRow
         /\ \A b, e \in 0..MaxEnd : [r EXCEPT !.begin = b, !.end = e] \in LeaseRow
         /\ \A s \in LeaseState, e \in 0..MaxEnd :
              [r EXCEPT !.state = s, !.end = e] \in LeaseRow
         /\ \A at \in Time : Fail(r, at) \in LeaseRow
         /\ \A at \in Time : [r EXCEPT !.drainingSince = at] \in LeaseRow
         /\ \A s \in LeaseState, n \in 0..MaxAttempts :
              [r EXCEPT !.state = s, !.retries = n] \in LeaseRow
         /\ \A s \in LeaseState, j \in Jobs \cup {NoJob} :
              [r EXCEPT !.job = j, !.state = s, !.failedAt = Never] \in LeaseRow
         /\ \A k \in BOOLEAN, m \in {"session", "service"} :
              [r EXCEPT !.locked = k, !.mode = m] \in LeaseRow
         /\ \A m \in {"session", "service"}, n \in 0..MaxAttempts :
              [r EXCEPT !.locked = TRUE, !.mode = m, !.retries = n] \in LeaseRow
<1>0. "FAILED" \in LeaseState
  BY DEF LeaseState
<1>1. \A s \in LeaseState : [r EXCEPT !.state = s] \in LeaseRow
  BY DEF LeaseRow
<1>2. \A s \in LeaseState, j \in Jobs \cup {NoJob} :
        [r EXCEPT !.job = j, !.state = s] \in LeaseRow
  BY DEF LeaseRow
<1>3. \A j \in Jobs \cup {NoJob} : [r EXCEPT !.job = j] \in LeaseRow
  BY DEF LeaseRow
<1>4. \A e \in 0..MaxEnd : [r EXCEPT !.end = e] \in LeaseRow
  BY DEF LeaseRow
<1>5. \A b, e \in 0..MaxEnd : [r EXCEPT !.begin = b, !.end = e] \in LeaseRow
  BY DEF LeaseRow
<1>6. \A s \in LeaseState, e \in 0..MaxEnd : [r EXCEPT !.state = s, !.end = e] \in LeaseRow
  BY DEF LeaseRow
<1>7. \A at \in Time : Fail(r, at) \in LeaseRow
  BY <1>0 DEF LeaseRow, Fail
<1>8. \A at \in Time : [r EXCEPT !.drainingSince = at] \in LeaseRow
  BY DEF LeaseRow
<1>9. \A s \in LeaseState, n \in 0..MaxAttempts :
        [r EXCEPT !.state = s, !.retries = n] \in LeaseRow
  BY DEF LeaseRow
<1>10. \A s \in LeaseState, j \in Jobs \cup {NoJob} :
         [r EXCEPT !.job = j, !.state = s, !.failedAt = Never] \in LeaseRow
  BY DEF LeaseRow
<1>11. \A k \in BOOLEAN, m \in {"session", "service"} :
         [r EXCEPT !.locked = k, !.mode = m] \in LeaseRow
  BY DEF LeaseRow
<1>12. \A m \in {"session", "service"}, n \in 0..MaxAttempts :
         [r EXCEPT !.locked = TRUE, !.mode = m, !.retries = n] \in LeaseRow
  BY DEF LeaseRow
<1> QED
  BY <1>1, <1>2, <1>3, <1>4, <1>5, <1>6, <1>7, <1>8, <1>9, <1>10, <1>11, <1>12

LEMMA EndpointUpdates ==
  ASSUME NEW e \in EndpointRow
  PROVE  /\ \A s \in EndpointState : [e EXCEPT !.state = s] \in EndpointRow
         /\ \A s \in EndpointState, n \in Nat :
              [e EXCEPT !.state = s, !.fails = n] \in EndpointRow
         /\ \A s \in EndpointState, n \in Nat :
              [e EXCEPT !.fails = n, !.state = s] \in EndpointRow
  BY DEF EndpointRow

LEMMA NoRowType == NoRow \in LeaseRow
<1>1. "NONE" \in LeaseState /\ 0 \in 0..MaxEnd /\ 0 \in 0..MaxAttempts
  BY Bounds DEF LeaseState
<1> QED
  BY <1>1 DEF NoRow, LeaseRow

(* The rows users and renew_worker insert. *)
LEMMA NewRowType ==
  ASSUME NEW s \in LeaseState, NEW b \in 0..MaxEnd, NEW e \in 0..MaxEnd,
         NEW m \in {"session", "service"}
  PROVE  /\ [NoRow EXCEPT !.state = s, !.begin = b, !.end = e, !.mode = m] \in LeaseRow
         /\ \A k \in BOOLEAN, l \in Leases :
              [NoRow EXCEPT !.state = s, !.mode = m, !.begin = b, !.end = e,
                            !.locked = k, !.supersedes = l] \in LeaseRow
<1>1. [NoRow EXCEPT !.state = s, !.begin = b, !.end = e, !.mode = m] \in LeaseRow
  BY NoRowType DEF LeaseRow
<1>2. ASSUME NEW k \in BOOLEAN, NEW l \in Leases
      PROVE  [NoRow EXCEPT !.state = s, !.mode = m, !.begin = b, !.end = e,
                           !.locked = k, !.supersedes = l] \in LeaseRow
  BY NoRowType DEF LeaseRow
<1> QED
  BY <1>1, <1>2

(* Submissions and cancellations only touch Slurm's own table. *)
JobTypeOK == job \in [Jobs -> [st : JobState, for : Leases \cup {NoLease}]]

LEMMA SbatchType ==
  ASSUME JobTypeOK, NEW j \in Jobs, NEW l \in Leases \cup {NoLease}, Sbatch(j, l)
  PROVE  JobTypeOK'
  BY DEF JobTypeOK, Sbatch, JobState

LEMMA SbatchRaisesType ==
  ASSUME JobTypeOK, NEW l \in Leases \cup {NoLease}, SbatchRaises(l)
  PROVE  JobTypeOK'
  BY SbatchType DEF SbatchRaises, JobTypeOK

LEMMA ScancelType ==
  ASSUME JobTypeOK, NEW j \in Jobs \cup {NoJob}, Scancel(j)
  PROVE  JobTypeOK'
  BY DEF JobTypeOK, Scancel, Killed, JobState

-------------------------------------------------------------------------------
(* Types, one lemma per coroutine                                           *)

LEMMA SubmitterTypes ==
  ASSUME StoreTypeOK, SubmitterTypeOK, SubmitNext
  PROVE  StoreTypeOK' /\ SubmitterTypeOK'
<1>1. JobTypeOK
  BY DEF StoreTypeOK, JobTypeOK
<1>2. ASSUME NEW l \in Leases
      PROVE  SubmitterAfter(l) \in [todo : SUBSET Leases, cur : Leases \cup {NoLease},
                                    job : Jobs \cup {NoJob}, now : Time]
  <2>1. SubmitterIdle \in [todo : SUBSET Leases, cur : Leases \cup {NoLease},
                           job : Jobs \cup {NoJob}, now : Time]
    BY Bounds DEF SubmitterIdle, Time
  <2> QED
    BY <2>1 DEF SubmitterTypeOK, SubmitterAfter
<1>3. CASE SubmitScan
  BY <1>3, RowUpdates
  DEF SubmitScan, StoreTypeOK, SubmitterTypeOK, SubmitterIdle, Planned, LeaseState, Finished,
      NoLease, NoJob
<1>4. ASSUME NEW l \in Leases, SubmitSbatch(l) PROVE StoreTypeOK' /\ SubmitterTypeOK'
  BY <1>1, <1>4, SbatchType DEF SubmitSbatch, StoreTypeOK, SubmitterTypeOK, JobTypeOK
<1>5. ASSUME NEW l \in Leases, SubmitRecord(l) PROVE StoreTypeOK' /\ SubmitterTypeOK'
  BY <1>2, <1>5, RowUpdates
  DEF SubmitRecord, StoreTypeOK, SubmitterTypeOK, LeaseState, Active
<1>6. ASSUME NEW l \in Leases, SubmitFails(l) PROVE StoreTypeOK' /\ SubmitterTypeOK'
  BY <1>1, <1>2, <1>6, RowUpdates, SbatchRaisesType
  DEF SubmitFails, StoreTypeOK, SubmitterTypeOK, JobTypeOK
<1> QED
  BY <1>3, <1>4, <1>5, <1>6 DEF SubmitNext, SubmitStep

LEMMA RetrierTypes ==
  ASSUME StoreTypeOK, RetrierTypeOK, RetryNext
  PROVE  StoreTypeOK' /\ RetrierTypeOK'
<1>1. JobTypeOK
  BY DEF StoreTypeOK, JobTypeOK
<1>2. RetrierIdle \in [todo : SUBSET Leases, cur : Leases \cup {NoLease},
                       step : {"none", "cancel", "submit", "record"},
                       job : Jobs \cup {NoJob}, now : Time]
  BY Bounds DEF RetrierIdle, Time
<1>3. ASSUME NEW l
      PROVE  RetrierAfter(l) \in [todo : SUBSET Leases, cur : Leases \cup {NoLease},
                                  step : {"none", "cancel", "submit", "record"},
                                  job : Jobs \cup {NoJob}, now : Time]
  BY <1>2 DEF RetrierTypeOK, RetrierAfter, RetrierIdle
<1>4. CASE RetryScan
  <2>1. now \in 0..MaxEnd /\ now + RenewWindow \in 0..MaxEnd
    BY Bounds DEF StoreTypeOK, Time
  <2>2. RetrierTypeOK'
    BY <1>2, <1>4 DEF RetryScan, RetrierTypeOK, StoreTypeOK
  <2>3. lease' \in [Leases -> LeaseRow]
    BY <1>4, <2>1, RowUpdates DEF RetryScan, StoreTypeOK
  <2> QED
    BY <1>4, <2>2, <2>3 DEF RetryScan, StoreTypeOK
<1>5. ASSUME NEW l \in Leases, RetryClaim(l) PROVE StoreTypeOK' /\ RetrierTypeOK'
  <2>1. lease[l] \in LeaseRow /\ lease[l].retries \in 0..MaxAttempts
        /\ lease[l].job \in Jobs \cup {NoJob}
    BY DEF StoreTypeOK, LeaseRow
  <2>2. lease[l].retries + 1 \in 0..MaxAttempts
    BY <1>5, <2>1, Bounds DEF RetryClaim
  <2>3. lease' \in [Leases -> LeaseRow]
    BY <1>5, <2>1, <2>2, RowUpdates DEF RetryClaim, StoreTypeOK, LeaseState
  <2>4. ep' \in [Jobs -> EndpointRow]
    BY <1>5, EndpointUpdates DEF RetryClaim, StoreTypeOK, EndpointState
  <2>5. RetrierTypeOK'
    BY <1>5, <2>1 DEF RetryClaim, RetrierTypeOK
  <2> QED
    BY <1>5, <2>3, <2>4, <2>5 DEF RetryClaim, StoreTypeOK
<1>6. ASSUME NEW l \in Leases, RetrySkip(l) PROVE StoreTypeOK' /\ RetrierTypeOK'
  BY <1>3, <1>6 DEF RetrySkip, RetrierTypeOK, StoreTypeOK, storeVars
<1>7. CASE RetryCancel
  <2>1. retrier.job \in Jobs \cup {NoJob}
    BY DEF RetrierTypeOK
  <2>2. JobTypeOK'
    BY <1>1, <1>7, <2>1, ScancelType DEF RetryCancel
  <2>3. RetrierTypeOK'
    BY <1>7 DEF RetryCancel, RetrierTypeOK
  <2> QED
    BY <1>7, <2>2, <2>3 DEF RetryCancel, StoreTypeOK, JobTypeOK
<1>8. CASE RetrySbatch
  <2>1. retrier.cur \in Leases \cup {NoLease}
    BY DEF RetrierTypeOK
  <2>2. JobTypeOK'
    BY <1>1, <1>8, <2>1, SbatchType DEF RetrySbatch
  <2>3. RetrierTypeOK'
    BY <1>8 DEF RetrySbatch, RetrierTypeOK
  <2> QED
    BY <1>8, <2>2, <2>3 DEF RetrySbatch, StoreTypeOK, JobTypeOK
<1>9. CASE RetryRecord
  <2>1. retrier.cur \in Leases \cup {NoLease} /\ retrier.job \in Jobs \cup {NoJob}
    BY DEF RetrierTypeOK
  <2>2. \A l \in Leases : [lease[l] EXCEPT !.job = retrier.job, !.state = "SUBMITTED",
                                         !.failedAt = Never] \in LeaseRow
    BY <2>1, RowUpdates DEF StoreTypeOK, LeaseState, Active
  <2>3. lease' \in [Leases -> LeaseRow]
    BY <1>9, <2>2 DEF RetryRecord, StoreTypeOK
  <2> QED
    BY <1>3, <1>9, <2>3 DEF RetryRecord, RetrierTypeOK, StoreTypeOK
<1>10. CASE RetryFails
  <2>1. retrier.cur \in Leases \cup {NoLease} /\ retrier.now \in Time
    BY DEF RetrierTypeOK
  <2>2. JobTypeOK'
    BY <1>1, <1>10, <2>1, SbatchRaisesType DEF RetryFails
  <2>3. lease' \in [Leases -> LeaseRow]
    BY <1>10, <2>1, RowUpdates DEF RetryFails, StoreTypeOK
  <2> QED
    BY <1>3, <1>10, <2>2, <2>3 DEF RetryFails, RetrierTypeOK, StoreTypeOK, JobTypeOK
<1> QED
  BY <1>4, <1>5, <1>6, <1>7, <1>8, <1>9, <1>10 DEF RetryNext, RetryStep

LEMMA CleanerTypes ==
  ASSUME StoreTypeOK, CleanerTypeOK, CleanupNext
  PROVE  StoreTypeOK' /\ CleanerTypeOK'
<1>1. CASE CleanupScan
  BY <1>1 DEF CleanupScan, StoreTypeOK, CleanerTypeOK, storeVars, CleanupActions
<1>2. ASSUME NEW a \in cleaner.pend, CleanupCancel(a) PROVE StoreTypeOK' /\ CleanerTypeOK'
  <2>1. a.job \in Jobs
    BY DEF CleanerTypeOK, CleanupAction
  <2>2. JobTypeOK'
    BY <1>2, <2>1, ScancelType DEF CleanupCancel, StoreTypeOK, JobTypeOK
  <2>3. CleanerTypeOK'
    BY <1>2 DEF CleanupCancel, CleanerTypeOK
  <2> QED
    BY <1>2, <2>2, <2>3 DEF CleanupCancel, StoreTypeOK, JobTypeOK
<1>3. CASE CleanupWrite
  <2>1. ep' \in [Jobs -> EndpointRow]
    BY <1>3, EndpointUpdates DEF CleanupWrite, StoreTypeOK, EndpointState
  <2>2. lease' \in [Leases -> LeaseRow]
    BY <1>3, RowUpdates DEF CleanupWrite, StoreTypeOK, LeaseState, Finished
  <2>3. CleanerTypeOK'
    BY <1>3 DEF CleanupWrite, CleanerTypeOK, CleanerIdle
  <2> QED
    BY <1>3, <2>1, <2>2, <2>3 DEF CleanupWrite, StoreTypeOK
<1> QED
  BY <1>1, <1>2, <1>3 DEF CleanupNext, CleanupStep

LEMMA ReconcileWriteTypes ==
  ASSUME StoreTypeOK, NEW checks, NEW expiry, NEW gone, NEW at \in Time,
         ReconcileWrite(checks, expiry, gone, at)
  PROVE  lease' \in [Leases -> LeaseRow] /\ ep' \in [Jobs -> EndpointRow]
<1>1. lease' \in [Leases -> LeaseRow]
  BY RowUpdates DEF ReconcileWrite, StoreTypeOK, LeaseState, Finished
<1>2. ep' \in [Jobs -> EndpointRow]
  BY EndpointUpdates DEF ReconcileWrite, StoreTypeOK, EndpointState
<1> QED
  BY <1>1, <1>2

LEMMA ReconcilerTypes ==
  ASSUME StoreTypeOK, ReconcilerTypeOK, ReconcileNext
  PROVE  StoreTypeOK' /\ ReconcilerTypeOK'
<1>1. CASE ReconcileScan
  <2> DEFINE checks == {c \in Leases \X Jobs :
                          lease[c[1]].state \in Active /\ lease[c[1]].job = c[2]}
  <2>1. now \in Time /\ FailedExpiry \subseteq Leases /\ checks \subseteq Leases \X Jobs
    BY DEF StoreTypeOK, FailedExpiry
  <2>2. CASE checks = {}
    BY <1>1, <2>1, <2>2, ReconcileWriteTypes
    DEF ReconcileScan, StoreTypeOK, ReconcilerTypeOK
  <2>3. CASE checks # {}
    BY <1>1, <2>1, <2>3 DEF ReconcileScan, StoreTypeOK, ReconcilerTypeOK
  <2> QED
    BY <2>2, <2>3
<1>2. CASE ReconcileQuery
  <2>1. PICK gone \in Answers :
          reconciler' = [reconciler EXCEPT !.step = "sacct",
                           !.gone = gone \cap {c[2] : c \in reconciler.checks}]
    BY <1>2 DEF ReconcileQuery
  <2>2. gone \subseteq Jobs
    BY DEF Answers, Gone
  <2> QED
    BY <1>2, <2>1, <2>2 DEF ReconcileQuery, ReconcilerTypeOK, StoreTypeOK, storeVars
<1>3. ReconcilerIdle \in [checks : SUBSET (Leases \X Jobs), expiry : SUBSET Leases,
                          gone : SUBSET Jobs, step : {"none", "squeue", "sacct"}, now : Time]
  BY Bounds DEF ReconcilerIdle, Time
<1>4. CASE ReconcileUnavailable
  BY <1>3, <1>4 DEF ReconcileUnavailable, ReconcilerTypeOK, StoreTypeOK, storeVars
<1>5. CASE ReconcileApply
  <2>1. reconciler.now \in Time
    BY DEF ReconcilerTypeOK
  <2> QED
    BY <1>3, <1>5, <2>1, ReconcileWriteTypes
    DEF ReconcileApply, ReconcilerTypeOK, StoreTypeOK
<1> QED
  BY <1>1, <1>2, <1>4, <1>5 DEF ReconcileNext, ReconcileStep

LEMMA ProberTypes ==
  ASSUME StoreTypeOK, ProberTypeOK, HealthNext
  PROVE  StoreTypeOK' /\ ProberTypeOK'
<1>1. CASE HealthProbe
  BY <1>1 DEF HealthProbe, StoreTypeOK, ProberTypeOK, storeVars, Probed
<1>2. CASE HealthApply
  <2>1. prober.now \in Time
    BY DEF ProberTypeOK
  <2>2. ASSUME NEW j \in Jobs PROVE CheckedEndpoint(j) \in EndpointRow
    <3>1. ep[j] \in EndpointRow /\ ep[j].fails \in Nat /\ ep[j].fails + 1 \in Nat
      BY DEF StoreTypeOK, EndpointRow
    <3> QED
      BY <3>1, EndpointUpdates DEF CheckedEndpoint, EndpointState
  <2>3. ASSUME NEW l \in Leases PROVE CheckedLease(l) \in LeaseRow
    <3>1. lease[l] \in LeaseRow /\ 0 \in 0..MaxAttempts /\ "RUNNING" \in LeaseState
      BY Bounds DEF StoreTypeOK, LeaseState, Active
    <3> QED
      BY <2>1, <3>1, RowUpdates DEF CheckedLease
  <2>4. ProberTypeOK'
    BY <1>2, Bounds DEF HealthApply, ProberTypeOK, ProberIdle, Time
  <2> QED
    BY <1>2, <2>2, <2>3, <2>4 DEF HealthApply, StoreTypeOK
<1> QED
  BY <1>1, <1>2 DEF HealthNext

(* renew_worker numbers the rows it inserts consecutively, within the bound. *)
LEMMA NewRowNumbers ==
  ASSUME NEW due \in SUBSET Leases, Rows + Cardinality(due) <= MaxLeases, NEW l \in due
  PROVE  Rows + Cardinality({k \in due : k <= l}) \in Leases
<1>1. MaxLeases \in Nat
  BY StoreConstants
<1>2. IsFiniteSet(Leases)
  BY <1>1, FS_Interval DEF Leases
<1>3. IsFiniteSet(due) /\ Cardinality(due) \in Nat
  BY <1>2, FS_Subset, FS_CardinalityType
<1>4. Rows \in Nat
  BY <1>2, FS_Subset, FS_CardinalityType DEF Rows
<1> DEFINE upTo == {k \in due : k <= l}
<1>5. upTo \subseteq due /\ l \in upTo
  BY DEF Leases
<1>6. IsFiniteSet(upTo) /\ Cardinality(upTo) \in Nat /\ Cardinality(upTo) <= Cardinality(due)
  BY <1>3, <1>5, FS_Subset, FS_CardinalityType
<1>7. Cardinality(upTo) # 0
  BY <1>5, <1>6, FS_EmptySet
<1> HIDE DEF upTo
<1>8. Rows + Cardinality(upTo) \in 1..MaxLeases
  BY <1>1, <1>3, <1>4, <1>6, <1>7
<1> QED
  BY <1>8 DEF upTo, Leases

(* The window of a replacement begins when it is inserted. *)
LEMMA ReplacementType ==
  ASSUME StoreTypeOK, NEW l \in Leases, DueForRenewal(l)
  PROVE  BuildReplacement(l) \in LeaseRow
<1>1. lease[l].end \in 0..MaxEnd /\ lease[l].locked \in BOOLEAN /\ now \in 0..MaxTime
  BY DEF StoreTypeOK, LeaseRow, Time
<1>2. Later(now, lease[l].end - RenewLead) = now
  BY <1>1, Bounds, RenewConstants DEF DueForRenewal, Later
<1>3. now \in 0..MaxEnd /\ now + RenewWindow \in 0..MaxEnd
  BY <1>1, Bounds
<1> QED
  BY <1>1, <1>2, <1>3, NewRowType DEF BuildReplacement, LeaseState

LEMMA RenewerTypes ==
  ASSUME StoreTypeOK, RenewerTypeOK, RenewNext
  PROVE  StoreTypeOK' /\ RenewerTypeOK'
<1>1. CASE RenewScan
  <2> DEFINE due == IF Rows + Cardinality(PlanRenewals) <= MaxLeases THEN PlanRenewals ELSE {}
             row == [l \in due |-> Rows + Cardinality({k \in due : k <= l})]
             Replacing(r) == {l \in due : row[l] = r}
  <2>1. due \subseteq Leases /\ \A l \in due : DueForRenewal(l)
    BY DEF PlanRenewals
  <2>2. ASSUME NEW l \in due PROVE row[l] \in Leases
    <3>1. Rows + Cardinality(due) <= MaxLeases
      BY <2>2
    <3> QED
      BY <2>1, <2>2, <3>1, NewRowNumbers
  <2>3. RenewerTypeOK'
    <3> DEFINE rows == {row[l] : l \in due}
    <3>1. rows \subseteq Leases
      BY <2>2
    <3>2. PICK quiet \in SUBSET Superseded :
            LET retire == {l \in Superseded : DrainComplete(l, quiet)}
            IN  renewer' = [todo |-> rows, subs |-> {}, retire |-> retire,
                            pend |-> retire, now |-> now]
      BY <1>1 DEF RenewScan
    <3>3. {l \in Superseded : DrainComplete(l, quiet)} \subseteq Leases
      BY DEF Superseded
    <3> HIDE DEF rows
    <3> QED
      BY <3>1, <3>2, <3>3 DEF RenewerTypeOK, StoreTypeOK
  <2>4. ASSUME NEW r \in Leases, Replacing(r) # {}
        PROVE  BuildReplacement(CHOOSE l \in Replacing(r) : TRUE) \in LeaseRow
    <3>1. (CHOOSE l \in Replacing(r) : TRUE) \in Replacing(r)
      BY <2>4
    <3> QED
      BY <2>1, <3>1, ReplacementType
  <2>5. ASSUME NEW r \in Leases PROVE [lease[r] EXCEPT !.drainingSince = now] \in LeaseRow
    BY RowUpdates DEF StoreTypeOK
  <2>6. lease' \in [Leases -> LeaseRow]
    <3>1. lease' = [r \in Leases |->
                     IF Replacing(r) # {}
                     THEN BuildReplacement(CHOOSE l \in Replacing(r) : TRUE)
                     ELSE IF r \in Superseded /\ lease[r].drainingSince = Never
                     THEN [lease[r] EXCEPT !.drainingSince = now]
                     ELSE lease[r]]
      BY <1>1 DEF RenewScan
    <3> HIDE DEF Replacing
    <3> QED
      BY <2>4, <2>5, <3>1 DEF StoreTypeOK
  <2> QED
    BY <1>1, <2>3, <2>6 DEF RenewScan, StoreTypeOK
<1>2. ASSUME NEW l \in Leases, RenewSbatch(l) PROVE StoreTypeOK' /\ RenewerTypeOK'
  <2>1. PICK j \in Jobs :
          /\ Sbatch(j, l)
          /\ renewer' = [renewer EXCEPT !.todo = @ \ {l}, !.subs = @ \cup {<<l, j>>}]
    BY <1>2 DEF RenewSbatch
  <2>2. JobTypeOK'
    BY <2>1, SbatchType DEF StoreTypeOK, JobTypeOK
  <2>3. RenewerTypeOK'
    <3>1. <<l, j>> \in Leases \X Jobs
      OBVIOUS
    <3>2. renewer.subs \cup {<<l, j>>} \subseteq Leases \X Jobs
      BY <3>1 DEF RenewerTypeOK
    <3>3. renewer.todo \ {l} \subseteq Leases
      BY DEF RenewerTypeOK
    <3> QED
      BY <2>1, <3>2, <3>3 DEF RenewerTypeOK
  <2> QED
    BY <1>2, <2>2, <2>3 DEF RenewSbatch, StoreTypeOK, JobTypeOK
<1>3. ASSUME NEW l \in Leases, RenewSbatchFails(l) PROVE StoreTypeOK' /\ RenewerTypeOK'
  <2>1. JobTypeOK'
    BY <1>3, SbatchRaisesType DEF RenewSbatchFails, StoreTypeOK, JobTypeOK
  <2>2. RenewerTypeOK'
    BY <1>3 DEF RenewSbatchFails, RenewerTypeOK
  <2> QED
    BY <1>3, <2>1, <2>2 DEF RenewSbatchFails, StoreTypeOK, JobTypeOK
<1>4. ASSUME NEW l \in Leases, RenewCancel(l) PROVE StoreTypeOK' /\ RenewerTypeOK'
  <2>1. lease[l].job \in Jobs \cup {NoJob}
    BY DEF StoreTypeOK, LeaseRow
  <2>2. JobTypeOK'
    BY <1>4, <2>1, ScancelType DEF RenewCancel, StoreTypeOK, JobTypeOK
  <2>3. RenewerTypeOK'
    BY <1>4 DEF RenewCancel, RenewerTypeOK
  <2> QED
    BY <1>4, <2>2, <2>3 DEF RenewCancel, StoreTypeOK, JobTypeOK
<1>5. CASE RenewWrite
  <2>1. renewer.now \in 0..MaxEnd
    BY Bounds DEF RenewerTypeOK, Time
  <2>2. ASSUME NEW l \in Leases, \E s \in renewer.subs : s[1] = l
        PROVE  (CHOOSE s \in renewer.subs : s[1] = l)[2] \in Jobs
    <3>1. (CHOOSE s \in renewer.subs : s[1] = l) \in renewer.subs
      BY <2>2
    <3> QED
      BY <3>1 DEF RenewerTypeOK
  <2>3. lease' \in [Leases -> LeaseRow]
    <3>1. ASSUME NEW l \in Leases
          PROVE  [lease[l] EXCEPT !.state = "ENDED", !.end = renewer.now] \in LeaseRow
      BY <2>1, RowUpdates DEF StoreTypeOK, LeaseState, Finished
    <3>2. ASSUME NEW l \in Leases, NEW j \in Jobs
          PROVE  [lease[l] EXCEPT !.state = "SUBMITTED", !.job = j] \in LeaseRow
      <4>1. lease[l] \in LeaseRow /\ "SUBMITTED" \in LeaseState
        BY DEF StoreTypeOK, LeaseState, Active
      <4> QED
        BY <4>1 DEF LeaseRow
    <3> QED
      BY <1>5, <2>2, <3>1, <3>2 DEF RenewWrite, StoreTypeOK
  <2>4. ep' \in [Jobs -> EndpointRow]
    BY <1>5, EndpointUpdates DEF RenewWrite, StoreTypeOK, EndpointState
  <2>5. RenewerTypeOK'
    <3>1. 0 \in Time
      BY Bounds DEF Time
    <3>2. RenewerIdle \in [todo : SUBSET Leases, subs : SUBSET (Leases \X Jobs),
                           retire : SUBSET Leases, pend : SUBSET Leases, now : Time]
      BY <3>1 DEF RenewerIdle
    <3> QED
      BY <1>5, <3>2 DEF RenewWrite, RenewerTypeOK
  <2> QED
    BY <1>5, <2>3, <2>4, <2>5 DEF RenewWrite, StoreTypeOK
<1> QED
  BY <1>1, <1>2, <1>3, <1>4, <1>5 DEF RenewNext, RenewStep

(* A create or request handler's own step, and a request that arrives. *)
LEMMA RequestTypes ==
  ASSUME StoreTypeOK, RequestTypeOK, NEW l \in Leases,
         \/ CreatePlanned(l) \/ CreateNow(l) \/ UpdateLease(l) \/ ExtendLease(l)
         \/ ShortenLease(l) \/ LockLease(l) \/ UnlockLease(l) \/ CancelLease(l)
         \/ RequestStep(l),
         UNCHANGED registering
  PROVE  StoreTypeOK' /\ RequestTypeOK'
<1>1. /\ lease[l] \in LeaseRow /\ lease[l].state \in LeaseState
      /\ lease[l].job \in Jobs \cup {NoJob} /\ lease[l].end \in 0..MaxEnd
      /\ now \in 0..MaxEnd /\ now \in Time /\ JobTypeOK
  BY Bounds DEF StoreTypeOK, LeaseRow, Time, JobTypeOK
<1>2. {"NONE", "PLANNED", "FAILED", "SUBMITTED", "CANCELED"} \subseteq LeaseState
  BY DEF LeaseState, Active, Finished
<1>3. Time \subseteq 0..MaxEnd
  BY Bounds DEF Time
<1>4. NotCreating \in [step : {"none", "submit", "record"}, job : Jobs \cup {NoJob}]
  BY DEF NotCreating
<1>5. NoRequest \in [op : {"none", "extend", "cancel", "stop"}, job : Jobs \cup {NoJob},
                     end : 0..MaxEnd, from : LeaseState]
  BY <1>2, Bounds DEF NoRequest
<1>6. Durations \subseteq Nat /\ Modes \subseteq {"session", "service"}
  BY BookingConstants
<1>7. CASE CreatePlanned(l)
  <2>1. PICK begin \in Time, d \in Durations, m \in Modes :
          /\ begin + d <= MaxEnd
          /\ lease' = [lease EXCEPT ![l] = [NoRow EXCEPT !.state = "PLANNED", !.begin = begin,
                                                        !.end = begin + d, !.mode = m]]
    BY <1>7 DEF CreatePlanned
  <2>2. begin \in 0..MaxEnd /\ begin + d \in 0..MaxEnd
    BY <1>3, <1>6, <2>1, Bounds DEF Time
  <2>3. lease' \in [Leases -> LeaseRow]
    BY <1>2, <1>6, <2>1, <2>2, NewRowType DEF StoreTypeOK
  <2> QED
    BY <1>7, <2>3 DEF CreatePlanned, StoreTypeOK, RequestTypeOK
<1>8. CASE CreateNow(l)
  <2>1. PICK d \in Durations, m \in Modes :
          /\ now + d <= MaxEnd
          /\ lease' = [lease EXCEPT ![l] = [NoRow EXCEPT !.state = "SUBMITTED", !.begin = now,
                                                        !.end = now + d, !.mode = m]]
    BY <1>8 DEF CreateNow
  <2>2. now + d \in 0..MaxEnd
    BY <1>1, <1>6, <2>1, Bounds
  <2>3. lease' \in [Leases -> LeaseRow]
    BY <1>1, <1>2, <1>6, <2>1, <2>2, NewRowType DEF StoreTypeOK
  <2> QED
    <3>1. creating' = [creating EXCEPT ![l].step = "submit"]
      BY <1>8 DEF CreateNow
    <3>2. [creating[l] EXCEPT !.step = "submit"]
            \in [step : {"none", "submit", "record"}, job : Jobs \cup {NoJob}]
      BY DEF RequestTypeOK
    <3>3. creating' \in [Leases -> [step : {"none", "submit", "record"},
                                    job : Jobs \cup {NoJob}]]
      BY <3>1, <3>2 DEF RequestTypeOK
    <3> QED
      BY <1>8, <2>3, <3>3 DEF CreateNow, StoreTypeOK, RequestTypeOK
<1>9. CASE UpdateLease(l)
  <2>1. PICK begin \in Time, d \in Durations :
          /\ begin + d <= MaxEnd
          /\ lease' = [lease EXCEPT ![l].begin = begin, ![l].end = begin + d]
    BY <1>9 DEF UpdateLease
  <2>2. begin \in 0..MaxEnd /\ begin + d \in 0..MaxEnd
    BY <1>3, <1>6, <2>1, Bounds DEF Time
  <2>3. lease' \in [Leases -> LeaseRow]
    BY <1>1, <2>1, <2>2, RowUpdates DEF StoreTypeOK
  <2> QED
    BY <1>9, <2>3 DEF UpdateLease, StoreTypeOK, RequestTypeOK
<1>10. ASSUME NEW e \in 0..MaxEnd, SetEnd(l, e)
       PROVE  /\ lease' \in [Leases -> LeaseRow]
              /\ request' \in [Leases -> [op : {"none", "extend", "cancel", "stop"},
                                         job : Jobs \cup {NoJob}, end : 0..MaxEnd,
                                         from : LeaseState]]
  <2>1. [NoRequest EXCEPT !.op = "extend", !.end = e]
          \in [op : {"none", "extend", "cancel", "stop"}, job : Jobs \cup {NoJob},
               end : 0..MaxEnd, from : LeaseState]
    BY <1>5
  <2>2. [lease[l] EXCEPT !.end = e] \in LeaseRow
    BY <1>1, RowUpdates
  <2>3. lease' \in [Leases -> LeaseRow]
    BY <1>10, <2>2 DEF SetEnd, StoreTypeOK
  <2>4. request' = request \/ request' = [request EXCEPT ![l] = [NoRequest EXCEPT
                                                                   !.op = "extend", !.end = e]]
    BY <1>10 DEF SetEnd
  <2>5. request' \in [Leases -> [op : {"none", "extend", "cancel", "stop"},
                                 job : Jobs \cup {NoJob}, end : 0..MaxEnd,
                                 from : LeaseState]]
    BY <2>1, <2>4 DEF RequestTypeOK
  <2> QED
    BY <2>3, <2>5
<1>11. CASE ExtendLease(l)
  <2>1. PICK d \in Durations : lease[l].end + d <= MaxEnd /\ SetEnd(l, lease[l].end + d)
    BY <1>11 DEF ExtendLease
  <2>2. lease[l].end + d \in 0..MaxEnd
    BY <1>1, <1>6, <2>1, Bounds
  <2> QED
    BY <1>10, <1>11, <2>1, <2>2 DEF ExtendLease, StoreTypeOK, RequestTypeOK
<1>12. CASE ShortenLease(l)
  BY <1>10, <1>12 DEF ShortenLease, StoreTypeOK, RequestTypeOK
<1>13. CASE LockLease(l)
  <2>1. PICK permanent \in BOOLEAN :
          lease' = [lease EXCEPT ![l].locked = TRUE,
                                 ![l].mode = IF permanent THEN "service" ELSE @,
                                 ![l].retries = IF permanent THEN 0 ELSE @]
    BY <1>13 DEF LockLease
  <2>2. lease[l].mode \in {"session", "service"} /\ lease[l].retries \in 0..MaxAttempts
        /\ 0 \in 0..MaxAttempts
    BY <1>1, Bounds DEF LeaseRow
  <2>3. lease' \in [Leases -> LeaseRow]
    BY <1>1, <2>1, <2>2, RowUpdates DEF StoreTypeOK
  <2> QED
    BY <1>13, <2>3 DEF LockLease, StoreTypeOK, RequestTypeOK
<1>14. CASE UnlockLease(l)
  BY <1>1, <1>14, RowUpdates DEF UnlockLease, StoreTypeOK, RequestTypeOK
<1>15. CASE CancelLease(l)
  <2>1. PICK op \in {"cancel", "stop"} :
          IF lease[l].job = NoJob
          THEN /\ lease' = [lease EXCEPT ![l].state = "CANCELED",
                                         ![l].end = IF op = "stop" THEN now ELSE @]
               /\ UNCHANGED <<job, request>>
          ELSE /\ Scancel(lease[l].job)
               /\ request' = [request EXCEPT ![l] = [op |-> op, job |-> lease[l].job,
                                                    end |-> 0, from |-> lease[l].state]]
               /\ UNCHANGED lease
    BY <1>15 DEF CancelLease
  <2>2. CASE lease[l].job = NoJob
    <3>1. lease' \in [Leases -> LeaseRow]
      <4>1. \A e \in 0..MaxEnd :
              [lease[l] EXCEPT !.state = "CANCELED", !.end = e] \in LeaseRow
        BY <1>1, <1>2, RowUpdates
      <4>2. [lease[l] EXCEPT !.state = "CANCELED", !.end = IF op = "stop" THEN now ELSE @]
              \in LeaseRow
        BY <1>1, <4>1
      <4> QED
        BY <2>1, <2>2, <4>2 DEF StoreTypeOK
    <3> QED
      BY <1>15, <2>1, <2>2, <3>1 DEF CancelLease, StoreTypeOK, RequestTypeOK
  <2>3. CASE lease[l].job # NoJob
    <3>1. JobTypeOK'
      BY <1>1, <2>1, <2>3, ScancelType
    <3>2. [op |-> op, job |-> lease[l].job, end |-> 0, from |-> lease[l].state]
            \in [op : {"none", "extend", "cancel", "stop"}, job : Jobs \cup {NoJob},
                 end : 0..MaxEnd, from : LeaseState]
      BY <1>1, Bounds
    <3>3. request' \in [Leases -> [op : {"none", "extend", "cancel", "stop"},
                                   job : Jobs \cup {NoJob}, end : 0..MaxEnd,
                                   from : LeaseState]]
      BY <2>1, <2>3, <3>2 DEF RequestTypeOK
    <3>4. UNCHANGED <<now, lease, ep, creating>>
      BY <1>15, <2>1, <2>3 DEF CancelLease
    <3> QED
      BY <3>1, <3>3, <3>4 DEF StoreTypeOK, RequestTypeOK, JobTypeOK
  <2> QED
    BY <2>2, <2>3
<1>16. CASE CreateSbatch(l)
  <2>1. PICK j \in Jobs :
          Sbatch(j, l) /\ creating' = [creating EXCEPT ![l] = [step |-> "record", job |-> j]]
    BY <1>16 DEF CreateSbatch
  <2>2. JobTypeOK'
    BY <1>1, <2>1, SbatchType
  <2> QED
    BY <1>16, <2>1, <2>2 DEF CreateSbatch, StoreTypeOK, RequestTypeOK, JobTypeOK
<1>17. CASE CreateRecord(l)
  <2>1. creating[l].job \in Jobs \cup {NoJob}
    BY DEF RequestTypeOK
  <2>2. lease' \in [Leases -> LeaseRow]
    BY <1>1, <1>17, <2>1, RowUpdates DEF CreateRecord, StoreTypeOK
  <2> QED
    BY <1>4, <1>17, <2>2 DEF CreateRecord, StoreTypeOK, RequestTypeOK
<1>18. CASE CreateFails(l)
  <2>1. JobTypeOK'
    BY <1>1, <1>18, SbatchRaisesType DEF CreateFails
  <2>2. lease' \in [Leases -> LeaseRow]
    BY <1>1, <1>18, RowUpdates DEF CreateFails, StoreTypeOK
  <2> QED
    BY <1>4, <1>18, <2>1, <2>2 DEF CreateFails, StoreTypeOK, RequestTypeOK, JobTypeOK
<1>19. CASE CommitEnd(l)
  <2>1. request[l].end \in 0..MaxEnd
    BY DEF RequestTypeOK
  <2>2. lease' \in [Leases -> LeaseRow]
    BY <1>1, <1>19, <2>1, RowUpdates DEF CommitEnd, StoreTypeOK
  <2>3. request' \in [Leases -> [op : {"none", "extend", "cancel", "stop"},
                                 job : Jobs \cup {NoJob}, end : 0..MaxEnd,
                                 from : LeaseState]]
    BY <1>5, <1>19 DEF CommitEnd, Done, RequestTypeOK
  <2>4. UNCHANGED <<now, job, ep, creating>>
    BY <1>19 DEF CommitEnd
  <2> QED
    BY <2>2, <2>3, <2>4 DEF StoreTypeOK, RequestTypeOK
<1>20. CASE CommitCancel(l)
  <2>1. lease' \in [Leases -> LeaseRow]
    <3>1. PICK s \in LeaseState, e \in 0..MaxEnd :
            lease' = [lease EXCEPT ![l].state = s, ![l].end = e]
      BY <1>1, <1>2, <1>20 DEF CommitCancel
    <3>2. [lease[l] EXCEPT !.state = s, !.end = e] \in LeaseRow
      BY <1>1, RowUpdates
    <3> QED
      BY <3>1, <3>2 DEF StoreTypeOK
  <2>2. ep' \in [Jobs -> EndpointRow]
    <3>1. \A j \in Jobs : ep[j].state \in EndpointState /\ "STOPPED" \in EndpointState
      BY DEF StoreTypeOK, EndpointRow, EndpointState
    <3> QED
      BY <1>20, <3>1, EndpointUpdates DEF CommitCancel, StoreTypeOK
  <2> QED
    BY <1>5, <1>20, <2>1, <2>2 DEF CommitCancel, Done, StoreTypeOK, RequestTypeOK
<1> QED
  BY <1>7, <1>8, <1>9, <1>11, <1>12, <1>13, <1>14, <1>15, <1>16, <1>17, <1>18, <1>19, <1>20
  DEF RequestStep

LEMMA RegistrationTypes ==
  ASSUME StoreTypeOK, RequestTypeOK, NEW j \in Jobs, RegisterEndpoint(j) \/ RegisterLease(j),
         UNCHANGED <<creating, request>>
  PROVE  StoreTypeOK' /\ RequestTypeOK'
<1>1. CASE RegisterEndpoint(j)
  <2>1. [state |-> "STARTING", fails |-> 0, born |-> now] \in EndpointRow
    BY DEF StoreTypeOK, EndpointRow, EndpointState
  <2>2. ep' \in [Jobs -> EndpointRow]
    BY <1>1, <2>1, EndpointUpdates DEF RegisterEndpoint, StoreTypeOK, EndpointState
  <2> QED
    BY <1>1, <2>2 DEF RegisterEndpoint, StoreTypeOK, RequestTypeOK
<1>2. CASE RegisterLease(j)
  <2>1. lease' \in [Leases -> LeaseRow]
    BY <1>2, RowUpdates DEF RegisterLease, StoreTypeOK, LeaseState, Active
  <2>2. job' \in [Jobs -> [st : JobState, for : Leases \cup {NoLease}]]
    BY <1>2 DEF RegisterLease, StoreTypeOK, JobState
  <2> QED
    BY <1>2, <2>1, <2>2 DEF RegisterLease, StoreTypeOK, RequestTypeOK
<1> QED
  BY <1>1, <1>2

LEMMA ClusterTypes ==
  ASSUME StoreTypeOK, Tick \/ ClusterNext
  PROVE  StoreTypeOK'
<1>1. CASE Tick
  BY <1>1, Bounds DEF Tick, StoreTypeOK, Time
<1>2. ASSUME NEW j \in Jobs,
             JobStarts(j) \/ GivesUpRegistering(j) \/ ModelLoads(j) \/ JobExits(j)
      PROVE  StoreTypeOK'
  BY <1>2 DEF JobStarts, GivesUpRegistering, ModelLoads, JobExits, StoreTypeOK, JobState, Killed
<1> QED
  BY <1>1, <1>2 DEF ClusterNext

LEMMA IdleTypes ==
  ASSUME AllIdle
  PROVE  /\ SubmitterTypeOK /\ RetrierTypeOK /\ CleanerTypeOK /\ ReconcilerTypeOK
         /\ ProberTypeOK /\ RenewerTypeOK /\ RequestTypeOK
<1>1. 0 \in Time /\ 0 \in 0..MaxEnd /\ "NONE" \in LeaseState
  BY Bounds DEF Time, LeaseState
<1>2. SubmitterTypeOK /\ RetrierTypeOK
  BY <1>1 DEF AllIdle, SubmitterIdle, SubmitterTypeOK, RetrierIdle, RetrierTypeOK
<1>3. CleanerTypeOK /\ ReconcilerTypeOK
  BY <1>1 DEF AllIdle, CleanerIdle, CleanerTypeOK, ReconcilerIdle, ReconcilerTypeOK
<1>4. ProberTypeOK /\ RenewerTypeOK
  BY <1>1 DEF AllIdle, ProberIdle, ProberTypeOK, RenewerIdle, RenewerTypeOK
<1>5. RequestTypeOK
  BY <1>1 DEF AllIdle, NotCreating, NoRequest, RequestTypeOK
<1> QED
  BY <1>2, <1>3, <1>4, <1>5

LEMMA RestartTypes ==
  ASSUME StoreTypeOK, ReconcileOnStartup
  PROVE  StoreTypeOK'
<1>1. PICK gone, goneAgain :
        /\ lease' = [l \in Leases |-> RestartedLease(l, gone)]
        /\ ep' = [j \in Jobs |-> RestartedEndpoint(j, gone, goneAgain)]
  BY DEF ReconcileOnStartup
<1>2. ASSUME NEW l \in Leases PROVE RestartedLease(l, gone) \in LeaseRow
  BY RowUpdates DEF RestartedLease, StoreTypeOK, LeaseState, Finished
<1>3. ASSUME NEW j \in Jobs PROVE RestartedEndpoint(j, gone, goneAgain) \in EndpointRow
  BY EndpointUpdates DEF RestartedEndpoint, StoreTypeOK, EndpointState
<1> QED
  BY <1>1, <1>2, <1>3 DEF ReconcileOnStartup, StoreTypeOK

-------------------------------------------------------------------------------
(* The whole process                                                        *)

LEMMA InitTypes == Init => TypeOK
<1> SUFFICES ASSUME Init PROVE TypeOK
  OBVIOUS
<1>1. lease \in [Leases -> LeaseRow]
  BY NoRowType DEF Init, StoreInit
<1>2. now \in Time /\ ep \in [Jobs -> EndpointRow]
  BY Bounds DEF Init, StoreInit, EndpointRow, EndpointState, Time
<1>3. job \in [Jobs -> [st : JobState, for : Leases \cup {NoLease}]]
  BY DEF Init, StoreInit, JobState
<1>4. up \in BOOLEAN /\ crashes \in 0..MaxCrashes
  BY SchedulerConstants DEF Init
<1> QED
  BY <1>1, <1>2, <1>3, <1>4, IdleTypes DEF Init, TypeOK, StoreTypeOK

LEMMA NextTypes == TypeOK /\ [Next]_vars => TypeOK'
<1> SUFFICES ASSUME TypeOK, [Next]_vars PROVE TypeOK'
  OBVIOUS
<1> USE DEF TypeOK
<1>1. CASE Submitter
  BY <1>1, SubmitterTypes
  DEF Submitter, Running, handlers, RetrierTypeOK, CleanerTypeOK, ReconcilerTypeOK,
      ProberTypeOK, RenewerTypeOK, RequestTypeOK
<1>2. CASE Retrier
  BY <1>2, RetrierTypes
  DEF Retrier, Running, handlers, SubmitterTypeOK, CleanerTypeOK, ReconcilerTypeOK,
      ProberTypeOK, RenewerTypeOK, RequestTypeOK
<1>3. CASE Cleaner
  BY <1>3, CleanerTypes
  DEF Cleaner, Running, handlers, SubmitterTypeOK, RetrierTypeOK, ReconcilerTypeOK,
      ProberTypeOK, RenewerTypeOK, RequestTypeOK
<1>4. CASE Reconciler
  BY <1>4, ReconcilerTypes
  DEF Reconciler, Running, handlers, SubmitterTypeOK, RetrierTypeOK, CleanerTypeOK,
      ProberTypeOK, RenewerTypeOK, RequestTypeOK
<1>5. CASE Prober
  BY <1>5, ProberTypes
  DEF Prober, Running, handlers, SubmitterTypeOK, RetrierTypeOK, CleanerTypeOK,
      ReconcilerTypeOK, RenewerTypeOK, RequestTypeOK
<1>6. CASE Renewer
  BY <1>6, RenewerTypes
  DEF Renewer, Running, handlers, SubmitterTypeOK, RetrierTypeOK, CleanerTypeOK,
      ReconcilerTypeOK, ProberTypeOK, RequestTypeOK
<1>7. ASSUME Users \/ \E l \in Leases : Handler(l) PROVE TypeOK'
  <2>1. PICK l \in Leases :
          \/ CreatePlanned(l) \/ CreateNow(l) \/ UpdateLease(l) \/ ExtendLease(l)
          \/ ShortenLease(l) \/ LockLease(l) \/ UnlockLease(l) \/ CancelLease(l)
          \/ RequestStep(l)
    BY <1>7 DEF Users, RequestArrives, Handler
  <2>2. /\ UNCHANGED <<submitter, retrier, cleaner, reconciler, prober, renewer>>
        /\ UNCHANGED <<registering, up, crashes>>
    BY <1>7 DEF Users, Handler, Running
  <2>3. StoreTypeOK' /\ RequestTypeOK'
    BY <2>1, <2>2, RequestTypes
  <2> QED
    BY <2>2, <2>3
    DEF SubmitterTypeOK, RetrierTypeOK, CleanerTypeOK, ReconcilerTypeOK, ProberTypeOK,
        RenewerTypeOK
<1>8. ASSUME NEW j \in Jobs, Registration(j) PROVE TypeOK'
  BY <1>8, RegistrationTypes
  DEF Registration, Running, SubmitterTypeOK, RetrierTypeOK, CleanerTypeOK,
      ReconcilerTypeOK, ProberTypeOK, RenewerTypeOK
<1>9. ASSUME UNCHANGED workerVars
      PROVE  /\ SubmitterTypeOK' /\ RetrierTypeOK' /\ CleanerTypeOK' /\ ReconcilerTypeOK'
             /\ ProberTypeOK' /\ RenewerTypeOK' /\ RequestTypeOK'
  BY <1>9
  DEF workerVars, handlers, SubmitterTypeOK, RetrierTypeOK, CleanerTypeOK, ReconcilerTypeOK,
      ProberTypeOK, RenewerTypeOK, RequestTypeOK
<1>10. CASE Clock \/ Cluster
  BY <1>9, <1>10, ClusterTypes DEF Clock, Cluster
<1>11. CASE Crash
  <2>1. AllIdle'
    BY <1>11 DEF Crash, AllIdle, SubmitterIdle, RetrierIdle, CleanerIdle, ReconcilerIdle,
                 ProberIdle, RenewerIdle
  <2>2. /\ SubmitterTypeOK' /\ RetrierTypeOK' /\ CleanerTypeOK' /\ ReconcilerTypeOK'
        /\ ProberTypeOK' /\ RenewerTypeOK' /\ RequestTypeOK'
    BY <2>1, IdleTypes, PTL
  <2>3. StoreTypeOK'
    BY <1>11 DEF Crash, storeVars, StoreTypeOK
  <2>4. crashes' \in 0..MaxCrashes
    BY <1>11, SchedulerConstants DEF Crash
  <2>5. up' \in BOOLEAN
    BY <1>11 DEF Crash
  <2> QED
    BY <2>2, <2>3, <2>4, <2>5
<1>12. CASE ReconcileOnStartup
  BY <1>9, <1>12, RestartTypes DEF ReconcileOnStartup
<1>13. CASE TakeOver
  BY <1>9, <1>13 DEF TakeOver, storeVars, StoreTypeOK
<1>14. CASE UNCHANGED vars
  BY <1>9, <1>14 DEF vars, storeVars, StoreTypeOK
<1> QED
  BY <1>1, <1>2, <1>3, <1>4, <1>5, <1>6, <1>7, <1>8, <1>10, <1>11, <1>12, <1>13, <1>14
  DEF Next

(* Every value the code stores stays in its column's range: in particular  *)
(* no worker writes a job number, a window or a counter out of range.      *)
THEOREM TypeCorrect == Spec => []TypeOK
<1>1. Init => TypeOK
  BY InitTypes
<1>2. TypeOK /\ [Next]_vars => TypeOK'
  BY NextTypes
<1> QED
  BY <1>1, <1>2, PTL DEF Spec

-------------------------------------------------------------------------------
(* Whom a job belongs to                                                    *)

(* A job that does not exist yet belongs to nobody; a job number that a    *)
(* booking holds, or that a coroutine is about to write to it, was handed  *)
(* out for that booking.                                                   *)
Owned ==
  /\ \A j \in Jobs : job[j].st = "UNBORN" => job[j].for = NoLease
  /\ \A l \in Leases : lease[l].job # NoJob => job[lease[l].job].for = l
  /\ \A l \in Leases, j \in Jobs : InFlight(j, l) => job[j].for = l

(* What a step can do to Slurm's table. *)
JobSteps ==
  \A j \in Jobs :
    \/ job'[j].for = job[j].for /\ (job'[j].st = "UNBORN" => job[j].st = "UNBORN")
    \/ job[j].st = "UNBORN" /\ job'[j].st = "PENDING" /\ job'[j].for \in Leases

LEMMA SbatchSteps ==
  ASSUME JobTypeOK, NEW j \in Jobs, NEW l \in Leases, Sbatch(j, l)
  PROVE  JobSteps /\ job[j].st = "UNBORN" /\ job'[j].for = l
  BY DEF JobTypeOK, Sbatch, IsNextJob, JobSteps

LEMMA SbatchRaisesSteps ==
  ASSUME JobTypeOK, NEW l \in Leases, SbatchRaises(l)
  PROVE  JobSteps
  BY SbatchSteps DEF SbatchRaises, JobSteps

LEMMA ScancelSteps ==
  ASSUME JobTypeOK, NEW j \in Jobs \cup {NoJob}, Scancel(j)
  PROVE  JobSteps
  BY DEF JobTypeOK, Scancel, Killed, JobSteps

(* The retry worker is at a booking whenever it is past the claim. *)
RetrierAtLease == retrier.step # "none" => retrier.cur \in Leases

LEMMA RetrierStaysAtLease ==
  ASSUME TypeOK, RetrierAtLease, [Next]_vars
  PROVE  RetrierAtLease'
<1>1. CASE UNCHANGED retrier
  BY <1>1 DEF RetrierAtLease
<1>2. CASE Retrier
  <2>1. CASE RetryScan
    BY <2>1 DEF RetryScan, RetrierIdle, RetrierAtLease
  <2>2. ASSUME NEW l \in Leases, RetryClaim(l) PROVE RetrierAtLease'
    BY <2>2 DEF RetryClaim, RetrierAtLease, TypeOK, RetrierTypeOK
  <2>3. ASSUME NEW l, retrier' = RetrierAfter(l) PROVE RetrierAtLease'
    BY <2>3 DEF RetrierAfter, RetrierIdle, RetrierAtLease
  <2>4. CASE RetryCancel \/ RetrySbatch
    BY <2>4 DEF RetryCancel, RetrySbatch, RetrierAtLease, TypeOK, RetrierTypeOK
  <2> QED
    BY <1>2, <2>1, <2>2, <2>3, <2>4
    DEF Retrier, RetryNext, RetryStep, RetrySkip, RetryRecord, RetryFails
<1>3. CASE Crash
  BY <1>3 DEF Crash, RetrierIdle, RetrierAtLease
<1> QED
  BY <1>1, <1>2, <1>3
  DEF Next, vars, workerVars, Submitter, Cleaner, Reconciler, Prober, Renewer, Users, Handler,
      Registration, Clock, Cluster, ReconcileOnStartup, TakeOver

(* A job is handed out once, for one booking, for good. *)
LEMMA NextJobs ==
  ASSUME TypeOK, RetrierAtLease, [Next]_vars
  PROVE  JobSteps
<1>1. JobTypeOK
  BY DEF TypeOK, StoreTypeOK, JobTypeOK
<1>2. CASE UNCHANGED job
  BY <1>2 DEF JobSteps
<1>3. CASE Submitter
  BY <1>1, <1>2, <1>3, SbatchSteps, SbatchRaisesSteps
  DEF Submitter, SubmitNext, SubmitScan, SubmitStep, SubmitSbatch, SubmitRecord, SubmitFails
<1>4. CASE Retrier
  <2>1. CASE RetryCancel
    <3>1. retrier.job \in Jobs \cup {NoJob}
      BY DEF TypeOK, RetrierTypeOK
    <3> QED
      BY <1>1, <2>1, <3>1, ScancelSteps DEF RetryCancel
  <2>2. CASE RetrySbatch \/ RetryFails
    <3>1. retrier.cur \in Leases
      BY <2>2 DEF RetrySbatch, RetryFails, RetrierAtLease
    <3> QED
      BY <1>1, <2>2, <3>1, SbatchSteps, SbatchRaisesSteps DEF RetrySbatch, RetryFails
  <2> QED
    BY <1>2, <1>4, <2>1, <2>2
    DEF Retrier, RetryNext, RetryScan, RetryStep, RetryClaim, RetrySkip, RetryRecord, storeVars
<1>5. CASE Cleaner
  <2>1. ASSUME NEW a \in cleaner.pend, CleanupCancel(a) PROVE JobSteps
    <3>1. a.job \in Jobs
      BY DEF TypeOK, CleanerTypeOK, CleanupAction
    <3> QED
      BY <1>1, <2>1, <3>1, ScancelSteps DEF CleanupCancel
  <2> QED
    BY <1>2, <1>5, <2>1 DEF Cleaner, CleanupNext, CleanupScan, CleanupStep, CleanupWrite, storeVars
<1>6. CASE Renewer
  <2>1. ASSUME NEW l \in Leases, RenewSbatch(l) \/ RenewSbatchFails(l) PROVE JobSteps
    BY <1>1, <2>1, SbatchSteps, SbatchRaisesSteps DEF RenewSbatch, RenewSbatchFails
  <2>2. ASSUME NEW l \in Leases, RenewCancel(l) PROVE JobSteps
    <3>1. lease[l].job \in Jobs \cup {NoJob}
      BY DEF TypeOK, StoreTypeOK, LeaseRow
    <3> QED
      BY <1>1, <1>2, <2>2, <3>1, ScancelSteps DEF RenewCancel
  <2> QED
    BY <1>2, <1>6, <2>1, <2>2 DEF Renewer, RenewNext, RenewScan, RenewStep, RenewWrite
<1>7. CASE Users
  <2>1. ASSUME NEW l \in Leases, CancelLease(l) PROVE JobSteps
    <3>1. lease[l].job \in Jobs \cup {NoJob}
      BY DEF TypeOK, StoreTypeOK, LeaseRow
    <3> QED
      BY <1>1, <1>2, <2>1, <3>1, ScancelSteps DEF CancelLease
  <2> QED
    BY <1>2, <1>7, <2>1
    DEF Users, RequestArrives, CreatePlanned, CreateNow, UpdateLease, ExtendLease, ShortenLease,
        LockLease, UnlockLease
<1>8. ASSUME NEW l \in Leases, Handler(l) PROVE JobSteps
  BY <1>1, <1>2, <1>8, SbatchSteps, SbatchRaisesSteps
  DEF Handler, RequestStep, CreateSbatch, CreateRecord, CreateFails, CommitEnd, CommitCancel
<1>9. CASE Cluster \/ \E j \in Jobs : Registration(j)
  BY <1>1, <1>2, <1>9
  DEF Cluster, ClusterNext, JobStarts, GivesUpRegistering, ModelLoads, JobExits, Killed, Live,
      Left, JobState, Registration, RegisterEndpoint, RegisterLease, JobSteps, JobTypeOK
<1> QED
  BY <1>2, <1>3, <1>4, <1>5, <1>6, <1>7, <1>8, <1>9
  DEF Next, vars, storeVars, Reconciler, ReconcileNext, ReconcileScan, ReconcileStep,
      ReconcileQuery, ReconcileUnavailable, ReconcileApply, Prober, HealthNext, HealthProbe,
      HealthApply, Clock, Tick, Crash, ReconcileOnStartup, TakeOver

(* What an update of a row leaves alone. *)
LEMMA RowFields ==
  ASSUME NEW r \in LeaseRow
  PROVE  /\ \A at : /\ Fail(r, at).job = r.job /\ Fail(r, at).state = "FAILED"
                    /\ Fail(r, at).failedAt = at
         /\ \A s : /\ [r EXCEPT !.state = s].job = r.job
                   /\ [r EXCEPT !.state = s].state = s
                   /\ [r EXCEPT !.state = s].failedAt = r.failedAt
         /\ \A s, n : /\ [r EXCEPT !.state = s, !.retries = n].job = r.job
                      /\ [r EXCEPT !.state = s, !.retries = n].state = s
                      /\ [r EXCEPT !.state = s, !.end = n].job = r.job
                      /\ [r EXCEPT !.state = s, !.end = n].state = s
         /\ \A b, e : /\ [r EXCEPT !.begin = b, !.end = e].job = r.job
                      /\ [r EXCEPT !.begin = b, !.end = e].state = r.state
                      /\ [r EXCEPT !.begin = b, !.end = e].failedAt = r.failedAt
         /\ \A at : /\ [r EXCEPT !.drainingSince = at].job = r.job
                    /\ [r EXCEPT !.drainingSince = at].state = r.state
                    /\ [r EXCEPT !.drainingSince = at].failedAt = r.failedAt
<1>1. \A at : /\ Fail(r, at).job = r.job /\ Fail(r, at).state = "FAILED"
              /\ Fail(r, at).failedAt = at
  BY DEF LeaseRow, Fail
<1>2. \A s : /\ [r EXCEPT !.state = s].job = r.job
             /\ [r EXCEPT !.state = s].state = s
             /\ [r EXCEPT !.state = s].failedAt = r.failedAt
  BY DEF LeaseRow
<1>3. \A s, n : /\ [r EXCEPT !.state = s, !.retries = n].job = r.job
                /\ [r EXCEPT !.state = s, !.retries = n].state = s
                /\ [r EXCEPT !.state = s, !.end = n].job = r.job
                /\ [r EXCEPT !.state = s, !.end = n].state = s
  BY DEF LeaseRow
<1>4. \A b, e : /\ [r EXCEPT !.begin = b, !.end = e].job = r.job
                /\ [r EXCEPT !.begin = b, !.end = e].state = r.state
                /\ [r EXCEPT !.begin = b, !.end = e].failedAt = r.failedAt
  BY DEF LeaseRow
<1>5. \A at : /\ [r EXCEPT !.drainingSince = at].job = r.job
              /\ [r EXCEPT !.drainingSince = at].state = r.state
              /\ [r EXCEPT !.drainingSince = at].failedAt = r.failedAt
  BY DEF LeaseRow
<1> QED
  BY <1>1, <1>2, <1>3, <1>4, <1>5

(* A new booking has no job and has not failed. *)
LEMMA NewRows ==
  ASSUME NEW m \in Leases, CreatePlanned(m) \/ CreateNow(m)
  PROVE  \E r : r.job = NoJob /\ r.state # "FAILED" /\ lease' = [lease EXCEPT ![m] = r]
<1>1. CASE CreatePlanned(m)
  <2>1. PICK b, e, k :
          lease' = [lease EXCEPT ![m] = [NoRow EXCEPT !.state = "PLANNED", !.begin = b,
                                                      !.end = e, !.mode = k]]
    BY <1>1 DEF CreatePlanned
  <2> DEFINE r == [NoRow EXCEPT !.state = "PLANNED", !.begin = b, !.end = e, !.mode = k]
  <2>2. r.job = NoJob /\ r.state # "FAILED"
    BY DEF NoRow
  <2> QED
    BY <2>1, <2>2
<1>2. CASE CreateNow(m)
  <2>1. PICK e, k :
          lease' = [lease EXCEPT ![m] = [NoRow EXCEPT !.state = "SUBMITTED", !.begin = now,
                                                      !.end = e, !.mode = k]]
    BY <1>2 DEF CreateNow
  <2> DEFINE r == [NoRow EXCEPT !.state = "SUBMITTED", !.begin = now, !.end = e, !.mode = k]
  <2>2. r.job = NoJob /\ r.state # "FAILED"
    BY DEF NoRow
  <2> QED
    BY <2>1, <2>2
<1> QED
  BY <1>1, <1>2

(* What the renewal's scan may do to a row. *)
LEMMA ScannedRows ==
  ASSUME RenewScan, NEW l \in Leases
  PROVE  \/ lease'[l] \in {lease[l], [lease[l] EXCEPT !.drainingSince = now]}
         \/ lease'[l].job = NoJob /\ lease'[l].state = "PLANNED"
<1>1. \A m : BuildReplacement(m).job = NoJob /\ BuildReplacement(m).state = "PLANNED"
  BY DEF BuildReplacement, NoRow
<1>2. \/ lease'[l] \in {lease[l], [lease[l] EXCEPT !.drainingSince = now]}
      \/ \E m : lease'[l] = BuildReplacement(m)
  BY DEF RenewScan
<1> QED
  BY <1>1, <1>2

(* The only job number a step can write to a booking is one in flight for it. *)
LEMMA NextRecords ==
  ASSUME TypeOK, [Next]_vars, NEW l \in Leases
  PROVE  lease'[l].job \in {lease[l].job, NoJob} \/ InFlight(lease'[l].job, l)
<1>1. lease \in [Leases -> LeaseRow] /\ lease[l] \in LeaseRow
  BY DEF TypeOK, StoreTypeOK
<1> DEFINE Goal == lease'[l].job \in {lease[l].job, NoJob} \/ InFlight(lease'[l].job, l)
<1>2. CASE UNCHANGED lease
  BY <1>2
<1>3. CASE Submitter
  <2>1. CASE SubmitScan
    BY <1>1, <2>1, RowFields DEF SubmitScan
  <2>2. ASSUME NEW m \in Leases, SubmitRecord(m) PROVE Goal
    BY <1>1, <2>2 DEF SubmitRecord, InFlight, LeaseRow
  <2>3. ASSUME NEW m \in Leases, SubmitFails(m) PROVE Goal
    BY <1>1, <2>3, RowFields DEF SubmitFails
  <2> QED
    BY <1>2, <1>3, <2>1, <2>2, <2>3 DEF Submitter, SubmitNext, SubmitStep, SubmitSbatch
<1>4. CASE Retrier
  <2>1. CASE RetryScan
    <3>1. PICK b, e : lease'[l] \in {lease[l], [lease[l] EXCEPT !.begin = b, !.end = e]}
      BY <2>1 DEF RetryScan
    <3>2. [lease[l] EXCEPT !.begin = b, !.end = e].job = lease[l].job
      BY <1>1 DEF LeaseRow
    <3> QED
      BY <3>1, <3>2
  <2>2. ASSUME NEW m \in Leases, RetryClaim(m) PROVE Goal
    BY <1>1, <2>2 DEF RetryClaim, LeaseRow
  <2>3. CASE RetryRecord
    BY <1>1, <2>3 DEF RetryRecord, InFlight, LeaseRow
  <2>4. CASE RetryFails
    BY <1>1, <2>4, RowFields DEF RetryFails
  <2> QED
    BY <1>2, <1>4, <2>1, <2>2, <2>3, <2>4
    DEF Retrier, RetryNext, RetryStep, RetrySkip, RetryCancel, RetrySbatch, storeVars
<1>5. CASE Cleaner
  BY <1>1, <1>2, <1>5
  DEF Cleaner, CleanupNext, CleanupScan, CleanupStep, CleanupCancel, CleanupWrite, LeaseRow,
      storeVars
<1>6. CASE Reconciler
  <2>1. ASSUME NEW checks, NEW expiry, NEW gone, NEW at,
               ReconcileWrite(checks, expiry, gone, at)
        PROVE  Goal
    BY <1>1, <2>1, RowFields DEF ReconcileWrite
  <2> QED
    BY <1>2, <1>6, <2>1
    DEF Reconciler, ReconcileNext, ReconcileScan, ReconcileStep, ReconcileQuery,
        ReconcileUnavailable, ReconcileApply, storeVars
<1>7. CASE Prober
  <2>1. CheckedLease(l).job = lease[l].job
    BY <1>1, RowFields DEF CheckedLease
  <2> QED
    BY <1>2, <1>7, <2>1 DEF Prober, HealthNext, HealthProbe, HealthApply, storeVars
<1>8. CASE Renewer
  <2>1. CASE RenewWrite
    <3>1. CASE l \in renewer.retire
      <4>1. lease'[l] = [lease[l] EXCEPT !.state = "ENDED", !.end = renewer.now]
        BY <2>1, <3>1 DEF RenewWrite
      <4> QED
        BY <1>1, <4>1, RowFields
    <3>2. CASE l \notin renewer.retire /\ \E s \in renewer.subs : s[1] = l
      <4> DEFINE s == CHOOSE s \in renewer.subs : s[1] = l
      <4>1. s \in renewer.subs /\ s[1] = l
        BY <3>2
      <4>2. s = <<l, s[2]>>
        BY <4>1 DEF TypeOK, RenewerTypeOK
      <4>3. lease'[l].job = s[2]
        BY <1>1, <2>1, <3>2 DEF RenewWrite, LeaseRow
      <4> QED
        BY <4>1, <4>2, <4>3 DEF InFlight
    <3>3. CASE l \notin renewer.retire /\ ~\E s \in renewer.subs : s[1] = l
      BY <2>1, <3>3 DEF RenewWrite
    <3> QED
      BY <3>1, <3>2, <3>3
  <2>2. CASE RenewScan
    <3>1. [lease[l] EXCEPT !.drainingSince = now].job = lease[l].job
      BY <1>1, RowFields
    <3> QED
      BY <2>2, <3>1, ScannedRows
  <2> QED
    BY <1>2, <1>8, <2>1, <2>2
    DEF Renewer, RenewNext, RenewStep, RenewSbatch, RenewSbatchFails, RenewCancel
<1>9. CASE Users
  <2>1. ASSUME NEW m \in Leases, CreatePlanned(m) \/ CreateNow(m) PROVE Goal
    BY <1>1, <2>1, NewRows
  <2>2. ASSUME NEW m \in Leases, UpdateLease(m) PROVE Goal
    BY <1>1, <2>2 DEF UpdateLease, LeaseRow
  <2>3. ASSUME NEW m \in Leases, ExtendLease(m) \/ ShortenLease(m) PROVE Goal
    <3>1. ASSUME NEW e, SetEnd(m, e) PROVE Goal
      BY <1>1, <3>1 DEF SetEnd, LeaseRow
    <3> QED
      BY <2>3, <3>1 DEF ExtendLease, ShortenLease
  <2>4. ASSUME NEW m \in Leases, LockLease(m) \/ UnlockLease(m) PROVE Goal
    <3>1. CASE LockLease(m)
      <4>1. PICK x, y : lease' = [lease EXCEPT ![m].locked = TRUE, ![m].mode = x, ![m].retries = y]
        BY <3>1 DEF LockLease
      <4> QED
        BY <1>1, <4>1 DEF LeaseRow
    <3>2. CASE UnlockLease(m)
      BY <1>1, <3>2 DEF UnlockLease, LeaseRow
    <3> QED
      BY <2>4, <3>1, <3>2
  <2>5. ASSUME NEW m \in Leases, CancelLease(m) PROVE Goal
    BY <1>1, <2>5 DEF CancelLease, LeaseRow
  <2> QED
    BY <1>9, <2>1, <2>2, <2>3, <2>4, <2>5 DEF Users, RequestArrives
<1>10. ASSUME NEW m \in Leases, Handler(m) PROVE Goal
  <2>1. CASE CreateSbatch(m)
    BY <1>2, <2>1 DEF CreateSbatch
  <2>2. CASE CreateRecord(m)
    BY <1>1, <2>2 DEF CreateRecord, InFlight, LeaseRow
  <2>3. CASE CreateFails(m)
    BY <1>1, <2>3, RowFields DEF CreateFails
  <2>4. CASE CommitEnd(m) \/ CommitCancel(m)
    BY <1>1, <2>4 DEF CommitEnd, CommitCancel, LeaseRow
  <2> QED
    BY <1>10, <2>1, <2>2, <2>3, <2>4 DEF Handler, RequestStep
<1>11. ASSUME NEW j \in Jobs, Registration(j) PROVE Goal
  <2>1. CASE RegisterLease(j)
    BY <1>1, <2>1, RowFields DEF RegisterLease
  <2> QED
    BY <1>2, <1>11, <2>1 DEF Registration, RegisterEndpoint
<1>12. CASE ReconcileOnStartup
  BY <1>1, <1>12, RowFields DEF ReconcileOnStartup, RestartedLease
<1> QED
  BY <1>2, <1>3, <1>4, <1>5, <1>6, <1>7, <1>8, <1>9, <1>10, <1>11, <1>12
  DEF Next, vars, storeVars, Clock, Tick, Cluster, ClusterNext, JobStarts, GivesUpRegistering,
      ModelLoads, JobExits, Crash, TakeOver

(* A job number comes in flight only when Slurm has just handed it out. *)
LEMMA NextInFlight ==
  ASSUME TypeOK, [Next]_vars, NEW l \in Leases, NEW j \in Jobs, InFlight(j, l)'
  PROVE  InFlight(j, l) \/ (job[j].st = "UNBORN" /\ job'[j].for = l)
<1>1. JobTypeOK
  BY DEF TypeOK, StoreTypeOK, JobTypeOK
<1> DEFINE Goal == InFlight(j, l) \/ (job[j].st = "UNBORN" /\ job'[j].for = l)
<1>2. l # NoLease /\ j # NoJob
  BY DEF Leases, Jobs, NoLease, NoJob
<1>3. CASE (submitter.cur = l /\ submitter.job = j)'
  <2>1. CASE UNCHANGED submitter
    BY <1>3, <2>1 DEF InFlight
  <2>2. submitter' # SubmitterIdle
    BY <1>2, <1>3 DEF SubmitterIdle
  <2>3. ASSUME NEW m, submitter' = SubmitterAfter(m) PROVE FALSE
    BY <1>2, <1>3, <2>2, <2>3 DEF SubmitterAfter, TypeOK, SubmitterTypeOK
  <2>4. ASSUME NEW m \in Leases, SubmitSbatch(m) PROVE Goal
    <3>1. PICK i \in Jobs :
            Sbatch(i, m) /\ submitter' = [submitter EXCEPT !.cur = m, !.job = i]
      BY <2>4 DEF SubmitSbatch
    <3>2. m = l /\ i = j
      BY <1>3, <3>1 DEF TypeOK, SubmitterTypeOK
    <3> QED
      BY <1>1, <3>1, <3>2, SbatchSteps
  <2>5. ~SubmitScan
    BY <1>2, <1>3, <2>2 DEF SubmitScan, SubmitterIdle
  <2> QED
    BY <2>1, <2>2, <2>3, <2>4, <2>5
    DEF Next, vars, workerVars, Submitter, SubmitNext, SubmitStep, SubmitRecord, SubmitFails,
        Retrier, Cleaner, Reconciler, Prober, Renewer, Users, Handler, Registration, Clock,
        Cluster, Crash, ReconcileOnStartup, TakeOver
<1>4. CASE (retrier.step = "record" /\ retrier.cur = l /\ retrier.job = j)'
  <2>1. CASE UNCHANGED retrier
    BY <1>4, <2>1 DEF InFlight
  <2>2. retrier' # RetrierIdle
    BY <1>4 DEF RetrierIdle
  <2>3. ASSUME NEW m, retrier' = RetrierAfter(m) PROVE FALSE
    BY <1>4, <2>3 DEF RetrierAfter, RetrierIdle
  <2>4. CASE RetrySbatch
    <3>1. PICK i \in Jobs :
            /\ Sbatch(i, retrier.cur)
            /\ retrier' = [retrier EXCEPT !.step = "record", !.job = i]
      BY <2>4 DEF RetrySbatch
    <3>2. retrier.cur = l /\ i = j
      BY <1>4, <3>1 DEF TypeOK, RetrierTypeOK
    <3> QED
      BY <1>1, <3>1, <3>2, SbatchSteps
  <2>5. ~RetryScan /\ ~RetryCancel /\ \A m \in Leases : ~RetryClaim(m)
    BY <1>4 DEF RetryScan, RetryCancel, RetryClaim, RetrierIdle, TypeOK, RetrierTypeOK
  <2> QED
    BY <2>1, <2>2, <2>3, <2>4, <2>5
    DEF Next, vars, workerVars, Submitter, Retrier, RetryNext, RetryStep, RetrySkip,
        RetryRecord, RetryFails, Cleaner, Reconciler, Prober, Renewer, Users, Handler,
        Registration, Clock, Cluster, Crash, ReconcileOnStartup, TakeOver
<1>5. CASE (creating[l].step = "record" /\ creating[l].job = j)'
  <2>1. CASE UNCHANGED creating
    BY <1>5, <2>1 DEF InFlight
  <2>2. ASSUME NEW m \in Leases, CreateSbatch(m) PROVE Goal
    <3>1. PICK i \in Jobs :
            Sbatch(i, m) /\ creating' = [creating EXCEPT ![m] = [step |-> "record", job |-> i]]
      BY <2>2 DEF CreateSbatch
    <3>2. CASE m = l
      <4>1. i = j
        BY <1>5, <3>1, <3>2 DEF TypeOK, RequestTypeOK
      <4> QED
        BY <1>1, <3>1, <3>2, <4>1, SbatchSteps
    <3>3. CASE m # l
      BY <1>5, <3>1, <3>3 DEF InFlight, TypeOK, RequestTypeOK
    <3> QED
      BY <3>2, <3>3
  <2>3. ASSUME NEW m \in Leases, CreateNow(m) PROVE Goal
    BY <1>5, <2>3 DEF CreateNow, InFlight, TypeOK, RequestTypeOK
  <2>4. ASSUME NEW m \in Leases, creating' = [creating EXCEPT ![m] = NotCreating] PROVE Goal
    BY <1>5, <2>4 DEF NotCreating, InFlight, TypeOK, RequestTypeOK
  <2>5. ~Crash
    BY <1>5 DEF Crash, NotCreating
  <2> QED
    BY <2>1, <2>2, <2>3, <2>4, <2>5
    DEF Next, vars, workerVars, handlers, Submitter, Retrier, Cleaner, Reconciler, Prober,
        Renewer, Users, RequestArrives, CreatePlanned, UpdateLease, ExtendLease, ShortenLease,
        LockLease, UnlockLease, CancelLease, Handler, RequestStep, CreateRecord, CreateFails,
        CommitEnd, CommitCancel, Registration, Clock, Cluster, ReconcileOnStartup, TakeOver
<1>6. CASE (<<l, j>> \in renewer.subs)'
  <2>1. CASE renewer'.subs \subseteq renewer.subs
    BY <1>6, <2>1 DEF InFlight
  <2>2. ASSUME NEW m \in Leases, RenewSbatch(m) PROVE Goal
    <3>1. PICK i \in Jobs :
            /\ Sbatch(i, m)
            /\ renewer' = [renewer EXCEPT !.todo = @ \ {m}, !.subs = @ \cup {<<m, i>>}]
      BY <2>2 DEF RenewSbatch
    <3>2. <<l, j>> \in renewer.subs \/ <<l, j>> = <<m, i>>
      BY <1>6, <3>1 DEF TypeOK, RenewerTypeOK
    <3>3. <<l, j>> \in renewer.subs \/ (m = l /\ i = j)
      BY <3>2
    <3> QED
      BY <1>1, <3>1, <3>3, SbatchSteps DEF InFlight
  <2>3. ASSUME RenewScan \/ RenewWrite \/ Crash PROVE renewer'.subs \subseteq renewer.subs
    <3>1. CASE RenewScan
      <4>1. renewer'.subs = {}
        BY <3>1 DEF RenewScan
      <4> QED
        BY <4>1
    <3>2. CASE RenewWrite \/ Crash
      <4>1. renewer' = RenewerIdle
        BY <3>2 DEF RenewWrite, Crash
      <4>2. renewer'.subs = {}
        BY <4>1 DEF RenewerIdle
      <4> QED
        BY <4>2
    <3> QED
      BY <2>3, <3>1, <3>2
  <2>4. ASSUME NEW m \in Leases, RenewSbatchFails(m) \/ RenewCancel(m)
        PROVE  renewer'.subs \subseteq renewer.subs
    BY <2>4 DEF RenewSbatchFails, RenewCancel, TypeOK, RenewerTypeOK
  <2> QED
    BY <2>1, <2>2, <2>3, <2>4
    DEF Next, vars, workerVars, Submitter, Retrier, Cleaner, Reconciler, Prober, Renewer,
        RenewNext, RenewStep, Users, Handler, Registration, Clock, Cluster, ReconcileOnStartup,
        TakeOver
<1> QED
  BY <1>3, <1>4, <1>5, <1>6 DEF InFlight

(* Ownership is inductive: the number a step writes was in flight for the  *)
(* booking it is written to, and what is in flight was just handed out.    *)
LEMMA NextOwned ==
  ASSUME TypeOK, RetrierAtLease, Owned, [Next]_vars
  PROVE  Owned'
<1>1. TypeOK' /\ JobSteps
  BY NextTypes, NextJobs
<1>2. \A j \in Jobs : job[j].for # NoLease => job'[j].for = job[j].for
  BY <1>1 DEF JobSteps, Owned
<1>3. ASSUME NEW j \in Jobs, job'[j].st = "UNBORN" PROVE job'[j].for = NoLease
  BY <1>1, <1>3 DEF JobSteps, Owned
<1>4. ASSUME NEW l \in Leases, lease'[l].job # NoJob PROVE job'[lease'[l].job].for = l
  <2>1. lease'[l].job \in Jobs /\ l # NoLease
    BY <1>1, <1>4 DEF TypeOK, StoreTypeOK, LeaseRow, Leases, NoLease
  <2>2. job[lease'[l].job].for = l
    BY <1>4, <2>1, NextRecords DEF Owned
  <2> QED
    BY <1>2, <2>1, <2>2
<1>5. ASSUME NEW l \in Leases, NEW j \in Jobs, InFlight(j, l)' PROVE job'[j].for = l
  <2>1. l # NoLease
    BY DEF Leases, NoLease
  <2>2. CASE InFlight(j, l)
    BY <1>2, <2>1, <2>2 DEF Owned
  <2> QED
    BY <1>5, <2>2, NextInFlight
<1> QED
  BY <1>3, <1>4, <1>5 DEF Owned

LEMMA InitOwned == Init => Owned /\ RetrierAtLease
  BY DEF Init, StoreInit, AllIdle, Owned, RetrierAtLease, NoRow, InFlight, SubmitterIdle,
         RetrierIdle, NotCreating, RenewerIdle, Leases, Jobs, NoLease, NoJob

(* No two bookings ever hold the same Slurm job, and a booking only holds  *)
(* a job that was submitted for it: the workers, which all look a booking  *)
(* up by its job number, never act on the wrong one.                       *)
THEOREM JobsAreNotShared == Spec => []LeasesNeverShareAJob
<1> DEFINE IInv == TypeOK /\ RetrierAtLease /\ Owned
<1>1. Init => IInv
  BY InitTypes, InitOwned
<1>2. IInv /\ [Next]_vars => IInv'
  BY NextTypes, RetrierStaysAtLease, NextOwned
<1>3. IInv => LeasesNeverShareAJob
  BY DEF Owned, LeasesNeverShareAJob
<1> QED
  BY <1>1, <1>2, <1>3, PTL DEF Spec

-------------------------------------------------------------------------------
(* The stamp of a failed booking                                            *)

Stamped(r) == r.state = "FAILED" => r.failedAt # Never

(* Every way a row is written, but for the insertion of a row. *)
LEMMA RowStamps ==
  ASSUME NEW r \in LeaseRow, Stamped(r)
  PROVE  /\ \A at \in Time : Stamped(Fail(r, at))
         /\ \A s : s # "FAILED" => Stamped([r EXCEPT !.state = s])
         /\ \A b, e : Stamped([r EXCEPT !.begin = b, !.end = e])
         /\ \A e : Stamped([r EXCEPT !.end = e])
         /\ \A j : Stamped([r EXCEPT !.job = j])
         /\ \A at : Stamped([r EXCEPT !.drainingSince = at])
<1>1. ASSUME NEW at \in Time PROVE Stamped(Fail(r, at))
  <2>1. at # Never
    BY Bounds DEF Time, Never
  <2> QED
    BY <2>1, RowFields DEF Stamped
<1>2. ASSUME NEW s, s # "FAILED" PROVE Stamped([r EXCEPT !.state = s])
  BY <1>2 DEF Stamped, LeaseRow
<1>3. ASSUME NEW b, NEW e PROVE Stamped([r EXCEPT !.begin = b, !.end = e])
  BY DEF Stamped, LeaseRow
<1>4. ASSUME NEW e PROVE Stamped([r EXCEPT !.end = e])
  BY DEF Stamped, LeaseRow
<1>5. ASSUME NEW j PROVE Stamped([r EXCEPT !.job = j])
  BY DEF Stamped, LeaseRow
<1>6. ASSUME NEW at PROVE Stamped([r EXCEPT !.drainingSince = at])
  BY DEF Stamped, LeaseRow
<1> QED
  BY <1>1, <1>2, <1>3, <1>4, <1>5, <1>6

LEMMA NextStamped ==
  ASSUME TypeOK, [Next]_vars, FailedIsStamped, NEW l \in Leases
  PROVE  Stamped(lease'[l])
<1>1. lease \in [Leases -> LeaseRow] /\ lease[l] \in LeaseRow
  BY DEF TypeOK, StoreTypeOK
<1>2. Stamped(lease[l])
  BY DEF FailedIsStamped, Stamped
<1> DEFINE Goal == Stamped(lease'[l])
<1>3. CASE UNCHANGED lease
  BY <1>2, <1>3
<1>4. CASE Submitter
  <2>1. CASE SubmitScan
    BY <1>1, <1>2, <2>1, RowStamps DEF SubmitScan
  <2>2. ASSUME NEW m \in Leases, SubmitRecord(m) PROVE Goal
    <3>1. lease'[l].state # "FAILED" \/ lease'[l] = lease[l]
      BY <1>1, <2>2 DEF SubmitRecord, LeaseRow
    <3> QED
      BY <1>2, <3>1 DEF Stamped
  <2>3. ASSUME NEW m \in Leases, SubmitFails(m) PROVE Goal
    <3>1. submitter.now \in Time
      BY DEF TypeOK, SubmitterTypeOK
    <3> QED
      BY <1>1, <1>2, <2>3, <3>1, RowStamps DEF SubmitFails
  <2> QED
    BY <1>3, <1>4, <2>1, <2>2, <2>3 DEF Submitter, SubmitNext, SubmitStep, SubmitSbatch
<1>5. CASE Retrier
  <2>1. CASE RetryScan
    <3>1. PICK b, e : lease'[l] \in {lease[l], [lease[l] EXCEPT !.begin = b, !.end = e]}
      BY <2>1 DEF RetryScan
    <3>2. Stamped([lease[l] EXCEPT !.begin = b, !.end = e])
      BY <1>1, <1>2, RowStamps
    <3> QED
      BY <1>2, <3>1, <3>2
  <2>2. ASSUME RetryRecord \/ \E m \in Leases : RetryClaim(m) PROVE Goal
    <3>1. ASSUME NEW m \in Leases, RetryClaim(m)
          PROVE  lease'[l].state # "FAILED" \/ lease'[l] = lease[l]
      BY <1>1, <3>1 DEF RetryClaim, LeaseRow
    <3>2. ASSUME RetryRecord PROVE lease'[l].state # "FAILED" \/ lease'[l] = lease[l]
      BY <1>1, <3>2 DEF RetryRecord, LeaseRow
    <3> QED
      BY <1>2, <2>2, <3>1, <3>2 DEF Stamped
  <2>3. CASE RetryFails
    <3>1. retrier.now \in Time
      BY DEF TypeOK, RetrierTypeOK
    <3> QED
      BY <1>1, <1>2, <2>3, <3>1, RowStamps DEF RetryFails
  <2> QED
    BY <1>3, <1>5, <2>1, <2>2, <2>3
    DEF Retrier, RetryNext, RetryStep, RetrySkip, RetryCancel, RetrySbatch, storeVars
<1>6. CASE Cleaner
  <2>1. CASE CleanupWrite
    BY <1>1, <1>2, <2>1, RowStamps DEF CleanupWrite
  <2> QED
    BY <1>3, <1>6, <2>1 DEF Cleaner, CleanupNext, CleanupScan, CleanupStep, CleanupCancel, storeVars
<1>7. CASE Reconciler
  <2>1. ASSUME NEW checks, NEW expiry, NEW gone, NEW at \in Time,
               ReconcileWrite(checks, expiry, gone, at)
        PROVE  Goal
    BY <1>1, <1>2, <2>1, RowStamps DEF ReconcileWrite
  <2>2. now \in Time /\ reconciler.now \in Time
    BY DEF TypeOK, StoreTypeOK, ReconcilerTypeOK
  <2> QED
    BY <1>3, <1>7, <2>1, <2>2
    DEF Reconciler, ReconcileNext, ReconcileScan, ReconcileStep, ReconcileQuery,
        ReconcileUnavailable, ReconcileApply, storeVars
<1>8. CASE Prober
  <2>1. prober.now \in Time
    BY DEF TypeOK, ProberTypeOK
  <2>2. ASSUME NEW n PROVE Stamped([lease[l] EXCEPT !.state = "RUNNING", !.retries = n])
    BY <1>1, RowFields DEF Stamped
  <2>3. Stamped(CheckedLease(l))
    BY <1>1, <1>2, <2>1, <2>2, RowStamps DEF CheckedLease
  <2> QED
    BY <1>3, <1>8, <2>3 DEF Prober, HealthNext, HealthProbe, HealthApply, storeVars
<1>9. CASE Renewer
  <2>1. CASE RenewWrite
    <3>1. lease'[l].state # "FAILED" \/ lease'[l] = lease[l]
      BY <1>1, <2>1 DEF RenewWrite, LeaseRow
    <3> QED
      BY <1>2, <3>1 DEF Stamped
  <2>2. CASE RenewScan
    <3>1. Stamped([lease[l] EXCEPT !.drainingSince = now])
      BY <1>1, <1>2, RowStamps
    <3> QED
      BY <1>2, <2>2, <3>1, ScannedRows DEF Stamped
  <2> QED
    BY <1>3, <1>9, <2>1, <2>2
    DEF Renewer, RenewNext, RenewStep, RenewSbatch, RenewSbatchFails, RenewCancel
<1>10. CASE Users
  <2>1. ASSUME NEW m \in Leases, CreatePlanned(m) \/ CreateNow(m) PROVE Goal
    BY <1>1, <1>2, <2>1, NewRows DEF Stamped
  <2>2. ASSUME NEW m \in Leases, UpdateLease(m) PROVE Goal
    BY <1>1, <1>2, <2>2 DEF UpdateLease, Stamped, LeaseRow
  <2>3. ASSUME NEW m \in Leases, ExtendLease(m) \/ ShortenLease(m) PROVE Goal
    <3>1. ASSUME NEW e, SetEnd(m, e) PROVE Goal
      BY <1>1, <1>2, <3>1 DEF SetEnd, Stamped, LeaseRow
    <3> QED
      BY <2>3, <3>1 DEF ExtendLease, ShortenLease
  <2>4. ASSUME NEW m \in Leases, LockLease(m) PROVE Goal
    <3>1. PICK x, y : lease' = [lease EXCEPT ![m].locked = TRUE, ![m].mode = x, ![m].retries = y]
      BY <2>4 DEF LockLease
    <3> QED
      BY <1>1, <1>2, <3>1 DEF Stamped, LeaseRow
  <2>5. ASSUME NEW m \in Leases, UnlockLease(m) PROVE Goal
    BY <1>1, <1>2, <2>5 DEF UnlockLease, Stamped, LeaseRow
  <2>6. ASSUME NEW m \in Leases, CancelLease(m) PROVE Goal
    <3>1. lease'[l].state # "FAILED" \/ lease'[l] = lease[l]
      BY <1>1, <2>6 DEF CancelLease, LeaseRow
    <3> QED
      BY <1>2, <3>1 DEF Stamped
  <2> QED
    BY <1>10, <2>1, <2>2, <2>3, <2>4, <2>5, <2>6 DEF Users, RequestArrives
<1>11. ASSUME NEW m \in Leases, Handler(m) PROVE Goal
  <2>1. CASE CreateSbatch(m)
    BY <1>3, <2>1 DEF CreateSbatch
  <2>2. CASE CreateRecord(m) \/ CommitEnd(m)
    BY <1>1, <1>2, <2>2 DEF CreateRecord, CommitEnd, Stamped, LeaseRow
  <2>3. CASE CreateFails(m)
    <3>1. now \in Time
      BY DEF TypeOK, StoreTypeOK
    <3> QED
      BY <1>1, <1>2, <2>3, <3>1, RowStamps DEF CreateFails
  <2>4. CASE CommitCancel(m)
    BY <1>1, <1>2, <2>4 DEF CommitCancel, Stamped, LeaseRow
  <2> QED
    BY <1>11, <2>1, <2>2, <2>3, <2>4 DEF Handler, RequestStep
<1>12. ASSUME NEW j \in Jobs, Registration(j) PROVE Goal
  <2>1. CASE RegisterLease(j)
    BY <1>1, <1>2, <2>1, RowStamps DEF RegisterLease
  <2> QED
    BY <1>3, <1>12, <2>1 DEF Registration, RegisterEndpoint
<1>13. CASE ReconcileOnStartup
  <2>1. now \in Time
    BY DEF TypeOK, StoreTypeOK
  <2>2. Stamped(lease'[l])
    <3>1. PICK gone : lease'[l] = RestartedLease(l, gone)
      BY <1>13 DEF ReconcileOnStartup
    <3>2. Stamped(RestartedLease(l, gone))
      BY <1>1, <1>2, <2>1, RowStamps DEF RestartedLease
    <3> QED
      BY <3>1, <3>2
  <2> QED
    BY <2>2
<1> QED
  BY <1>3, <1>4, <1>5, <1>6, <1>7, <1>8, <1>9, <1>10, <1>11, <1>12, <1>13
  DEF Next, vars, storeVars, Clock, Tick, Cluster, ClusterNext, JobStarts, GivesUpRegistering,
      ModelLoads, JobExits, Crash, TakeOver

(* should_retry ignores a failed booking without a failed_at stamp; every  *)
(* one of the seven places that fail a booking sets it, and none of those  *)
(* that clear or keep it leaves the booking FAILED without it.             *)
THEOREM FailuresAreStamped == Spec => []FailedIsStamped
<1> DEFINE IInv == TypeOK /\ FailedIsStamped
<1>1. Init => IInv
  <2>1. Init => FailedIsStamped
    BY DEF Init, StoreInit, NoRow, FailedIsStamped
  <2> QED
    BY <2>1, InitTypes
<1>2. IInv /\ [Next]_vars => IInv'
  <2> SUFFICES ASSUME IInv, [Next]_vars PROVE IInv'
    OBVIOUS
  <2>1. \A l \in Leases : Stamped(lease'[l])
    BY NextStamped
  <2> QED
    BY <2>1, NextTypes DEF FailedIsStamped, Stamped
<1> QED
  BY <1>1, <1>2, PTL DEF Spec

-------------------------------------------------------------------------------
(* What the scheduler promises only as long as certain things do not       *)
(* happen: each theorem names the requests and faults that must be absent. *)

(* How a step writes the retries and the lock of a booking                  *)

(* No step but a claim adds to the retries of a booking. *)
Counts(r, s) == s.retries \in {r.retries, 0} /\ (s.locked => r.locked)

LEMMA RowCounts ==
  ASSUME NEW r \in LeaseRow
  PROVE  /\ Counts(r, r)
         /\ \A at : Counts(r, Fail(r, at))
         /\ \A s : Counts(r, [r EXCEPT !.state = s])
         /\ \A j, s : Counts(r, [r EXCEPT !.job = j, !.state = s])
         /\ \A j, s : Counts(r, [r EXCEPT !.state = s, !.job = j])
         /\ \A j, s, at : Counts(r, [r EXCEPT !.job = j, !.state = s, !.failedAt = at])
         /\ \A b, e : Counts(r, [r EXCEPT !.begin = b, !.end = e])
         /\ \A s, e : Counts(r, [r EXCEPT !.state = s, !.end = e])
         /\ \A e : Counts(r, [r EXCEPT !.end = e])
         /\ \A j : Counts(r, [r EXCEPT !.job = j])
         /\ \A at : Counts(r, [r EXCEPT !.drainingSince = at])
         /\ \A s : Counts(r, [r EXCEPT !.state = s, !.retries = 0])
         /\ \A m : Counts(r, [r EXCEPT !.locked = FALSE, !.mode = m])
<1>1. Counts(r, r) /\ \A at : Counts(r, Fail(r, at))
  BY DEF Counts, Fail, LeaseRow
<1>2. /\ \A s : Counts(r, [r EXCEPT !.state = s])
      /\ \A j, s : Counts(r, [r EXCEPT !.job = j, !.state = s])
      /\ \A j, s : Counts(r, [r EXCEPT !.state = s, !.job = j])
      /\ \A j, s, at : Counts(r, [r EXCEPT !.job = j, !.state = s, !.failedAt = at])
  BY DEF Counts, LeaseRow
<1>3. /\ \A b, e : Counts(r, [r EXCEPT !.begin = b, !.end = e])
      /\ \A s, e : Counts(r, [r EXCEPT !.state = s, !.end = e])
      /\ \A e : Counts(r, [r EXCEPT !.end = e])
  BY DEF Counts, LeaseRow
<1>4. /\ \A j : Counts(r, [r EXCEPT !.job = j])
      /\ \A at : Counts(r, [r EXCEPT !.drainingSince = at])
      /\ \A s : Counts(r, [r EXCEPT !.state = s, !.retries = 0])
      /\ \A m : Counts(r, [r EXCEPT !.locked = FALSE, !.mode = m])
  BY DEF Counts, LeaseRow
<1> QED
  BY <1>1, <1>2, <1>3, <1>4

(* Nothing is locked, and the candidates of the retry worker that are still *)
(* to be claimed have retries left.                                         *)
Unlocked == \A l \in Leases : ~lease[l].locked
CandidatesMayRetry ==
  \A l \in retrier.todo : retrier.cur = l \/ lease[l].retries < MaxRetries

(* A row that is not there yet may get any content that is not locked and  *)
(* has not been retried.                                                   *)
Fresh(r) == ~r.locked /\ r.retries = 0

LEMMA FreshRows ==
  ASSUME NEW m \in Leases, CreatePlanned(m) \/ CreateNow(m)
  PROVE  \E r : Fresh(r) /\ lease' = [lease EXCEPT ![m] = r]
<1>1. CASE CreatePlanned(m)
  <2>1. PICK b, e, k :
          lease' = [lease EXCEPT ![m] = [NoRow EXCEPT !.state = "PLANNED", !.begin = b,
                                                      !.end = e, !.mode = k]]
    BY <1>1 DEF CreatePlanned
  <2> DEFINE r == [NoRow EXCEPT !.state = "PLANNED", !.begin = b, !.end = e, !.mode = k]
  <2>2. Fresh(r)
    BY DEF NoRow, Fresh
  <2> QED
    BY <2>1, <2>2
<1>2. CASE CreateNow(m)
  <2>1. PICK e, k :
          lease' = [lease EXCEPT ![m] = [NoRow EXCEPT !.state = "SUBMITTED", !.begin = now,
                                                      !.end = e, !.mode = k]]
    BY <1>2 DEF CreateNow
  <2> DEFINE r == [NoRow EXCEPT !.state = "SUBMITTED", !.begin = now, !.end = e, !.mode = k]
  <2>2. Fresh(r)
    BY DEF NoRow, Fresh
  <2> QED
    BY <2>1, <2>2
<1> QED
  BY <1>1, <1>2

(* Every step, but for a lock, a claim and the insertion of a row. *)
LEMMA NextCounts ==
  ASSUME TypeOK, [Next]_vars, "lock" \notin Ops, Unlocked, NEW l \in Leases
  PROVE  Counts(lease[l], lease'[l]) \/ Fresh(lease'[l]) \/ RetryClaim(l)
<1>1. lease \in [Leases -> LeaseRow] /\ lease[l] \in LeaseRow
  BY DEF TypeOK, StoreTypeOK
<1> DEFINE Goal == Counts(lease[l], lease'[l]) \/ Fresh(lease'[l]) \/ RetryClaim(l)
<1>2. CASE lease'[l] = lease[l]
  BY <1>1, <1>2, RowCounts
<1>3. CASE Submitter
  <2>1. CASE SubmitScan
    BY <1>1, <1>2, <2>1, RowCounts DEF SubmitScan
  <2>2. ASSUME NEW m \in Leases, SubmitRecord(m) PROVE Goal
    BY <1>1, <2>2 DEF SubmitRecord, Counts, LeaseRow
  <2>3. ASSUME NEW m \in Leases, SubmitFails(m) PROVE Goal
    BY <1>1, <1>2, <2>3, RowCounts DEF SubmitFails
  <2> QED
    BY <1>2, <1>3, <2>1, <2>2, <2>3 DEF Submitter, SubmitNext, SubmitStep, SubmitSbatch
<1>4. CASE Retrier
  <2>1. CASE RetryScan
    <3>1. PICK b, e : lease'[l] \in {lease[l], [lease[l] EXCEPT !.begin = b, !.end = e]}
      BY <2>1 DEF RetryScan
    <3>2. Counts(lease[l], [lease[l] EXCEPT !.begin = b, !.end = e])
      BY <1>1, RowCounts
    <3> QED
      BY <1>2, <3>1, <3>2
  <2>2. ASSUME NEW m \in Leases, RetryClaim(m) PROVE Goal
    <3>1. m = l \/ lease'[l] = lease[l]
      BY <1>1, <2>2 DEF RetryClaim
    <3> QED
      BY <1>2, <2>2, <3>1
  <2>3. CASE RetryRecord
    BY <1>1, <1>2, <2>3, RowCounts DEF RetryRecord
  <2>4. CASE RetryFails
    BY <1>1, <1>2, <2>4, RowCounts DEF RetryFails
  <2> QED
    BY <1>2, <1>4, <2>1, <2>2, <2>3, <2>4
    DEF Retrier, RetryNext, RetryStep, RetrySkip, RetryCancel, RetrySbatch, storeVars
<1>5. CASE Cleaner
  BY <1>1, <1>2, <1>5
  DEF Cleaner, CleanupNext, CleanupScan, CleanupStep, CleanupCancel, CleanupWrite, storeVars,
      Counts, LeaseRow
<1>6. CASE Reconciler
  <2>1. ASSUME NEW checks, NEW expiry, NEW gone, NEW at,
               ReconcileWrite(checks, expiry, gone, at)
        PROVE  Goal
    BY <1>1, <1>2, <2>1, RowCounts DEF ReconcileWrite
  <2> QED
    BY <1>2, <1>6, <2>1
    DEF Reconciler, ReconcileNext, ReconcileScan, ReconcileStep, ReconcileQuery,
        ReconcileUnavailable, ReconcileApply, storeVars
<1>7. CASE Prober
  <2>1. Counts(lease[l], CheckedLease(l))
    BY <1>1, RowCounts DEF CheckedLease
  <2> QED
    BY <1>1, <1>2, <1>7, <2>1 DEF Prober, HealthNext, HealthProbe, HealthApply, storeVars
<1>8. CASE Renewer
  <2>1. CASE RenewWrite
    BY <1>1, <1>2, <2>1, RowCounts DEF RenewWrite
  <2>2. CASE RenewScan
    <3>1. ASSUME NEW m \in Leases PROVE Fresh(BuildReplacement(m))
      <4>1. ~lease[m].locked
        BY DEF Unlocked
      <4> QED
        BY <4>1 DEF BuildReplacement, NoRow, Fresh
    <3>2. \/ lease'[l] \in {lease[l], [lease[l] EXCEPT !.drainingSince = now]}
          \/ \E m \in Leases : lease'[l] = BuildReplacement(m)
      BY <2>2 DEF RenewScan, PlanRenewals
    <3>3. Counts(lease[l], [lease[l] EXCEPT !.drainingSince = now])
      BY <1>1, RowCounts
    <3> QED
      BY <1>2, <3>1, <3>2, <3>3
  <2> QED
    BY <1>2, <1>8, <2>1, <2>2
    DEF Renewer, RenewNext, RenewStep, RenewSbatch, RenewSbatchFails, RenewCancel
<1>9. CASE Users
  <2>1. ASSUME NEW m \in Leases, CreatePlanned(m) \/ CreateNow(m) PROVE Goal
    BY <1>1, <1>2, <2>1, FreshRows
  <2>2. ASSUME NEW m \in Leases, UpdateLease(m) \/ UnlockLease(m) PROVE Goal
    <3>1. CASE UpdateLease(m)
      BY <1>1, <3>1 DEF UpdateLease, Counts, LeaseRow
    <3>2. CASE UnlockLease(m)
      BY <1>1, <3>2 DEF UnlockLease, Counts, LeaseRow
    <3> QED
      BY <2>2, <3>1, <3>2
  <2>3. ASSUME NEW m \in Leases, ExtendLease(m) \/ ShortenLease(m) PROVE Goal
    <3>1. ASSUME NEW e, SetEnd(m, e) PROVE Goal
      BY <1>1, <3>1 DEF SetEnd, Counts, LeaseRow
    <3> QED
      BY <2>3, <3>1 DEF ExtendLease, ShortenLease
  <2>4. ASSUME NEW m \in Leases, CancelLease(m) PROVE Goal
    BY <1>1, <2>4 DEF CancelLease, Counts, LeaseRow
  <2> QED
    BY <1>9, <2>1, <2>2, <2>3, <2>4 DEF Users, RequestArrives, LockLease
<1>10. ASSUME NEW m \in Leases, Handler(m) PROVE Goal
  <2>1. CASE CreateSbatch(m)
    BY <1>2, <2>1 DEF CreateSbatch
  <2>2. CASE CreateRecord(m) \/ CommitEnd(m)
    BY <1>1, <2>2 DEF CreateRecord, CommitEnd, Counts, LeaseRow
  <2>3. CASE CommitCancel(m)
    BY <1>1, <2>3 DEF CommitCancel, Counts, LeaseRow
  <2>4. CASE CreateFails(m)
    BY <1>1, <1>2, <2>4, RowCounts DEF CreateFails
  <2> QED
    BY <1>10, <2>1, <2>2, <2>3, <2>4 DEF Handler, RequestStep
<1>11. ASSUME NEW j \in Jobs, Registration(j) PROVE Goal
  <2>1. CASE RegisterLease(j)
    BY <1>1, <1>2, <2>1, RowCounts DEF RegisterLease
  <2> QED
    BY <1>2, <1>11, <2>1 DEF Registration, RegisterEndpoint
<1>12. CASE ReconcileOnStartup
  <2>1. PICK gone : lease'[l] = RestartedLease(l, gone)
    BY <1>12 DEF ReconcileOnStartup
  <2>2. Counts(lease[l], RestartedLease(l, gone))
    BY <1>1, RowCounts DEF RestartedLease
  <2> QED
    BY <2>1, <2>2
<1> QED
  BY <1>2, <1>3, <1>4, <1>5, <1>6, <1>7, <1>8, <1>9, <1>10, <1>11, <1>12
  DEF Next, vars, storeVars, Clock, Tick, Cluster, ClusterNext, JobStarts, GivesUpRegistering,
      ModelLoads, JobExits, Crash, TakeOver

(* Whoever is a candidate after a step had retries left before it, unless  *)
(* it has just been claimed.                                               *)
LEMMA NextCandidates ==
  ASSUME TypeOK, [Next]_vars, Unlocked, CandidatesMayRetry, NEW l \in retrier'.todo
  PROVE  retrier'.cur = l \/ lease[l].retries < MaxRetries
<1> DEFINE Goal == retrier'.cur = l \/ lease[l].retries < MaxRetries
<1>1. CASE UNCHANGED retrier
  BY <1>1 DEF CandidatesMayRetry
<1>2. ASSUME retrier' = RetrierIdle PROVE FALSE
  BY <1>2 DEF RetrierIdle
<1>3. CASE RetryScan
  <2>1. l \in Leases /\ ShouldRetry(l)
    BY <1>3 DEF RetryScan, RetrierIdle
  <2>2. ~IsPermanent(l)
    BY <2>1 DEF Unlocked, IsPermanent
  <2> QED
    BY <2>1, <2>2 DEF ShouldRetry
<1>4. ASSUME NEW m \in Leases, RetryClaim(m) PROVE Goal
  BY <1>4 DEF RetryClaim, CandidatesMayRetry, TypeOK, RetrierTypeOK, NoLease, Leases
<1>5. ASSUME NEW m, retrier.cur \in {m, NoLease}, retrier' = RetrierAfter(m) PROVE Goal
  <2>1. retrier'.todo = retrier.todo \ {m}
    BY <1>2, <1>5 DEF RetrierAfter, RetrierIdle
  <2>2. l \in Leases /\ l # NoLease
    BY <2>1 DEF TypeOK, RetrierTypeOK, Leases, NoLease
  <2> QED
    BY <1>5, <2>1, <2>2 DEF CandidatesMayRetry
<1>6. CASE RetryCancel \/ RetrySbatch
  <2>1. retrier'.todo = retrier.todo /\ retrier'.cur = retrier.cur
    BY <1>6 DEF RetryCancel, RetrySbatch, TypeOK, RetrierTypeOK
  <2> QED
    BY <2>1 DEF CandidatesMayRetry
<1>7. CASE Retrier
  BY <1>3, <1>4, <1>5, <1>6, <1>7
  DEF Retrier, RetryNext, RetryStep, RetrySkip, RetryRecord, RetryFails
<1> QED
  BY <1>1, <1>2, <1>7
  DEF Next, vars, workerVars, Submitter, Cleaner, Reconciler, Prober, Renewer, Users, Handler,
      Registration, Clock, Cluster, Crash, ReconcileOnStartup, TakeOver

LEMMA NextBounded ==
  ASSUME TypeOK, [Next]_vars, "lock" \notin Ops, Unlocked, CandidatesMayRetry,
         RetriesAreBounded
  PROVE  Unlocked' /\ CandidatesMayRetry' /\ RetriesAreBounded'
<1>0. \A l \in Leases : lease[l].retries \in Nat
  BY Bounds DEF TypeOK, StoreTypeOK, LeaseRow
<1>1. MaxRetries \in Nat
  BY RetryConstants
<1>2. ASSUME NEW l \in Leases, RetryClaim(l)
      PROVE  /\ retrier'.cur = l /\ lease[l].retries < MaxRetries
             /\ lease'[l].retries = lease[l].retries + 1 /\ lease'[l].locked = lease[l].locked
  <2>1. retrier'.cur = l
    BY <1>2 DEF RetryClaim, TypeOK, RetrierTypeOK
  <2>2. lease[l].retries < MaxRetries
    BY <1>2 DEF RetryClaim, CandidatesMayRetry, Leases, NoLease
  <2>3. lease'[l].retries = lease[l].retries + 1 /\ lease'[l].locked = lease[l].locked
    BY <1>2 DEF RetryClaim, TypeOK, StoreTypeOK, LeaseRow
  <2> QED
    BY <2>1, <2>2, <2>3
<1>3. ASSUME NEW l \in Leases PROVE ~lease'[l].locked
  BY <1>2, NextCounts DEF Unlocked, Counts, Fresh
<1>4. ASSUME NEW l \in Leases PROVE lease'[l].retries <= MaxRetries
  <2>1. CASE RetryClaim(l)
    BY <1>0, <1>1, <1>2, <2>1
  <2>2. CASE lease'[l].retries \in {lease[l].retries, 0}
    BY <1>0, <1>1, <2>2 DEF RetriesAreBounded
  <2> QED
    BY <2>1, <2>2, NextCounts DEF Counts, Fresh
<1>5. ASSUME NEW l \in retrier'.todo
      PROVE  retrier'.cur = l \/ lease'[l].retries < MaxRetries
  <2>1. l \in Leases
    BY NextTypes DEF TypeOK, RetrierTypeOK
  <2>2. CASE RetryClaim(l)
    BY <1>2, <2>1, <2>2
  <2>3. CASE lease'[l].retries \in {lease[l].retries, 0}
    BY <1>0, <1>1, <2>1, <2>3, NextCandidates
  <2> QED
    BY <2>1, <2>2, <2>3, NextCounts DEF Counts, Fresh
<1> QED
  BY <1>3, <1>4, <1>5 DEF Unlocked, CandidatesMayRetry, RetriesAreBounded

(* As long as no booking is locked as a permanent deployment, none is      *)
(* resubmitted more than VLLM_MAX_RETRIES times between two moments at     *)
(* which it was RUNNING: the budget that should_retry checks in the scan   *)
(* still holds at the claim, some awaits later.                            *)
THEOREM RetriesStayInBudget ==
  ASSUME "lock" \notin Ops
  PROVE  Spec => []RetriesAreBounded
<1> DEFINE IInv == TypeOK /\ Unlocked /\ CandidatesMayRetry /\ RetriesAreBounded
<1>1. Init => IInv
  <2>1. Init => Unlocked /\ CandidatesMayRetry
    BY DEF Init, StoreInit, AllIdle, NoRow, RetrierIdle, Unlocked, CandidatesMayRetry
  <2>2. Init => RetriesAreBounded
    BY RetryConstants DEF Init, StoreInit, NoRow, RetriesAreBounded
  <2> QED
    BY <2>1, <2>2, InitTypes
<1>2. IInv /\ [Next]_vars => IInv'
  BY NextTypes, NextBounded
<1> QED
  BY <1>1, <1>2, PTL DEF Spec

-------------------------------------------------------------------------------
(* The job of an active booking                                             *)

(* Who is about to write a job number has one. *)
CarriersHaveJobs ==
  /\ submitter.cur # NoLease => submitter.job # NoJob
  /\ retrier.step = "record" => retrier.job # NoJob
  /\ \A l \in Leases : creating[l].step = "record" => creating[l].job # NoJob

LEMMA JobNumbers == \A j \in Jobs : j # NoJob
  BY DEF Jobs, NoJob

LEMMA NextCarriers ==
  ASSUME TypeOK, [Next]_vars, CarriersHaveJobs
  PROVE  CarriersHaveJobs'
<1>1. (submitter.cur # NoLease => submitter.job # NoJob)'
  <2>1. CASE UNCHANGED submitter
    BY <2>1 DEF CarriersHaveJobs
  <2>2. CASE submitter'.cur = NoLease
    BY <2>2
  <2>3. ASSUME NEW l \in Leases, SubmitSbatch(l) PROVE submitter'.job # NoJob
    BY <2>3, JobNumbers DEF SubmitSbatch, TypeOK, SubmitterTypeOK
  <2>4. ASSUME submitter' = SubmitterIdle PROVE submitter'.cur = NoLease
    BY <2>4 DEF SubmitterIdle
  <2>5. ASSUME NEW l, submitter' = SubmitterAfter(l) PROVE submitter'.cur = NoLease
    BY <2>4, <2>5 DEF SubmitterAfter, TypeOK, SubmitterTypeOK
  <2>6. ASSUME SubmitScan \/ Crash PROVE submitter'.cur = NoLease
    <3>1. CASE SubmitScan
      BY <2>4, <3>1 DEF SubmitScan, SubmitterIdle
    <3> QED
      BY <2>4, <2>6, <3>1 DEF Crash
  <2> QED
    BY <2>1, <2>2, <2>3, <2>5, <2>6
    DEF Next, vars, workerVars, Submitter, SubmitNext, SubmitStep, SubmitRecord, SubmitFails,
        Retrier, Cleaner, Reconciler, Prober, Renewer, Users, Handler, Registration, Clock,
        Cluster, ReconcileOnStartup, TakeOver
<1>2. (retrier.step = "record" => retrier.job # NoJob)'
  <2>1. CASE UNCHANGED retrier
    BY <2>1 DEF CarriersHaveJobs
  <2>2. CASE RetrySbatch
    BY <2>2, JobNumbers DEF RetrySbatch, TypeOK, RetrierTypeOK
  <2>3. ASSUME RetryScan \/ Crash PROVE retrier'.step # "record"
    <3>1. CASE RetryScan
      BY <3>1 DEF RetryScan, RetrierIdle
    <3>2. CASE Crash
      BY <3>2 DEF Crash, RetrierIdle
    <3> QED
      BY <2>3, <3>1, <3>2
  <2>4. ASSUME RetryCancel \/ \E l \in Leases : RetryClaim(l) PROVE retrier'.step # "record"
    BY <2>4 DEF RetryCancel, RetryClaim, TypeOK, RetrierTypeOK
  <2>5. ASSUME NEW l, retrier' = RetrierAfter(l) PROVE retrier'.step # "record"
    BY <2>5 DEF RetrierAfter, RetrierIdle
  <2> QED
    BY <2>1, <2>2, <2>3, <2>4, <2>5
    DEF Next, vars, workerVars, Submitter, Retrier, RetryNext, RetryStep, RetrySkip,
        RetryRecord, RetryFails, Cleaner, Reconciler, Prober, Renewer, Users, Handler,
        Registration, Clock, Cluster, ReconcileOnStartup, TakeOver
<1>3. ASSUME NEW l \in Leases, creating'[l].step = "record" PROVE creating'[l].job # NoJob
  <2>1. CASE UNCHANGED creating
    BY <1>3, <2>1 DEF CarriersHaveJobs
  <2>2. ASSUME NEW m \in Leases, CreateSbatch(m) PROVE creating'[l].job # NoJob
    BY <1>3, <2>2, JobNumbers DEF CreateSbatch, CarriersHaveJobs, TypeOK, RequestTypeOK
  <2>3. ASSUME NEW m \in Leases, CreateNow(m) PROVE creating'[l].job # NoJob
    BY <1>3, <2>3 DEF CreateNow, CarriersHaveJobs, TypeOK, RequestTypeOK
  <2>4. ASSUME NEW m \in Leases, creating' = [creating EXCEPT ![m] = NotCreating]
        PROVE  creating'[l].job # NoJob
    BY <1>3, <2>4 DEF NotCreating, CarriersHaveJobs, TypeOK, RequestTypeOK
  <2>5. ~Crash
    BY <1>3 DEF Crash, NotCreating
  <2> QED
    BY <2>1, <2>2, <2>3, <2>4, <2>5
    DEF Next, vars, workerVars, handlers, Submitter, Retrier, Cleaner, Reconciler, Prober,
        Renewer, Users, RequestArrives, CreatePlanned, UpdateLease, ExtendLease, ShortenLease,
        LockLease, UnlockLease, CancelLease, Handler, RequestStep, CreateRecord, CreateFails,
        CommitEnd, CommitCancel, Registration, Clock, Cluster, ReconcileOnStartup, TakeOver
<1> QED
  BY <1>1, <1>2, <1>3 DEF CarriersHaveJobs

HasJob(r) == r.state \in Active => r.job # NoJob
Alike(r, s) == s.state = r.state /\ s.job = r.job

(* Every step makes a row one with a job, leaves the job and the state     *)
(* alone, or is the insertion of a booking for now.                        *)
LEMMA NextRows ==
  ASSUME TypeOK, [Next]_vars, CarriersHaveJobs, NEW l \in Leases
  PROVE  HasJob(lease'[l]) \/ Alike(lease[l], lease'[l]) \/ CreateNow(l)
<1>1. lease \in [Leases -> LeaseRow] /\ lease[l] \in LeaseRow
  BY DEF TypeOK, StoreTypeOK
<1> DEFINE Goal == HasJob(lease'[l]) \/ Alike(lease[l], lease'[l]) \/ CreateNow(l)
<1>2. CASE lease'[l] = lease[l]
  BY <1>2 DEF Alike
<1>3. \A s : HasJob([lease[l] EXCEPT !.state = s]) \/ s \in Active
  BY <1>1, RowFields DEF HasJob
<1>0. HasJob([lease[l] EXCEPT !.state = "ENDED"])
  BY <1>3 DEF Active
<1>4. \A at : HasJob(Fail(lease[l], at))
  BY <1>1, RowFields DEF HasJob, Active
<1>5. CASE Submitter
  <2>1. CASE SubmitScan
    BY <1>0, <1>2, <2>1 DEF SubmitScan
  <2>2. ASSUME NEW m \in Leases, SubmitRecord(m) PROVE Goal
    <3>1. submitter.job # NoJob
      BY <2>2 DEF SubmitRecord, CarriersHaveJobs, Leases, NoLease
    <3> QED
      BY <1>1, <1>2, <2>2, <3>1 DEF SubmitRecord, HasJob, LeaseRow
  <2>3. ASSUME NEW m \in Leases, SubmitFails(m) PROVE Goal
    BY <1>1, <1>2, <1>4, <2>3 DEF SubmitFails
  <2> QED
    BY <1>2, <1>5, <2>1, <2>2, <2>3 DEF Submitter, SubmitNext, SubmitStep, SubmitSbatch
<1>6. CASE Retrier
  <2>1. CASE RetryScan
    <3>1. PICK b, e : lease'[l] \in {lease[l], [lease[l] EXCEPT !.begin = b, !.end = e]}
      BY <2>1 DEF RetryScan
    <3>2. Alike(lease[l], [lease[l] EXCEPT !.begin = b, !.end = e])
      BY <1>1, RowFields DEF Alike
    <3> QED
      BY <1>2, <3>1, <3>2
  <2>2. ASSUME NEW m \in Leases, RetryClaim(m) PROVE Goal
    BY <1>1, <1>2, <2>2 DEF RetryClaim, HasJob, Active, LeaseRow
  <2>3. CASE RetryRecord
    <3>1. retrier.job # NoJob
      BY <2>3 DEF RetryRecord, CarriersHaveJobs
    <3> QED
      BY <1>1, <1>2, <2>3, <3>1 DEF RetryRecord, HasJob, LeaseRow
  <2>4. CASE RetryFails
    BY <1>1, <1>2, <1>4, <2>4 DEF RetryFails
  <2> QED
    BY <1>2, <1>6, <2>1, <2>2, <2>3, <2>4
    DEF Retrier, RetryNext, RetryStep, RetrySkip, RetryCancel, RetrySbatch, storeVars
<1>7. CASE Cleaner
  BY <1>0, <1>2, <1>7
  DEF Cleaner, CleanupNext, CleanupScan, CleanupStep, CleanupCancel, CleanupWrite, storeVars
<1>8. CASE Reconciler
  <2>1. ASSUME NEW checks, NEW expiry, NEW gone, NEW at,
               ReconcileWrite(checks, expiry, gone, at)
        PROVE  Goal
    BY <1>0, <1>2, <1>4, <2>1 DEF ReconcileWrite
  <2> QED
    BY <1>2, <1>8, <2>1
    DEF Reconciler, ReconcileNext, ReconcileScan, ReconcileStep, ReconcileQuery,
        ReconcileUnavailable, ReconcileApply, storeVars
<1>9. CASE Prober
  <2>1. CheckedLease(l) = lease[l] \/ lease[l].job # NoJob
    BY DEF CheckedLease
  <2>2. CheckedLease(l).job = lease[l].job
    BY <1>1, RowFields DEF CheckedLease
  <2> QED
    BY <1>1, <1>2, <1>9, <2>1, <2>2
    DEF Prober, HealthNext, HealthProbe, HealthApply, storeVars, HasJob
<1>10. CASE Renewer
  <2>1. CASE RenewWrite
    <3>1. CASE l \in renewer.retire
      <4>1. lease'[l] = [lease[l] EXCEPT !.state = "ENDED", !.end = renewer.now]
        BY <2>1, <3>1 DEF RenewWrite
      <4>2. lease'[l].state = "ENDED"
        BY <1>1, <4>1, RowFields
      <4> QED
        BY <4>2 DEF HasJob, Active
    <3>2. CASE l \notin renewer.retire /\ \E s \in renewer.subs : s[1] = l
      <4> DEFINE s == CHOOSE s \in renewer.subs : s[1] = l
      <4>1. s \in renewer.subs /\ s[1] = l
        BY <3>2
      <4>2. s[2] # NoJob
        BY <4>1, JobNumbers DEF TypeOK, RenewerTypeOK
      <4>3. lease'[l].job = s[2]
        BY <1>1, <2>1, <3>2 DEF RenewWrite, LeaseRow
      <4> QED
        BY <4>2, <4>3 DEF HasJob
    <3>3. CASE l \notin renewer.retire /\ ~\E s \in renewer.subs : s[1] = l
      BY <1>2, <2>1, <3>3 DEF RenewWrite
    <3> QED
      BY <3>1, <3>2, <3>3
  <2>2. CASE RenewScan
    <3>1. Alike(lease[l], [lease[l] EXCEPT !.drainingSince = now])
      BY <1>1, RowFields DEF Alike
    <3> QED
      BY <1>2, <2>2, <3>1, ScannedRows DEF HasJob, Active
  <2> QED
    BY <1>2, <1>10, <2>1, <2>2
    DEF Renewer, RenewNext, RenewStep, RenewSbatch, RenewSbatchFails, RenewCancel
<1>11. CASE Users
  <2>1. ASSUME NEW m \in Leases, CreatePlanned(m) PROVE Goal
    <3>1. CASE m = l
      <4>1. lease'[l].state = "PLANNED"
        BY <1>1, <2>1, <3>1 DEF CreatePlanned, NoRow
      <4> QED
        BY <4>1 DEF HasJob, Active
    <3>2. CASE m # l
      BY <1>1, <1>2, <2>1, <3>2 DEF CreatePlanned
    <3> QED
      BY <3>1, <3>2
  <2>2. ASSUME NEW m \in Leases, CreateNow(m) PROVE Goal
    <3>1. m = l \/ lease'[l] = lease[l]
      BY <1>1, <2>2 DEF CreateNow
    <3> QED
      BY <1>2, <2>2, <3>1
  <2>3. ASSUME NEW m \in Leases, UpdateLease(m) PROVE Goal
    BY <1>1, <2>3 DEF UpdateLease, Alike, LeaseRow
  <2>4. ASSUME NEW m \in Leases, ExtendLease(m) \/ ShortenLease(m) PROVE Goal
    <3>1. ASSUME NEW e, SetEnd(m, e) PROVE Goal
      BY <1>1, <3>1 DEF SetEnd, Alike, LeaseRow
    <3> QED
      BY <2>4, <3>1 DEF ExtendLease, ShortenLease
  <2>5. ASSUME NEW m \in Leases, LockLease(m) PROVE Goal
    <3>1. PICK x, y : lease' = [lease EXCEPT ![m].locked = TRUE, ![m].mode = x, ![m].retries = y]
      BY <2>5 DEF LockLease
    <3> QED
      BY <1>1, <3>1 DEF Alike, LeaseRow
  <2>6. ASSUME NEW m \in Leases, UnlockLease(m) PROVE Goal
    BY <1>1, <2>6 DEF UnlockLease, Alike, LeaseRow
  <2>7. ASSUME NEW m \in Leases, CancelLease(m) PROVE Goal
    BY <1>1, <1>2, <2>7 DEF CancelLease, HasJob, Active, LeaseRow
  <2> QED
    BY <1>11, <2>1, <2>2, <2>3, <2>4, <2>5, <2>6, <2>7 DEF Users, RequestArrives
<1>12. ASSUME NEW m \in Leases, Handler(m) PROVE Goal
  <2>1. CASE CreateSbatch(m)
    BY <1>2, <2>1 DEF CreateSbatch
  <2>2. CASE CreateRecord(m)
    <3>1. creating[m].job # NoJob
      BY <2>2 DEF CreateRecord, CarriersHaveJobs
    <3> QED
      BY <1>1, <1>2, <2>2, <3>1 DEF CreateRecord, HasJob, LeaseRow
  <2>3. CASE CreateFails(m)
    BY <1>1, <1>2, <1>4, <2>3 DEF CreateFails
  <2>4. CASE CommitEnd(m)
    BY <1>1, <2>4 DEF CommitEnd, Alike, LeaseRow
  <2>5. CASE CommitCancel(m)
    BY <1>1, <1>2, <2>5 DEF CommitCancel, Alike, HasJob, Active, LeaseRow
  <2> QED
    BY <1>12, <2>1, <2>2, <2>3, <2>4, <2>5 DEF Handler, RequestStep
<1>13. ASSUME NEW j \in Jobs, Registration(j) PROVE Goal
  <2>1. CASE RegisterLease(j)
    <3>1. CASE lease[l].job = j
      <4>1. lease'[l].job = lease[l].job
        BY <1>1, <2>1, RowFields DEF RegisterLease
      <4> QED
        BY <3>1, <4>1, JobNumbers DEF HasJob
    <3>2. CASE lease[l].job # j
      BY <1>2, <2>1, <3>2 DEF RegisterLease, LeasesOf
    <3> QED
      BY <3>1, <3>2
  <2> QED
    BY <1>2, <1>13, <2>1 DEF Registration, RegisterEndpoint
<1>14. CASE ReconcileOnStartup
  <2>1. PICK gone : lease'[l] = RestartedLease(l, gone)
    BY <1>14 DEF ReconcileOnStartup
  <2>2. HasJob(RestartedLease(l, gone)) \/ RestartedLease(l, gone) = lease[l]
    BY <1>0, <1>4 DEF RestartedLease
  <2> QED
    BY <1>2, <2>1, <2>2
<1> QED
  BY <1>2, <1>5, <1>6, <1>7, <1>8, <1>9, <1>10, <1>11, <1>12, <1>13, <1>14
  DEF Next, vars, storeVars, Clock, Tick, Cluster, ClusterNext, JobStarts, GivesUpRegistering,
      ModelLoads, JobExits, Crash, TakeOver

(* A create handler stays at its booking until it has written the job or   *)
(* the failure to it.                                                      *)
LEMMA NextCreating ==
  ASSUME TypeOK, [Next]_vars, CarriersHaveJobs, ~Crash, NEW l \in Leases,
         creating[l] # NotCreating \/ CreateNow(l)
  PROVE  creating'[l] # NotCreating \/ HasJob(lease'[l])
<1>1. lease \in [Leases -> LeaseRow] /\ lease[l] \in LeaseRow
  BY DEF TypeOK, StoreTypeOK
<1>2. CASE CreateNow(l)
  BY <1>2 DEF CreateNow, NotCreating, TypeOK, RequestTypeOK
<1>3. CASE creating'[l] = creating[l] /\ ~CreateNow(l)
  BY <1>3
<1>4. CASE CreateSbatch(l)
  BY <1>4 DEF CreateSbatch, NotCreating, TypeOK, RequestTypeOK
<1>5. CASE CreateRecord(l)
  <2>1. lease'[l].job = creating[l].job
    BY <1>1, <1>5 DEF CreateRecord, LeaseRow
  <2> QED
    BY <1>5, <2>1 DEF CreateRecord, CarriersHaveJobs, HasJob
<1>6. CASE CreateFails(l)
  <2>1. lease'[l].state = "FAILED"
    BY <1>1, <1>6, RowFields DEF CreateFails
  <2> QED
    BY <2>1 DEF HasJob, Active
<1>7. ASSUME NEW m \in Leases, m # l, CreateNow(m) \/ Handler(m)
      PROVE  creating'[l] = creating[l]
  BY <1>7 DEF CreateNow, Handler, RequestStep, CreateSbatch, CreateRecord, CreateFails,
              CommitEnd, CommitCancel, TypeOK, RequestTypeOK
<1> QED
  BY <1>2, <1>3, <1>4, <1>5, <1>6, <1>7
  DEF Next, vars, workerVars, handlers, Submitter, Retrier, Cleaner, Reconciler, Prober,
      Renewer, Users, RequestArrives, CreatePlanned, UpdateLease, ExtendLease, ShortenLease,
      LockLease, UnlockLease, CancelLease, Handler, RequestStep, CommitEnd, CommitCancel,
      Registration, Clock, Cluster, ReconcileOnStartup, TakeOver

LEMMA NextHasJob ==
  ASSUME TypeOK, [Next]_vars, "crash" \notin Faults, CarriersHaveJobs, ActiveLeaseHasJob
  PROVE  ActiveLeaseHasJob'
<1> SUFFICES ASSUME NEW l \in Leases, ~HasJob(lease'[l])
             PROVE  lease'[l].state = "SUBMITTED" /\ creating'[l] # NotCreating
  BY DEF ActiveLeaseHasJob, HasJob
<1>1. ~Crash
  BY DEF Crash
<1>2. CASE CreateNow(l)
  <2>1. lease'[l].state = "SUBMITTED"
    BY <1>2 DEF CreateNow, NoRow, TypeOK, StoreTypeOK
  <2> QED
    BY <1>1, <1>2, <2>1, NextCreating
<1>3. CASE Alike(lease[l], lease'[l])
  <2>1. lease[l].state = "SUBMITTED" /\ creating[l] # NotCreating
    BY <1>3 DEF Alike, HasJob, ActiveLeaseHasJob
  <2> QED
    BY <1>1, <1>3, <2>1, NextCreating DEF Alike
<1> QED
  BY <1>2, <1>3, NextRows

(* As long as the process does not die, a booking that is active has a job *)
(* number, but for the time its create handler waits for Slurm: workers    *)
(* look at a booking through its job only, and one without would hold its  *)
(* GPUs in the plan until its window is over.                              *)
THEOREM ActiveLeasesHaveJobs ==
  ASSUME "crash" \notin Faults
  PROVE  Spec => []ActiveLeaseHasJob
<1> DEFINE IInv == TypeOK /\ CarriersHaveJobs /\ ActiveLeaseHasJob
<1>1. Init => IInv
  <2>1. Init => CarriersHaveJobs
    BY DEF Init, AllIdle, SubmitterIdle, RetrierIdle, NotCreating, CarriersHaveJobs
  <2>2. Init => ActiveLeaseHasJob
    BY DEF Init, StoreInit, NoRow, Active, ActiveLeaseHasJob
  <2> QED
    BY <2>1, <2>2, InitTypes
<1>2. IInv /\ [Next]_vars => IInv'
  BY NextTypes, NextCarriers, NextHasJob
<1> QED
  BY <1>1, <1>2, PTL DEF Spec

-------------------------------------------------------------------------------
(* Without service deployments                                              *)

Plain(r) == r.mode = "session" /\ r.supersedes = NoLease

(* No booking can become a service deployment, so that renew_worker has    *)
(* nothing to do.                                                          *)
NoServices == "lock" \notin Ops /\ "service" \notin Modes
Sessions == renewer = RenewerIdle /\ \A l \in Leases : Plain(lease[l])

LEMMA RowPlain ==
  ASSUME NEW r \in LeaseRow, Plain(r)
  PROVE  /\ \A at : Plain(Fail(r, at))
         /\ \A s : Plain([r EXCEPT !.state = s])
         /\ \A b, e : Plain([r EXCEPT !.begin = b, !.end = e])
<1>1. \A at : Plain(Fail(r, at))
  BY DEF Plain, Fail, LeaseRow
<1>2. \A s : Plain([r EXCEPT !.state = s])
  BY DEF Plain, LeaseRow
<1>3. \A b, e : Plain([r EXCEPT !.begin = b, !.end = e])
  BY DEF Plain, LeaseRow
<1> QED
  BY <1>1, <1>2, <1>3

LEMMA RenewerRests ==
  ASSUME TypeOK, Sessions
  PROVE  ~RenewNext
<1>1. PlanRenewals = {} /\ Superseded = {}
  BY DEF Sessions, Plain, PlanRenewals, DueForRenewal, Superseded, Leases, NoLease
<1>2. renewer.todo = {} /\ renewer.pend = {}
  BY DEF Sessions, RenewerIdle
<1>3. ~RenewScan
  <2>1. ASSUME NEW x PROVE (IF x THEN PlanRenewals ELSE {}) = {}
    BY <1>1
  <2> QED
    BY <1>1, <2>1 DEF RenewScan
<1> QED
  BY <1>2, <1>3
  DEF RenewNext, RenewStep, RenewSbatch, RenewSbatchFails, RenewCancel, RenewWrite, Sessions

LEMMA NextPlain ==
  ASSUME TypeOK, [Next]_vars, NoServices, Sessions, NEW l \in Leases
  PROVE  Plain(lease'[l])
<1>1. lease \in [Leases -> LeaseRow] /\ lease[l] \in LeaseRow /\ Plain(lease[l])
  BY DEF TypeOK, StoreTypeOK, Sessions
<1> DEFINE Goal == Plain(lease'[l])
<1>2. CASE lease'[l] = lease[l]
  BY <1>1, <1>2
<1>3. CASE Submitter
  <2>1. CASE SubmitScan
    BY <1>1, <1>2, <2>1, RowPlain DEF SubmitScan
  <2>2. ASSUME NEW m \in Leases, SubmitRecord(m) PROVE Goal
    BY <1>1, <2>2 DEF SubmitRecord, Plain, LeaseRow
  <2>3. ASSUME NEW m \in Leases, SubmitFails(m) PROVE Goal
    BY <1>1, <1>2, <2>3, RowPlain DEF SubmitFails
  <2> QED
    BY <1>2, <1>3, <2>1, <2>2, <2>3 DEF Submitter, SubmitNext, SubmitStep, SubmitSbatch
<1>4. CASE Retrier
  <2>1. CASE RetryScan
    <3>1. PICK b, e : lease'[l] \in {lease[l], [lease[l] EXCEPT !.begin = b, !.end = e]}
      BY <2>1 DEF RetryScan
    <3>2. Plain([lease[l] EXCEPT !.begin = b, !.end = e])
      BY <1>1, RowPlain
    <3> QED
      BY <1>2, <3>1, <3>2
  <2>2. ASSUME NEW m \in Leases, RetryClaim(m) PROVE Goal
    BY <1>1, <2>2 DEF RetryClaim, Plain, LeaseRow
  <2>3. CASE RetryRecord
    BY <1>1, <2>3 DEF RetryRecord, Plain, LeaseRow
  <2>4. CASE RetryFails
    BY <1>1, <1>2, <2>4, RowPlain DEF RetryFails
  <2> QED
    BY <1>2, <1>4, <2>1, <2>2, <2>3, <2>4
    DEF Retrier, RetryNext, RetryStep, RetrySkip, RetryCancel, RetrySbatch, storeVars
<1>5. CASE Cleaner
  <2>1. Plain([lease[l] EXCEPT !.state = "ENDED"])
    BY <1>1, RowPlain
  <2> QED
    BY <1>2, <1>5, <2>1
    DEF Cleaner, CleanupNext, CleanupScan, CleanupStep, CleanupCancel, CleanupWrite, storeVars
<1>6. CASE Reconciler
  <2>1. Plain([lease[l] EXCEPT !.state = "ENDED"]) /\ \A at : Plain(Fail(lease[l], at))
    BY <1>1, RowPlain
  <2>2. ASSUME NEW checks, NEW expiry, NEW gone, NEW at,
               ReconcileWrite(checks, expiry, gone, at)
        PROVE  Goal
    BY <1>2, <2>1, <2>2 DEF ReconcileWrite
  <2> QED
    BY <1>2, <1>6, <2>2
    DEF Reconciler, ReconcileNext, ReconcileScan, ReconcileStep, ReconcileQuery,
        ReconcileUnavailable, ReconcileApply, storeVars
<1>7. CASE Prober
  <2>1. Plain([lease[l] EXCEPT !.state = "RUNNING", !.retries = 0])
    BY <1>1 DEF Plain, LeaseRow
  <2>2. Plain(CheckedLease(l))
    BY <1>1, <2>1, RowPlain DEF CheckedLease
  <2> QED
    BY <1>2, <1>7, <2>2 DEF Prober, HealthNext, HealthProbe, HealthApply, storeVars
<1>8. CASE Users
  <2>1. ASSUME NEW m \in Leases, CreatePlanned(m) \/ CreateNow(m) PROVE Goal
    <3>1. \A k \in Modes : k = "session"
      BY BookingConstants DEF NoServices
    <3>2. CASE m = l
      <4>1. CASE CreatePlanned(m)
        BY <1>1, <3>1, <3>2, <4>1 DEF CreatePlanned, NoRow, Plain
      <4>2. CASE CreateNow(m)
        BY <1>1, <3>1, <3>2, <4>2 DEF CreateNow, NoRow, Plain
      <4> QED
        BY <2>1, <4>1, <4>2
    <3>3. CASE m # l
      BY <1>1, <1>2, <2>1, <3>3 DEF CreatePlanned, CreateNow
    <3> QED
      BY <3>2, <3>3
  <2>2. ASSUME NEW m \in Leases, UpdateLease(m) PROVE Goal
    BY <1>1, <2>2 DEF UpdateLease, Plain, LeaseRow
  <2>3. ASSUME NEW m \in Leases, ExtendLease(m) \/ ShortenLease(m) PROVE Goal
    <3>1. ASSUME NEW e, SetEnd(m, e) PROVE Goal
      BY <1>1, <3>1 DEF SetEnd, Plain, LeaseRow
    <3> QED
      BY <2>3, <3>1 DEF ExtendLease, ShortenLease
  <2>4. ASSUME NEW m \in Leases, UnlockLease(m) PROVE Goal
    BY <1>1, <2>4 DEF UnlockLease, Plain, LeaseRow
  <2>5. ASSUME NEW m \in Leases, CancelLease(m) PROVE Goal
    BY <1>1, <2>5 DEF CancelLease, Plain, LeaseRow
  <2>6. ASSUME NEW m \in Leases, LockLease(m) PROVE FALSE
    BY <2>6 DEF LockLease, NoServices
  <2> QED
    BY <1>8, <2>1, <2>2, <2>3, <2>4, <2>5, <2>6 DEF Users, RequestArrives
<1>9. ASSUME NEW m \in Leases, Handler(m) PROVE Goal
  <2>1. CASE CreateSbatch(m)
    BY <1>2, <2>1 DEF CreateSbatch
  <2>2. CASE CreateRecord(m) \/ CommitEnd(m)
    BY <1>1, <2>2 DEF CreateRecord, CommitEnd, Plain, LeaseRow
  <2>3. CASE CreateFails(m)
    BY <1>1, <1>2, <2>3, RowPlain DEF CreateFails
  <2>4. CASE CommitCancel(m)
    BY <1>1, <2>4 DEF CommitCancel, Plain, LeaseRow
  <2> QED
    BY <1>9, <2>1, <2>2, <2>3, <2>4 DEF Handler, RequestStep
<1>10. ASSUME NEW j \in Jobs, Registration(j) PROVE Goal
  <2>1. CASE RegisterLease(j)
    BY <1>1, <1>2, <2>1, RowPlain DEF RegisterLease
  <2> QED
    BY <1>2, <1>10, <2>1 DEF Registration, RegisterEndpoint
<1>11. CASE ReconcileOnStartup
  <2>1. PICK gone : lease'[l] = RestartedLease(l, gone)
    BY <1>11 DEF ReconcileOnStartup
  <2>2. Plain(RestartedLease(l, gone))
    BY <1>1, RowPlain DEF RestartedLease
  <2> QED
    BY <2>1, <2>2
<1>12. ~Renewer
  BY RenewerRests DEF Renewer
<1> QED
  BY <1>2, <1>3, <1>4, <1>5, <1>6, <1>7, <1>8, <1>9, <1>10, <1>11, <1>12
  DEF Next, vars, storeVars, Clock, Tick, Cluster, ClusterNext, JobStarts, GivesUpRegistering,
      ModelLoads, JobExits, Crash, TakeOver

LEMMA NextSessions ==
  ASSUME TypeOK, [Next]_vars, NoServices, Sessions
  PROVE  Sessions'
<1>1. ~Renewer
  BY RenewerRests DEF Renewer
<1>2. renewer' = RenewerIdle
  BY <1>1
  DEF Next, vars, workerVars, Submitter, Retrier, Cleaner, Reconciler, Prober, Users, Handler,
      Registration, Clock, Cluster, Crash, ReconcileOnStartup, TakeOver, Sessions
<1>3. \A l \in Leases : Plain(lease'[l])
  BY NextPlain
<1> QED
  BY <1>2, <1>3 DEF Sessions

-------------------------------------------------------------------------------
(* The end of a booking                                                     *)

Creating(l) == creating[l].step # "none"
Retrying(l) == retrier.cur = l

(* While a handler or the retry worker waits for Slurm's answer about a    *)
(* booking, the only thing that the others do to it is to cancel it, so    *)
(* that what it writes then undoes nothing but a cancellation.             *)
Attended(l) ==
  /\ Creating(l) => /\ lease[l].state \in {"SUBMITTED", "CANCELED"} /\ lease[l].job = NoJob
                    /\ ~Retrying(l)
  /\ Retrying(l) => lease[l].state \in {"RETRYING", "CANCELED"}

RowShape(l) == lease[l].state \in {"NONE", "PLANNED"} => lease[l].job = NoJob

(* The reconciliation that a restart begins with interrupts nobody. *)
Resting == ~up => retrier.cur = NoLease /\ \A l \in Leases : ~Creating(l)

(* slurm_reconcile_worker has only bookings with a job on its list. *)
Checked == \A l \in Leases, j \in Jobs : <<l, j>> \in reconciler.checks => lease[l].job # NoJob

(* A booking comes on the list of the reconciliation with the job it has.  *)
LEMMA NextChecks ==
  ASSUME TypeOK, [Next]_vars, NEW l \in Leases, NEW j \in Jobs,
         <<l, j>> \in reconciler'.checks
  PROVE  <<l, j>> \in reconciler.checks \/ lease[l].job = j
<1>1. CASE UNCHANGED reconciler
  BY <1>1
<1>2. reconciler' # ReconcilerIdle
  BY DEF ReconcilerIdle
<1>3. CASE ReconcileScan
  BY <1>1, <1>3 DEF ReconcileScan
<1>4. CASE ReconcileQuery
  BY <1>4 DEF ReconcileQuery, TypeOK, ReconcilerTypeOK
<1> QED
  BY <1>1, <1>2, <1>3, <1>4
  DEF Next, vars, workerVars, Submitter, Retrier, Cleaner, Reconciler, ReconcileNext,
      ReconcileStep, ReconcileUnavailable, ReconcileApply, Prober, Renewer, Users, Handler,
      Registration, Clock, Cluster, Crash, ReconcileOnStartup, TakeOver

(* What whoever does not attend to a booking may do to its row; and what   *)
(* the one who does writes to it when Slurm has answered.                  *)
Adapts(l) ==
  \/ Alike(lease[l], lease'[l])
  \/ /\ lease'[l].job = lease[l].job
     /\ \/ lease'[l].state = "CANCELED"
        \/ /\ lease'[l].state \notin {"NONE", "PLANNED"}
           /\ \/ lease[l].state \in {"PLANNED", "STARTING", "RUNNING", "FAILED"}
              \/ lease[l].state = "SUBMITTED" /\ lease[l].job # NoJob
              \/ lease[l].state = "RETRYING" /\ ~Retrying(l)
  \/ /\ lease[l].state = "NONE" /\ lease'[l].job = NoJob
     /\ lease'[l].state \in {"PLANNED", "SUBMITTED"}
  \/ lease[l].state = "PLANNED" /\ lease'[l].state = "SUBMITTED" /\ lease'[l].job # NoJob

OwnWrite(l) ==
  CreateRecord(l) \/ CreateFails(l) \/ (Retrying(l) /\ (RetryRecord \/ RetryFails))

LEMMA NextAdapts ==
  ASSUME TypeOK, [Next]_vars, NoServices, RetrierAtLease, CarriersHaveJobs, Sessions, Resting,
         Checked, NEW l \in Leases
  PROVE  Adapts(l) \/ OwnWrite(l)
<1>1. lease \in [Leases -> LeaseRow] /\ lease[l] \in LeaseRow /\ l # NoLease
  BY DEF TypeOK, StoreTypeOK, Leases, NoLease
<1> DEFINE Goal == Adapts(l) \/ OwnWrite(l)
<1>2. CASE lease'[l] = lease[l]
  BY <1>2 DEF Adapts, Alike
<1>3. ASSUME /\ lease[l].state \in {"PLANNED", "STARTING", "RUNNING", "FAILED"}
             /\ \/ \E s \in {"ENDED", "STARTING"} : lease'[l] = [lease[l] EXCEPT !.state = s]
                \/ \E at : lease'[l] = Fail(lease[l], at)
      PROVE  Goal
  <2>1. /\ \A at : Fail(lease[l], at).job = lease[l].job /\ Fail(lease[l], at).state = "FAILED"
        /\ \A s : [lease[l] EXCEPT !.state = s].job = lease[l].job
        /\ \A s : [lease[l] EXCEPT !.state = s].state = s
    BY <1>1, RowFields
  <2>2. lease'[l].job = lease[l].job /\ lease'[l].state \in {"ENDED", "STARTING", "FAILED"}
    BY <1>3, <2>1
  <2> QED
    BY <1>3, <2>2 DEF Adapts
<1>4. CASE Submitter
  <2>1. CASE SubmitScan
    BY <1>2, <1>3, <2>1 DEF SubmitScan, Planned
  <2>2. ASSUME NEW m \in Leases, SubmitRecord(m) PROVE Goal
    <3>1. CASE m = l /\ lease[l].state = "PLANNED"
      <4>1. lease'[l].job = submitter.job /\ lease'[l].state = "SUBMITTED"
        BY <1>1, <2>2, <3>1 DEF SubmitRecord, LeaseRow
      <4>2. submitter.job # NoJob
        BY <1>1, <2>2, <3>1 DEF SubmitRecord, CarriersHaveJobs
      <4> QED
        BY <3>1, <4>1, <4>2 DEF Adapts
    <3> QED
      BY <1>1, <1>2, <2>2, <3>1 DEF SubmitRecord
  <2>3. ASSUME NEW m \in Leases, SubmitFails(m) PROVE Goal
    BY <1>1, <1>2, <1>3, <2>3 DEF SubmitFails
  <2> QED
    BY <1>2, <1>4, <2>1, <2>2, <2>3 DEF Submitter, SubmitNext, SubmitStep, SubmitSbatch
<1>5. CASE Retrier
  <2>1. CASE RetryScan
    <3>1. PICK b, e : lease'[l] \in {lease[l], [lease[l] EXCEPT !.begin = b, !.end = e]}
      BY <2>1 DEF RetryScan
    <3>2. Alike(lease[l], [lease[l] EXCEPT !.begin = b, !.end = e])
      BY <1>1, RowFields DEF Alike
    <3> QED
      BY <1>2, <3>1, <3>2 DEF Adapts
  <2>2. ASSUME NEW m \in Leases, RetryClaim(m) PROVE Goal
    <3>1. CASE m = l
      <4>1. lease[l].state = "FAILED" /\ lease'[l].state = "RETRYING" /\ lease'[l].job = lease[l].job
        BY <1>1, <2>2, <3>1 DEF RetryClaim, LeaseRow
      <4> QED
        BY <4>1 DEF Adapts
    <3> QED
      BY <1>1, <1>2, <2>2, <3>1 DEF RetryClaim
  <2>3. CASE RetryRecord \/ RetryFails
    <3>1. CASE retrier.cur = l
      BY <2>3, <3>1 DEF OwnWrite, Retrying
    <3>2. CASE retrier.cur # l
      <4>1. retrier.cur \in Leases
        BY <2>3 DEF RetryRecord, RetryFails, RetrierAtLease
      <4> QED
        BY <1>1, <1>2, <2>3, <3>2, <4>1 DEF RetryRecord, RetryFails
    <3> QED
      BY <3>1, <3>2
  <2> QED
    BY <1>2, <1>5, <2>1, <2>2, <2>3
    DEF Retrier, RetryNext, RetryStep, RetrySkip, RetryCancel, RetrySbatch, storeVars
<1>6. CASE Cleaner
  BY <1>2, <1>3, <1>6
  DEF Cleaner, CleanupNext, CleanupScan, CleanupStep, CleanupCancel, CleanupWrite, storeVars
<1>7. CASE Reconciler
  <2>1. ASSUME NEW checks \in {{}, reconciler.checks}, NEW expiry, NEW gone, NEW at,
               ReconcileWrite(checks, expiry, gone, at)
        PROVE  Goal
    <3>1. CASE (\E c \in Lost(checks, gone) : c[1] = l) /\ lease'[l] = Fail(lease[l], at)
      <4>1. PICK c \in reconciler.checks : c[1] = l /\ lease[l].state \in Active
        BY <3>1 DEF Lost
      <4>2. c = <<l, c[2]>> /\ c[2] \in Jobs
        BY <4>1 DEF TypeOK, ReconcilerTypeOK
      <4>3. lease[l].job # NoJob
        BY <4>1, <4>2 DEF Checked
      <4>4. lease'[l].job = lease[l].job /\ lease'[l].state = "FAILED"
        BY <1>1, <3>1, RowFields
      <4> QED
        BY <4>1, <4>3, <4>4 DEF Adapts, Active
    <3> QED
      BY <1>2, <1>3, <2>1, <3>1 DEF ReconcileWrite
  <2> QED
    BY <1>2, <1>7, <2>1
    DEF Reconciler, ReconcileNext, ReconcileScan, ReconcileStep, ReconcileQuery,
        ReconcileUnavailable, ReconcileApply, storeVars
<1>8. CASE Prober
  <2>1. CheckedLease(l).job = lease[l].job
    BY <1>1, RowFields DEF CheckedLease
  <2>2. \/ CheckedLease(l) = lease[l]
        \/ /\ lease[l].job # NoJob /\ lease[l].state \in {"SUBMITTED", "STARTING", "RUNNING"}
           /\ CheckedLease(l).state \in {"RUNNING", "FAILED"}
    BY <1>1, RowFields DEF CheckedLease
  <2>3. lease'[l] \in {lease[l], CheckedLease(l)}
    BY <1>8 DEF Prober, HealthNext, HealthProbe, HealthApply, storeVars
  <2> QED
    BY <1>2, <2>1, <2>2, <2>3 DEF Adapts
<1>9. CASE Users
  <2>1. ASSUME NEW m \in Leases, CreatePlanned(m) \/ CreateNow(m) PROVE Goal
    <3>1. CASE m = l
      <4>1. lease[l].state = "NONE"
        BY <2>1, <3>1 DEF CreatePlanned, CreateNow, IsNextLease
      <4>2. lease'[l].job = NoJob /\ lease'[l].state \in {"PLANNED", "SUBMITTED"}
        <5>1. CASE CreatePlanned(m)
          BY <1>1, <3>1, <5>1 DEF CreatePlanned, NoRow
        <5>2. CASE CreateNow(m)
          BY <1>1, <3>1, <5>2 DEF CreateNow, NoRow
        <5> QED
          BY <2>1, <5>1, <5>2
      <4> QED
        BY <4>1, <4>2 DEF Adapts
    <3> QED
      BY <1>1, <1>2, <2>1, <3>1 DEF CreatePlanned, CreateNow
  <2>2. ASSUME NEW m \in Leases, UpdateLease(m) \/ UnlockLease(m) PROVE Goal
    <3>1. CASE UpdateLease(m)
      BY <1>1, <3>1 DEF UpdateLease, Adapts, Alike, LeaseRow
    <3>2. CASE UnlockLease(m)
      BY <1>1, <3>2 DEF UnlockLease, Adapts, Alike, LeaseRow
    <3> QED
      BY <2>2, <3>1, <3>2
  <2>3. ASSUME NEW m \in Leases, ExtendLease(m) \/ ShortenLease(m) PROVE Goal
    <3>1. ASSUME NEW e, SetEnd(m, e) PROVE Goal
      BY <1>1, <3>1 DEF SetEnd, Adapts, Alike, LeaseRow
    <3> QED
      BY <2>3, <3>1 DEF ExtendLease, ShortenLease
  <2>4. ASSUME NEW m \in Leases, CancelLease(m) PROVE Goal
    BY <1>1, <2>4 DEF CancelLease, Adapts, Alike, LeaseRow
  <2>5. ASSUME NEW m \in Leases, LockLease(m) PROVE FALSE
    BY <2>5 DEF LockLease, NoServices
  <2> QED
    BY <1>9, <2>1, <2>2, <2>3, <2>4, <2>5 DEF Users, RequestArrives
<1>10. ASSUME NEW m \in Leases, Handler(m) PROVE Goal
  <2>1. CASE CreateSbatch(m)
    BY <1>2, <2>1 DEF CreateSbatch
  <2>2. CASE CreateRecord(m) \/ CreateFails(m)
    BY <1>1, <1>2, <2>2 DEF CreateRecord, CreateFails, OwnWrite
  <2>3. CASE CommitEnd(m)
    BY <1>1, <2>3 DEF CommitEnd, Adapts, Alike, LeaseRow
  <2>4. CASE CommitCancel(m)
    BY <1>1, <2>4 DEF CommitCancel, Adapts, Alike, LeaseRow
  <2> QED
    BY <1>10, <2>1, <2>2, <2>3, <2>4 DEF Handler, RequestStep
<1>11. ASSUME NEW j \in Jobs, Registration(j) PROVE Goal
  <2>1. CASE RegisterLease(j)
    <3>1. CASE /\ lease[l].job = j /\ lease[l].state \in {"SUBMITTED", "PLANNED"}
               /\ lease'[l] = [lease[l] EXCEPT !.state = "STARTING"]
      <4>1. lease'[l].job = lease[l].job /\ lease'[l].state = "STARTING"
        BY <1>1, <3>1, RowFields
      <4> QED
        BY <3>1, <4>1, JobNumbers DEF Adapts
    <3> QED
      BY <1>2, <2>1, <3>1 DEF RegisterLease, LeasesOf
  <2> QED
    BY <1>2, <1>11, <2>1 DEF Registration, RegisterEndpoint
<1>12. CASE ReconcileOnStartup
  <2>1. PICK gone \in SUBSET Gone : lease'[l] = RestartedLease(l, gone)
    BY <1>12 DEF ReconcileOnStartup, AnswersAtStartup, Answers
  <2>2. CASE \/ lease[l].state = "RETRYING"
             \/ lease[l].state \in Active /\ lease[l].job \in gone
    <3>1. ~Retrying(l)
      BY <1>1, <1>12 DEF ReconcileOnStartup, Resting, Retrying
    <3>2. lease'[l] = Fail(lease[l], now)
      BY <2>1, <2>2 DEF RestartedLease, Active
    <3>3. lease'[l].job = lease[l].job /\ lease'[l].state = "FAILED"
      BY <1>1, <3>2, RowFields
    <3>4. lease[l].state = "RETRYING" \/ lease[l].job # NoJob
      BY <2>1, <2>2, JobNumbers DEF Gone
    <3> QED
      BY <2>2, <3>1, <3>3, <3>4 DEF Adapts, Active
  <2> QED
    BY <1>2, <1>3, <2>1, <2>2 DEF RestartedLease
<1>13. ~Renewer
  BY RenewerRests DEF Renewer
<1> QED
  BY <1>2, <1>4, <1>5, <1>6, <1>7, <1>8, <1>9, <1>10, <1>11, <1>12, <1>13
  DEF Next, vars, storeVars, Clock, Tick, Cluster, ClusterNext, JobStarts, GivesUpRegistering,
      ModelLoads, JobExits, Crash, TakeOver

(* Whoever attends to a booking began with the insertion of its row or     *)
(* with its claim, and has not written to it since.                        *)
LEMMA NextCreator ==
  ASSUME TypeOK, [Next]_vars, NEW l \in Leases, Creating(l)'
  PROVE  (Creating(l) \/ CreateNow(l)) /\ ~CreateRecord(l) /\ ~CreateFails(l)
<1>1. ASSUME creating' = [creating EXCEPT ![l] = NotCreating] PROVE FALSE
  BY <1>1 DEF NotCreating, Creating, TypeOK, RequestTypeOK
<1>2. ~CreateRecord(l) /\ ~CreateFails(l)
  BY <1>1 DEF CreateRecord, CreateFails
<1>3. CASE creating'[l] = creating[l]
  BY <1>2, <1>3 DEF Creating
<1>4. CASE CreateSbatch(l)
  BY <1>2, <1>4 DEF CreateSbatch, Creating
<1>5. ASSUME NEW m \in Leases, m # l, CreateNow(m) \/ Handler(m)
      PROVE  creating'[l] = creating[l]
  BY <1>5 DEF CreateNow, Handler, RequestStep, CreateSbatch, CreateRecord, CreateFails,
              CommitEnd, CommitCancel, TypeOK, RequestTypeOK
<1>6. ~Crash
  BY DEF Crash, NotCreating, Creating
<1> QED
  BY <1>2, <1>3, <1>4, <1>5, <1>6
  DEF Next, vars, workerVars, handlers, Submitter, Retrier, Cleaner, Reconciler, Prober,
      Renewer, Users, RequestArrives, CreatePlanned, UpdateLease, ExtendLease, ShortenLease,
      LockLease, UnlockLease, CancelLease, Handler, RequestStep, CommitEnd, CommitCancel,
      Registration, Clock, Cluster, ReconcileOnStartup, TakeOver

LEMMA NextRetrying ==
  ASSUME TypeOK, [Next]_vars, NEW l \in Leases, Retrying(l)'
  PROVE  /\ Retrying(l) \/ (RetryClaim(l) /\ lease'[l].state = "RETRYING")
         /\ ~RetryRecord /\ ~RetryFails
<1>1. l # NoLease /\ lease \in [Leases -> LeaseRow]
  BY DEF TypeOK, StoreTypeOK, Leases, NoLease
<1>2. ASSUME NEW m, retrier' = RetrierAfter(m) PROVE FALSE
  BY <1>1, <1>2 DEF RetrierAfter, RetrierIdle, Retrying
<1>3. ~RetryRecord /\ ~RetryFails
  BY <1>2 DEF RetryRecord, RetryFails
<1>4. CASE UNCHANGED retrier
  BY <1>3, <1>4 DEF Retrying
<1>5. CASE RetryCancel \/ RetrySbatch
  BY <1>3, <1>5 DEF RetryCancel, RetrySbatch, Retrying, TypeOK, RetrierTypeOK
<1>6. ASSUME NEW m \in Leases, RetryClaim(m) PROVE RetryClaim(l) /\ lease'[l].state = "RETRYING"
  <2>1. m = l
    BY <1>6 DEF RetryClaim, Retrying, TypeOK, RetrierTypeOK
  <2> QED
    BY <1>1, <1>6, <2>1 DEF RetryClaim, LeaseRow
<1>7. ~RetryScan /\ ~Crash
  <2>1. RetryScan => retrier'.cur = NoLease
    BY DEF RetryScan, RetrierIdle
  <2>2. Crash => retrier'.cur = NoLease
    BY DEF Crash, RetrierIdle
  <2> QED
    BY <1>1, <2>1, <2>2 DEF Retrying
<1>8. \A m \in Leases : ~RetrySkip(m)
  BY <1>2 DEF RetrySkip
<1>9. CASE Retrier
  <2>1. RetryCancel \/ RetrySbatch \/ \E m \in Leases : RetryClaim(m)
    BY <1>3, <1>7, <1>8, <1>9 DEF Retrier, RetryNext, RetryStep
  <2> QED
    BY <1>3, <1>5, <1>6, <2>1
<1> QED
  BY <1>4, <1>7, <1>9
  DEF Next, vars, workerVars, Submitter, Cleaner, Reconciler, Prober, Renewer, Users, Handler,
      Registration, Clock, Cluster, ReconcileOnStartup, TakeOver

LEMMA NextResting ==
  ASSUME TypeOK, [Next]_vars, Resting
  PROVE  Resting'
<1>1. CASE Crash
  BY <1>1 DEF Crash, RetrierIdle, NotCreating, Creating, Resting
<1>2. CASE up'
  BY <1>2 DEF Resting
<1>3. CASE ~up' /\ ~Crash
  <2>1. ~up /\ UNCHANGED <<retrier, creating>>
    BY <1>3
    DEF Next, vars, workerVars, handlers, Running, Submitter, Retrier, Cleaner, Reconciler,
        Prober, Renewer, Users, Handler, Registration, Clock, Cluster, ReconcileOnStartup,
        TakeOver
  <2> QED
    BY <2>1 DEF Resting, Creating
<1> QED
  BY <1>1, <1>2, <1>3

Tended ==
  /\ RetrierAtLease /\ CarriersHaveJobs /\ Sessions /\ Resting /\ Checked
  /\ \A l \in Leases : Attended(l) /\ RowShape(l)

LEMMA NextAttended ==
  ASSUME TypeOK, [Next]_vars, NoServices, Tended, NEW l \in Leases
  PROVE  /\ Attended(l)' /\ RowShape(l)'
         /\ lease[l].job # NoJob => lease'[l].job # NoJob
<1>1. lease \in [Leases -> LeaseRow] /\ lease[l] \in LeaseRow
  BY DEF TypeOK, StoreTypeOK
<1>2. Attended(l) /\ RowShape(l)
  BY DEF Tended
<1>3. Adapts(l) \/ OwnWrite(l)
  BY NextAdapts DEF Tended
<1>4. ASSUME Creating(l)'
      PROVE  /\ lease'[l].state \in {"SUBMITTED", "CANCELED"} /\ lease'[l].job = NoJob
             /\ ~Retrying(l)'
  <2>1. (Creating(l) \/ CreateNow(l)) /\ ~CreateRecord(l) /\ ~CreateFails(l)
    BY <1>4, NextCreator
  <2>2. ~Retrying(l) /\ lease[l].state # "FAILED"
    BY <1>2, <2>1 DEF Attended, CreateNow, IsNextLease
  <2>3. ~Retrying(l)'
    BY <2>2, NextRetrying DEF RetryClaim
  <2>4. CASE CreateNow(l)
    BY <1>1, <2>3, <2>4 DEF CreateNow, NoRow
  <2>5. CASE Creating(l)
    <3>1. Adapts(l)
      BY <1>3, <2>1, <2>2 DEF OwnWrite
    <3> QED
      BY <1>2, <2>3, <2>5, <3>1 DEF Attended, Adapts, Alike
  <2> QED
    BY <2>1, <2>4, <2>5
<1>5. ASSUME Retrying(l)'
      PROVE  lease'[l].state \in {"RETRYING", "CANCELED"}
  <2>1. Retrying(l) \/ (RetryClaim(l) /\ lease'[l].state = "RETRYING")
    BY <1>5, NextRetrying
  <2>2. CASE Retrying(l)
    <3>1. ~Creating(l)
      BY <1>2, <2>2 DEF Attended
    <3>2. Adapts(l)
      BY <1>3, <1>5, <3>1, NextRetrying DEF OwnWrite, CreateRecord, CreateFails, Creating
    <3> QED
      BY <1>2, <2>2, <3>2 DEF Attended, Adapts, Alike
  <2> QED
    BY <2>1, <2>2
<1>6. RowShape(l)' /\ (lease[l].job # NoJob => lease'[l].job # NoJob)
  <2>1. CASE Adapts(l)
    BY <1>2, <2>1 DEF Adapts, Alike, RowShape
  <2>2. CASE CreateRecord(l)
    <3>1. Creating(l) /\ creating[l].job # NoJob
      BY <2>2 DEF CreateRecord, Creating, Tended, CarriersHaveJobs
    <3>2. lease'[l].state = lease[l].state /\ lease'[l].job = creating[l].job
      BY <1>1, <2>2 DEF CreateRecord, LeaseRow
    <3> QED
      BY <1>2, <3>1, <3>2 DEF Attended, RowShape
  <2>3. CASE CreateFails(l)
    <3>1. lease'[l].state = "FAILED" /\ lease'[l].job = lease[l].job
      BY <1>1, <2>3, RowFields DEF CreateFails
    <3> QED
      BY <3>1 DEF RowShape
  <2>4. CASE Retrying(l) /\ RetryRecord
    <3>1. lease'[l].state = "SUBMITTED" /\ lease'[l].job # NoJob
      BY <1>1, <2>4 DEF RetryRecord, Retrying, LeaseRow, Tended, CarriersHaveJobs
    <3> QED
      BY <3>1 DEF RowShape
  <2>5. CASE Retrying(l) /\ RetryFails
    <3>1. lease[l].state \in {"RETRYING", "CANCELED"}
      BY <1>2, <2>5 DEF Attended
    <3>2. lease'[l] \in {lease[l], Fail(lease[l], retrier.now)}
      BY <1>1, <2>5 DEF RetryFails, Retrying
    <3>3. lease'[l].job = lease[l].job /\ lease'[l].state \in {lease[l].state, "FAILED"}
      BY <1>1, <3>2, RowFields
    <3> QED
      BY <3>1, <3>3 DEF RowShape
  <2> QED
    BY <1>3, <2>1, <2>2, <2>3, <2>4, <2>5 DEF OwnWrite
<1> QED
  BY <1>4, <1>5, <1>6 DEF Attended

LEMMA InitTended == Init => Tended
<1> SUFFICES ASSUME Init PROVE Tended
  OBVIOUS
<1>1. RetrierAtLease /\ CarriersHaveJobs /\ Sessions /\ Checked
  BY DEF Init, StoreInit, AllIdle, NoRow, SubmitterIdle, RetrierIdle, NotCreating,
         ReconcilerIdle, RetrierAtLease, CarriersHaveJobs, Sessions, Plain, Checked
<1>2. ASSUME NEW l \in Leases PROVE Attended(l) /\ RowShape(l)
  <2>1. lease[l].job = NoJob /\ ~Creating(l) /\ ~Retrying(l)
    BY DEF Init, StoreInit, AllIdle, NoRow, RetrierIdle, NotCreating, Creating, Retrying,
           Leases, NoLease
  <2> QED
    BY <2>1 DEF Attended, RowShape
<1>3. Resting
  BY DEF Init, Resting
<1> QED
  BY <1>1, <1>2, <1>3 DEF Tended

LEMMA NextTended ==
  ASSUME TypeOK, [Next]_vars, NoServices, Tended
  PROVE  Tended'
<1>1. \A l \in Leases : /\ Attended(l)' /\ RowShape(l)'
                        /\ lease[l].job # NoJob => lease'[l].job # NoJob
  BY NextAttended
<1>2. Checked'
  BY <1>1, NextChecks, JobNumbers DEF Tended, Checked
<1>3. RetrierAtLease' /\ CarriersHaveJobs' /\ Sessions' /\ Resting'
  BY RetrierStaysAtLease, NextCarriers, NextSessions, NextResting DEF Tended
<1> QED
  BY <1>1, <1>2, <1>3 DEF Tended

(* Where no booking can become a service deployment, a booking that has    *)
(* been ended is finished for good: no handler or worker that looked at it *)
(* before takes it up again, crashes and lost answers notwithstanding.     *)
THEOREM EndedForGood ==
  ASSUME NoServices
  PROVE  Spec => EndedStaysFinished
<1>1. Init => TypeOK /\ Tended
  BY InitTypes, InitTended
<1>2. TypeOK /\ Tended /\ [Next]_vars => (TypeOK /\ Tended)'
  BY NextTypes, NextTended
<1>3. TypeOK /\ Tended /\ [Next]_vars
        => [\A l \in Leases : lease[l].state = "ENDED" => lease'[l].state \in Finished]_lease
  <2> SUFFICES ASSUME TypeOK, Tended, [Next]_vars, NEW l \in Leases, lease[l].state = "ENDED"
               PROVE  lease'[l].state \in Finished
    OBVIOUS
  <2>1. ~Creating(l) /\ ~Retrying(l)
    BY DEF Tended, Attended
  <2>2. Adapts(l)
    BY <2>1, NextAdapts DEF OwnWrite, CreateRecord, CreateFails, Creating, Tended
  <2> QED
    BY <2>2 DEF Adapts, Alike, Finished
<1> QED
  BY <1>1, <1>2, <1>3, PTL DEF Spec, EndedStaysFinished

-------------------------------------------------------------------------------
(* Only the clock ends a booking                                            *)

(* No handler pushes the end of a window. *)
FixedEnds == NoServices /\ {"extend", "stop"} \cap Ops = {}

Begun(l) == lease[l].state \notin {"NONE", "PLANNED"}

(* On its way to be ended, by a worker that has found its window over. *)
Doomed(l) ==
  (\E a \in cleaner.acts : a.lease = l /\ a.why = "expired") \/ l \in reconciler.expiry

(* Doomed bookings are past their window, and no window is pushed: the     *)
(* handlers at work shorten it or cancel the booking.                      *)
DoomedAreOver == \A l \in Leases : Doomed(l) => Begun(l) /\ WindowOver(l)
Requested(l) ==
  /\ request[l].op # "stop"
  /\ request[l].op = "extend" => Begun(l) /\ request[l].end <= lease[l].end

LEMMA RowEnds ==
  ASSUME NEW r \in LeaseRow
  PROVE  /\ \A at : Fail(r, at).end = r.end
         /\ \A s : [r EXCEPT !.state = s].end = r.end
         /\ \A s, n : [r EXCEPT !.state = s, !.retries = n].end = r.end
         /\ \A j : [r EXCEPT !.job = j].end = r.end
         /\ \A s, j : [r EXCEPT !.job = j, !.state = s].end = r.end
         /\ \A e : [r EXCEPT !.end = e].end = e
<1>1. \A at : Fail(r, at).end = r.end
  BY DEF LeaseRow, Fail
<1>2. \A s : [r EXCEPT !.state = s].end = r.end
  BY DEF LeaseRow
<1>3. \A s, n : [r EXCEPT !.state = s, !.retries = n].end = r.end
  BY DEF LeaseRow
<1>4. \A j : [r EXCEPT !.job = j].end = r.end
  BY DEF LeaseRow
<1>5. \A s, j : [r EXCEPT !.job = j, !.state = s].end = r.end
  BY DEF LeaseRow
<1>6. \A e : [r EXCEPT !.end = e].end = e
  BY DEF LeaseRow
<1> QED
  BY <1>1, <1>2, <1>3, <1>4, <1>5, <1>6

(* The end of a booking that has begun stays where it is, or a handler     *)
(* that is done with the booking has brought it forward.                   *)
LEMMA NextEnds ==
  ASSUME TypeOK, [Next]_vars, FixedEnds, RetrierAtLease, Sessions, NEW l \in Leases,
         Begun(l), Requested(l)
  PROVE  \/ lease'[l].end = lease[l].end
         \/ lease'[l].end <= lease[l].end /\ request'[l] = NoRequest
<1>1. /\ lease \in [Leases -> LeaseRow] /\ lease[l] \in LeaseRow
      /\ lease[l].end \in Int /\ l # NoLease
  BY DEF TypeOK, StoreTypeOK, LeaseRow, Leases, NoLease
<1> DEFINE Goal == \/ lease'[l].end = lease[l].end
                   \/ lease'[l].end <= lease[l].end /\ request'[l] = NoRequest
<1>2. CASE lease'[l] = lease[l]
  BY <1>2
<1>3. CASE \/ \E s : lease'[l] = [lease[l] EXCEPT !.state = s]
           \/ \E at : lease'[l] = Fail(lease[l], at)
  <2>1. /\ \A at : Fail(lease[l], at).end = lease[l].end
        /\ \A s : [lease[l] EXCEPT !.state = s].end = lease[l].end
    BY <1>1, RowEnds
  <2> QED
    BY <1>3, <2>1
<1>4. CASE Submitter
  <2>1. CASE SubmitScan
    BY <1>2, <1>3, <2>1 DEF SubmitScan
  <2>2. ASSUME NEW m \in Leases, SubmitRecord(m) PROVE Goal
    BY <1>1, <2>2 DEF SubmitRecord, LeaseRow
  <2>3. ASSUME NEW m \in Leases, SubmitFails(m) PROVE Goal
    BY <1>1, <1>2, <1>3, <2>3 DEF SubmitFails
  <2> QED
    BY <1>2, <1>4, <2>1, <2>2, <2>3 DEF Submitter, SubmitNext, SubmitStep, SubmitSbatch
<1>5. CASE Retrier
  <2>1. CASE RetryScan
    <3>1. ~IsPermanent(l)
      BY DEF IsPermanent, Sessions, Plain
    <3> QED
      BY <1>2, <2>1, <3>1 DEF RetryScan
  <2>2. ASSUME NEW m \in Leases, RetryClaim(m) PROVE Goal
    BY <1>1, <2>2 DEF RetryClaim, LeaseRow
  <2>3. CASE RetryRecord
    BY <1>1, <2>3 DEF RetryRecord, LeaseRow
  <2>4. CASE RetryFails
    <3>1. retrier.cur \in Leases
      BY <2>4 DEF RetryFails, RetrierAtLease
    <3> QED
      BY <1>1, <1>2, <1>3, <2>4, <3>1 DEF RetryFails
  <2> QED
    BY <1>2, <1>5, <2>1, <2>2, <2>3, <2>4
    DEF Retrier, RetryNext, RetryStep, RetrySkip, RetryCancel, RetrySbatch, storeVars
<1>6. CASE Cleaner
  BY <1>2, <1>3, <1>6
  DEF Cleaner, CleanupNext, CleanupScan, CleanupStep, CleanupCancel, CleanupWrite, storeVars
<1>7. CASE Reconciler
  <2>1. ASSUME NEW checks, NEW expiry, NEW gone, NEW at,
               ReconcileWrite(checks, expiry, gone, at)
        PROVE  Goal
    BY <1>2, <1>3, <2>1 DEF ReconcileWrite
  <2> QED
    BY <1>2, <1>7, <2>1
    DEF Reconciler, ReconcileNext, ReconcileScan, ReconcileStep, ReconcileQuery,
        ReconcileUnavailable, ReconcileApply, storeVars
<1>8. CASE Prober
  <2>1. CheckedLease(l).end = lease[l].end
    BY <1>1, RowEnds DEF CheckedLease
  <2> QED
    BY <1>2, <1>8, <2>1 DEF Prober, HealthNext, HealthProbe, HealthApply, storeVars
<1>9. CASE Users
  <2>1. ASSUME NEW m \in Leases, CreatePlanned(m) \/ CreateNow(m) \/ UpdateLease(m) PROVE Goal
    <3>1. m # l
      BY <2>1 DEF CreatePlanned, CreateNow, UpdateLease, IsNextLease, Begun
    <3> QED
      BY <1>1, <1>2, <2>1, <3>1 DEF CreatePlanned, CreateNow, UpdateLease
  <2>2. ASSUME NEW m \in Leases, ShortenLease(m) PROVE Goal
    <3>1. PICK e \in 0..MaxEnd : e < lease[m].end /\ SetEnd(m, e)
      BY <2>2 DEF ShortenLease
    <3>2. request[m] = NoRequest
      BY <2>2 DEF ShortenLease, Free
    <3>3. CASE m = l /\ lease' = [lease EXCEPT ![m].end = e] /\ UNCHANGED request
      <4>1. lease'[l].end = e
        BY <1>1, <3>3 DEF LeaseRow
      <4> QED
        BY <1>1, <3>1, <3>2, <3>3, <4>1
    <3> QED
      BY <1>1, <1>2, <3>1, <3>3 DEF SetEnd
  <2>3. ASSUME NEW m \in Leases, UnlockLease(m) PROVE Goal
    BY <1>1, <2>3 DEF UnlockLease, LeaseRow
  <2>4. ASSUME NEW m \in Leases, CancelLease(m) PROVE Goal
    <3>1. PICK op \in {"cancel", "stop"} \cap Ops :
            \/ lease' = [lease EXCEPT ![m].state = "CANCELED",
                                      ![m].end = IF op = "stop" THEN now ELSE @]
            \/ UNCHANGED lease
      BY <2>4 DEF CancelLease
    <3>2. op # "stop"
      BY DEF FixedEnds
    <3> QED
      BY <1>1, <1>2, <3>1, <3>2 DEF LeaseRow
  <2>5. ASSUME NEW m \in Leases, LockLease(m) \/ ExtendLease(m) PROVE FALSE
    BY <2>5 DEF LockLease, ExtendLease, NoServices, FixedEnds
  <2> QED
    BY <1>9, <2>1, <2>2, <2>3, <2>4, <2>5 DEF Users, RequestArrives
<1>10. ASSUME NEW m \in Leases, Handler(m) PROVE Goal
  <2>1. CASE CreateSbatch(m)
    BY <1>2, <2>1 DEF CreateSbatch
  <2>2. CASE CreateRecord(m)
    BY <1>1, <2>2 DEF CreateRecord, LeaseRow
  <2>3. CASE CreateFails(m)
    BY <1>1, <1>2, <1>3, <2>3 DEF CreateFails
  <2>4. CASE CommitEnd(m)
    <3>1. CASE m = l
      <4>1. lease'[l].end = request[l].end /\ request'[l] = NoRequest
        BY <1>1, <2>4, <3>1 DEF CommitEnd, Done, LeaseRow, TypeOK, RequestTypeOK
      <4> QED
        BY <2>4, <3>1, <4>1 DEF CommitEnd, Requested
    <3> QED
      BY <1>1, <1>2, <2>4, <3>1 DEF CommitEnd
  <2>5. CASE CommitCancel(m)
    <3>1. m = l => request[m].op # "stop"
      BY DEF Requested
    <3> QED
      BY <1>1, <1>2, <2>5, <3>1 DEF CommitCancel, LeaseRow
  <2> QED
    BY <1>10, <2>1, <2>2, <2>3, <2>4, <2>5 DEF Handler, RequestStep
<1>11. ASSUME NEW j \in Jobs, Registration(j) PROVE Goal
  <2>1. CASE RegisterLease(j)
    BY <1>2, <1>3, <2>1 DEF RegisterLease
  <2> QED
    BY <1>2, <1>11, <2>1 DEF Registration, RegisterEndpoint
<1>12. CASE ReconcileOnStartup
  BY <1>2, <1>3, <1>12 DEF ReconcileOnStartup, RestartedLease
<1>13. ~Renewer
  BY RenewerRests DEF Renewer
<1> QED
  BY <1>2, <1>4, <1>5, <1>6, <1>7, <1>8, <1>9, <1>10, <1>11, <1>12, <1>13
  DEF Next, vars, storeVars, Clock, Tick, Cluster, ClusterNext, JobStarts, GivesUpRegistering,
      ModelLoads, JobExits, Crash, TakeOver

(* Nobody ends a booking but for a window that is over, now or when the    *)
(* worker looked.                                                          *)
LEMMA NextEnded ==
  ASSUME TypeOK, [Next]_vars, Sessions, RetrierAtLease, NEW l \in Leases,
         lease'[l].state = "ENDED", lease[l].state # "ENDED"
  PROVE  WindowOver(l) \/ Doomed(l)
<1>1. lease \in [Leases -> LeaseRow] /\ lease[l] \in LeaseRow
  BY DEF TypeOK, StoreTypeOK
<1> DEFINE Goal == WindowOver(l) \/ Doomed(l)
<1>2. lease'[l] # lease[l] /\ \A at : lease'[l] # Fail(lease[l], at)
  <2>1. \A at : Fail(lease[l], at).state = "FAILED"
    BY <1>1, RowFields
  <2> QED
    BY <2>1
<1>3. CASE Submitter
  <2>1. CASE SubmitScan
    BY <1>2, <2>1 DEF SubmitScan
  <2>2. ASSUME NEW m \in Leases, SubmitRecord(m) PROVE FALSE
    BY <1>1, <2>2 DEF SubmitRecord, LeaseRow
  <2>3. ASSUME NEW m \in Leases, SubmitFails(m) PROVE FALSE
    BY <1>1, <1>2, <2>3 DEF SubmitFails
  <2> QED
    BY <1>2, <1>3, <2>1, <2>2, <2>3 DEF Submitter, SubmitNext, SubmitStep, SubmitSbatch
<1>4. CASE Retrier
  <2>1. CASE RetryScan
    <3>1. PICK b, e : lease'[l] \in {lease[l], [lease[l] EXCEPT !.begin = b, !.end = e]}
      BY <2>1 DEF RetryScan
    <3>2. [lease[l] EXCEPT !.begin = b, !.end = e].state = lease[l].state
      BY <1>1, RowFields
    <3> QED
      BY <1>2, <3>1, <3>2
  <2>2. ASSUME NEW m \in Leases, RetryClaim(m) PROVE FALSE
    BY <1>1, <2>2 DEF RetryClaim, LeaseRow
  <2>3. CASE RetryRecord
    BY <1>1, <2>3 DEF RetryRecord, LeaseRow
  <2>4. CASE RetryFails
    <3>1. retrier.cur \in Leases
      BY <2>4 DEF RetryFails, RetrierAtLease
    <3> QED
      BY <1>1, <1>2, <2>4, <3>1 DEF RetryFails
  <2> QED
    BY <1>2, <1>4, <2>1, <2>2, <2>3, <2>4
    DEF Retrier, RetryNext, RetryStep, RetrySkip, RetryCancel, RetrySbatch, storeVars
<1>5. CASE Cleaner
  BY <1>2, <1>5
  DEF Cleaner, CleanupNext, CleanupScan, CleanupStep, CleanupCancel, CleanupWrite, storeVars,
      Doomed
<1>6. CASE Reconciler
  <2>1. ASSUME NEW checks, NEW expiry \in {FailedExpiry, reconciler.expiry}, NEW gone, NEW at,
               ReconcileWrite(checks, expiry, gone, at)
        PROVE  Goal
    <3>1. l \in expiry
      BY <1>2, <2>1 DEF ReconcileWrite
    <3> QED
      BY <3>1 DEF FailedExpiry, Doomed
  <2> QED
    BY <1>2, <1>6, <2>1
    DEF Reconciler, ReconcileNext, ReconcileScan, ReconcileStep, ReconcileQuery,
        ReconcileUnavailable, ReconcileApply, storeVars
<1>7. CASE Prober
  <2>1. CheckedLease(l) = lease[l] \/ CheckedLease(l).state # "ENDED"
    BY <1>1, RowFields DEF CheckedLease
  <2> QED
    BY <1>2, <1>7, <2>1 DEF Prober, HealthNext, HealthProbe, HealthApply, storeVars
<1>8. CASE Users
  <2>1. ASSUME NEW m \in Leases, CreatePlanned(m) PROVE FALSE
    BY <1>1, <2>1 DEF CreatePlanned, NoRow
  <2>2. ASSUME NEW m \in Leases, CreateNow(m) PROVE FALSE
    BY <1>1, <2>2 DEF CreateNow, NoRow
  <2>3. ASSUME NEW m \in Leases, UpdateLease(m) PROVE FALSE
    BY <1>1, <2>3 DEF UpdateLease, LeaseRow
  <2>4. ASSUME NEW m \in Leases, ExtendLease(m) \/ ShortenLease(m) PROVE FALSE
    <3>1. ASSUME NEW e, SetEnd(m, e) PROVE FALSE
      BY <1>1, <3>1 DEF SetEnd, LeaseRow
    <3> QED
      BY <2>4, <3>1 DEF ExtendLease, ShortenLease
  <2>5. ASSUME NEW m \in Leases, LockLease(m) PROVE FALSE
    <3>1. PICK x, y : lease' = [lease EXCEPT ![m].locked = TRUE, ![m].mode = x, ![m].retries = y]
      BY <2>5 DEF LockLease
    <3> QED
      BY <1>1, <3>1 DEF LeaseRow
  <2>6. ASSUME NEW m \in Leases, UnlockLease(m) PROVE FALSE
    BY <1>1, <2>6 DEF UnlockLease, LeaseRow
  <2>7. ASSUME NEW m \in Leases, CancelLease(m) PROVE FALSE
    BY <1>1, <2>7 DEF CancelLease, LeaseRow
  <2> QED
    BY <1>8, <2>1, <2>2, <2>3, <2>4, <2>5, <2>6, <2>7 DEF Users, RequestArrives
<1>9. ASSUME NEW m \in Leases, Handler(m) PROVE FALSE
  <2>1. CASE CreateSbatch(m)
    BY <1>2, <2>1 DEF CreateSbatch
  <2>2. CASE CreateRecord(m)
    BY <1>1, <2>2 DEF CreateRecord, LeaseRow
  <2>3. CASE CreateFails(m)
    BY <1>1, <1>2, <2>3 DEF CreateFails
  <2>4. CASE CommitEnd(m)
    BY <1>1, <2>4 DEF CommitEnd, LeaseRow
  <2>5. CASE CommitCancel(m)
    BY <1>1, <2>5 DEF CommitCancel, LeaseRow
  <2> QED
    BY <1>9, <2>1, <2>2, <2>3, <2>4, <2>5 DEF Handler, RequestStep
<1>10. ASSUME NEW j \in Jobs, Registration(j) PROVE FALSE
  <2>1. CASE RegisterLease(j)
    <3>1. [lease[l] EXCEPT !.state = "STARTING"].state = "STARTING"
      BY <1>1, RowFields
    <3> QED
      BY <1>2, <2>1, <3>1 DEF RegisterLease
  <2> QED
    BY <1>2, <1>10, <2>1 DEF Registration, RegisterEndpoint
<1>11. CASE ReconcileOnStartup
  BY <1>2, <1>11 DEF ReconcileOnStartup, RestartedLease
<1>12. ~Renewer
  BY RenewerRests DEF Renewer
<1> QED
  BY <1>2, <1>3, <1>4, <1>5, <1>6, <1>7, <1>8, <1>9, <1>10, <1>11, <1>12
  DEF Next, vars, storeVars, Clock, Tick, Cluster, ClusterNext, JobStarts, GivesUpRegistering,
      ModelLoads, JobExits, Crash, TakeOver

(* A worker decides to end only what has begun and is over. *)
LEMMA NextDoomed ==
  ASSUME TypeOK, [Next]_vars, NEW l \in Leases, RowShape(l), Doomed(l)'
  PROVE  Doomed(l) \/ (Begun(l) /\ WindowOver(l))
<1>1. ASSUME NEW a \in cleaner'.acts, a.lease = l, a.why = "expired"
      PROVE  Doomed(l) \/ (Begun(l) /\ WindowOver(l))
  <2>1. CASE a \in cleaner.acts
    BY <1>1, <2>1 DEF Doomed
  <2>2. CASE CleanupScan
    <3>1. a \in CleanupActions
      BY <1>1, <2>2 DEF CleanupScan
    <3>2. WindowOver(l) /\ lease[l].job = a.job /\ a.job \in Jobs
      BY <1>1, <3>1 DEF CleanupActions, CleanupAction
    <3> QED
      BY <3>2, JobNumbers DEF RowShape, Begun
  <2>3. cleaner' # CleanerIdle
    BY <1>1 DEF CleanerIdle
  <2>4. ASSUME NEW b, CleanupCancel(b) PROVE cleaner'.acts = cleaner.acts
    BY <2>4 DEF CleanupCancel, TypeOK, CleanerTypeOK
  <2> QED
    BY <1>1, <2>1, <2>2, <2>3, <2>4
    DEF Next, vars, workerVars, Submitter, Retrier, Cleaner, CleanupNext, CleanupStep,
        CleanupWrite, Reconciler, Prober, Renewer, Users, Handler, Registration, Clock, Cluster,
        Crash, ReconcileOnStartup, TakeOver
<1>2. ASSUME l \in reconciler'.expiry
      PROVE  Doomed(l) \/ (Begun(l) /\ WindowOver(l))
  <2>1. CASE l \in reconciler.expiry
    BY <2>1 DEF Doomed
  <2>2. CASE ReconcileScan
    <3>1. l \in FailedExpiry \/ UNCHANGED reconciler
      BY <1>2, <2>2 DEF ReconcileScan
    <3> QED
      BY <1>2, <2>1, <3>1 DEF FailedExpiry, Begun
  <2>3. reconciler' # ReconcilerIdle
    BY <1>2 DEF ReconcilerIdle
  <2>4. ASSUME ReconcileQuery PROVE reconciler'.expiry = reconciler.expiry
    BY <2>4 DEF ReconcileQuery, TypeOK, ReconcilerTypeOK
  <2> QED
    BY <1>2, <2>1, <2>2, <2>3, <2>4
    DEF Next, vars, workerVars, Submitter, Retrier, Cleaner, Reconciler, ReconcileNext,
        ReconcileStep, ReconcileUnavailable, ReconcileApply, Prober, Renewer, Users, Handler,
        Registration, Clock, Cluster, Crash, ReconcileOnStartup, TakeOver
<1> QED
  BY <1>1, <1>2 DEF Doomed

LEMMA NextRequested ==
  ASSUME TypeOK, [Next]_vars, FixedEnds, NEW l \in Leases
  PROVE  \/ request'[l] = request[l]
         \/ request'[l].op \in {"none", "cancel"}
         \/ /\ request'[l].op = "extend" /\ lease[l].state \in Active
            /\ request'[l].end <= lease[l].end /\ lease' = lease
<1>1. request \in [Leases -> [op : {"none", "extend", "cancel", "stop"},
                              job : Jobs \cup {NoJob}, end : 0..MaxEnd, from : LeaseState]]
  BY DEF TypeOK, RequestTypeOK
<1> DEFINE Goal == \/ request'[l] = request[l]
                   \/ request'[l].op \in {"none", "cancel"}
                   \/ /\ request'[l].op = "extend" /\ lease[l].state \in Active
                      /\ request'[l].end <= lease[l].end /\ lease' = lease
<1>2. CASE UNCHANGED request
  BY <1>2
<1>3. ASSUME NEW m \in Leases, ShortenLease(m) PROVE Goal
  <2>1. PICK e \in 0..MaxEnd : e < lease[m].end /\ SetEnd(m, e)
    BY <1>3 DEF ShortenLease
  <2>2. lease[m].end \in Int /\ e \in Int
    BY DEF TypeOK, StoreTypeOK, LeaseRow
  <2>3. CASE /\ request' = [request EXCEPT ![m] = [NoRequest EXCEPT !.op = "extend", !.end = e]]
             /\ lease[m].state \in Active /\ UNCHANGED lease
    <3>1. /\ [NoRequest EXCEPT !.op = "extend", !.end = e].op = "extend"
          /\ [NoRequest EXCEPT !.op = "extend", !.end = e].end = e
      BY DEF NoRequest
    <3> QED
      BY <1>1, <2>1, <2>2, <2>3, <3>1
  <2> QED
    BY <1>2, <2>1, <2>3 DEF SetEnd
<1>4. ASSUME NEW m \in Leases, CancelLease(m) PROVE Goal
  <2>1. PICK op \in {"cancel", "stop"} \cap Ops :
          \/ UNCHANGED request
          \/ \E j, s : request' = [request EXCEPT ![m] =
                                    [op |-> op, job |-> j, end |-> 0, from |-> s]]
    BY <1>4 DEF CancelLease
  <2>2. op = "cancel"
    BY DEF FixedEnds
  <2> QED
    BY <1>1, <2>1, <2>2
<1>5. ASSUME NEW m \in Leases, Done(m) PROVE Goal
  BY <1>1, <1>5 DEF Done, NoRequest
<1>6. ASSUME NEW m \in Leases, ExtendLease(m) PROVE FALSE
  BY <1>6 DEF ExtendLease, FixedEnds
<1>7. CASE Crash
  BY <1>7 DEF Crash, NoRequest
<1> QED
  BY <1>2, <1>3, <1>4, <1>5, <1>6, <1>7
  DEF Next, vars, workerVars, handlers, Submitter, Retrier, Cleaner, Reconciler, Prober,
      Renewer, Users, RequestArrives, CreatePlanned, CreateNow, UpdateLease, LockLease,
      UnlockLease, Handler, RequestStep, CreateSbatch, CreateRecord, CreateFails, CommitEnd,
      CommitCancel, Registration, Clock, Cluster, ReconcileOnStartup, TakeOver

WindowsHold ==
  /\ Tended /\ DoomedAreOver
  /\ \A l \in Leases : Requested(l)

LEMMA NextWindowsHold ==
  ASSUME TypeOK, [Next]_vars, FixedEnds, WindowsHold
  PROVE  WindowsHold'
<1>1. Tended'
  BY NextTended DEF WindowsHold, FixedEnds
<1>2. now \in Int /\ now' \in Int /\ now <= now'
  <2>1. TypeOK'
    BY NextTypes
  <2>2. now \in Int /\ now' \in Int
    BY <2>1, StoreConstants DEF TypeOK, StoreTypeOK, Time
  <2>3. now' \in {now, now + 1}
    BY DEF Next, vars, storeVars, Submitter, SubmitNext, SubmitScan, SubmitStep, SubmitSbatch,
           SubmitRecord, SubmitFails, Retrier, RetryNext, RetryScan, RetryStep, RetryClaim,
           RetrySkip, RetryCancel, RetrySbatch, RetryRecord, RetryFails, Cleaner, CleanupNext,
           CleanupScan, CleanupStep, CleanupCancel, CleanupWrite, Reconciler, ReconcileNext,
           ReconcileScan, ReconcileStep, ReconcileQuery, ReconcileUnavailable, ReconcileApply,
           Prober, HealthNext, HealthProbe, HealthApply, Renewer, RenewNext, RenewScan,
           RenewStep, RenewSbatch, RenewSbatchFails, RenewCancel, RenewWrite, Users,
           RequestArrives, CreatePlanned, CreateNow, UpdateLease, ExtendLease, ShortenLease,
           LockLease, UnlockLease, CancelLease, Handler, RequestStep, CreateSbatch,
           CreateRecord, CreateFails, CommitEnd, CommitCancel, Registration, RegisterEndpoint,
           RegisterLease, Clock, Tick, Cluster, ClusterNext, JobStarts, GivesUpRegistering,
           ModelLoads, JobExits, Crash, ReconcileOnStartup, TakeOver
  <2> QED
    BY <2>2, <2>3
<1>3. ASSUME NEW l \in Leases
      PROVE  /\ lease[l].end \in Int /\ lease'[l].end \in Int
             /\ Begun(l) => Begun(l)' /\ lease'[l].end <= lease[l].end
             /\ Begun(l) /\ request'[l].op = "extend" => lease'[l].end = lease[l].end
  <2>1. TypeOK'
    BY NextTypes
  <2>2. lease[l].end \in Int /\ lease'[l].end \in Int
    BY <2>1, StoreConstants DEF TypeOK, StoreTypeOK, LeaseRow
  <2>3. ASSUME Begun(l)
        PROVE  \/ lease'[l].end = lease[l].end
               \/ lease'[l].end <= lease[l].end /\ request'[l] = NoRequest
    BY <2>3, NextEnds DEF WindowsHold, Tended, FixedEnds
  <2>4. ASSUME Begun(l) PROVE Begun(l)'
    <3>1. Adapts(l) \/ OwnWrite(l)
      BY NextAdapts DEF WindowsHold, Tended, FixedEnds
    <3>2. CASE Adapts(l)
      BY <2>4, <3>2 DEF Adapts, Alike, Begun
    <3>3. CASE OwnWrite(l)
      <4>1. lease \in [Leases -> LeaseRow] /\ lease[l] \in LeaseRow
        BY DEF TypeOK, StoreTypeOK
      <4>2. lease'[l].state \in {lease[l].state, "FAILED", "SUBMITTED"}
        <5>1. CASE CreateRecord(l)
          BY <4>1, <5>1 DEF CreateRecord, LeaseRow
        <5>2. CASE CreateFails(l)
          BY <4>1, <5>2, RowFields DEF CreateFails
        <5>3. CASE Retrying(l) /\ RetryRecord
          BY <4>1, <5>3 DEF RetryRecord, Retrying, LeaseRow
        <5>4. CASE Retrying(l) /\ RetryFails
          <6>1. lease'[l] \in {lease[l], Fail(lease[l], retrier.now)}
            BY <4>1, <5>4 DEF RetryFails, Retrying
          <6> QED
            BY <4>1, <6>1, RowFields
        <5> QED
          BY <3>3, <5>1, <5>2, <5>3, <5>4 DEF OwnWrite
      <4> QED
        BY <2>4, <4>2 DEF Begun
    <3> QED
      BY <3>1, <3>2, <3>3
  <2>5. NoRequest.op # "extend"
    BY DEF NoRequest
  <2> QED
    BY <2>2, <2>3, <2>4, <2>5
<1>4. DoomedAreOver'
  <2> SUFFICES ASSUME NEW l \in Leases, Doomed(l)' PROVE Begun(l)' /\ WindowOver(l)'
    BY DEF DoomedAreOver
  <2>1. Begun(l) /\ WindowOver(l)
    BY NextDoomed DEF WindowsHold, Tended, DoomedAreOver
  <2> QED
    BY <1>2, <1>3, <2>1 DEF WindowOver
<1>5. ASSUME NEW l \in Leases PROVE Requested(l)'
  <2>1. Requested(l)
    BY DEF WindowsHold
  <2>2. CASE request'[l] = request[l]
    BY <1>3, <2>1, <2>2 DEF Requested
  <2>3. CASE request'[l].op \in {"none", "cancel"}
    BY <2>3 DEF Requested
  <2>4. CASE /\ request'[l].op = "extend" /\ lease[l].state \in Active
             /\ request'[l].end <= lease[l].end /\ lease' = lease
    BY <2>4 DEF Requested, Begun, Active
  <2> QED
    BY <2>2, <2>3, <2>4, NextRequested
<1> QED
  BY <1>1, <1>4, <1>5 DEF WindowsHold

(* Where the end of a window can only be brought forward, a booking is     *)
(* ended by the clock alone: what the workers found over when they looked  *)
(* still is when they write, whatever was done to the booking meanwhile.   *)
THEOREM OnlyTheClockEnds ==
  ASSUME FixedEnds
  PROVE  Spec => EndedOnlyAfterWindow
<1>1. Init => TypeOK /\ WindowsHold
  <2>1. ASSUME Init PROVE DoomedAreOver /\ \A l \in Leases : Requested(l)
    BY <2>1
    DEF Init, AllIdle, CleanerIdle, ReconcilerIdle, NoRequest, Doomed, DoomedAreOver, Requested
  <2> QED
    BY <2>1, InitTypes, InitTended DEF WindowsHold
<1>2. TypeOK /\ WindowsHold /\ [Next]_vars => (TypeOK /\ WindowsHold)'
  BY NextTypes, NextWindowsHold
<1>3. TypeOK /\ WindowsHold /\ [Next]_vars
        => [\A l \in Leases : Ends(l) => lease[l].end < now]_lease
  <2> SUFFICES ASSUME TypeOK, WindowsHold, [Next]_vars, NEW l \in Leases, Ends(l)
               PROVE  lease[l].end < now
    OBVIOUS
  <2>1. WindowOver(l) \/ Doomed(l)
    BY NextEnded DEF WindowsHold, Tended, Ends, Finished
  <2> QED
    BY <2>1 DEF WindowsHold, DoomedAreOver, WindowOver
<1> QED
  BY <1>1, <1>2, <1>3, PTL DEF Spec, EndedOnlyAfterWindow

===============================================================================
