---------------------------- MODULE RenewalProofs ----------------------------
(***************************************************************************)
(* Rolling renewal without a gap, for chains of any length. What is shown  *)
(* of a chain is that whoever in it has come to harm has somebody after it *)
(* that serves and will go on doing so. First come the facts on rows, jobs *)
(* and endpoints that this rests on: where replacements are inserted, what *)
(* one step can do to a job and to an endpoint, and what the coroutines    *)
(* know across their awaits.                                               *)
(***************************************************************************)
EXTENDS SafetyProofs, WellFoundedInduction

-------------------------------------------------------------------------------
(* Rows are numbered in the order in which they are inserted                *)

Rowful == {l \in Leases : Exists(l)}

(* There are as many rows as the highest number, so that a replacement is  *)
(* inserted where no row is.                                               *)
Packed == \A l \in Leases : Exists(l) => l <= Rows

LEMMA RowsCount == IsFiniteSet(Leases) /\ IsFiniteSet(Rowful) /\ Rows \in Nat
                   /\ Cardinality(Rowful) = Rows
<1>1. IsFiniteSet(Leases)
  BY StoreConstants, FS_Interval DEF Leases
<1>2. Rowful \in SUBSET Leases /\ Cardinality(Rowful) = Rows
  BY DEF Rowful, Rows, Exists
<1> QED
  BY <1>1, <1>2, FS_Subset, FS_CardinalityType

(* The number that the scan gives to a replacement, see RenewScan. *)
RowOf(due, l) == Rows + Cardinality({k \in due : k <= l})

(* Replacements get numbers of their own, above those of the other rows.   *)
LEMMA RowNumbers ==
  ASSUME NEW due \in SUBSET Leases
  PROVE  /\ \A l \in due : RowOf(due, l) > Rows
         /\ \A k, l \in due : RowOf(due, k) = RowOf(due, l) => k = l
         /\ \A l \in due : RowOf(due, l) <= Rows + Cardinality(due)
<1> DEFINE upTo(l) == {k \in due : k <= l}
<1>1. IsFiniteSet(due) /\ Cardinality(due) \in Nat
  BY RowsCount, FS_Subset, FS_CardinalityType
<1>2. \A l \in due : l \in Int
  BY StoreConstants DEF Leases
<1>3. ASSUME NEW l \in due
      PROVE  /\ IsFiniteSet(upTo(l)) /\ Cardinality(upTo(l)) \in Nat
             /\ Cardinality(upTo(l)) <= Cardinality(due) /\ Cardinality(upTo(l)) > 0
  <2>1. upTo(l) \in SUBSET due /\ l \in upTo(l)
    BY <1>2
  <2>2. IsFiniteSet(upTo(l)) /\ Cardinality(upTo(l)) <= Cardinality(due)
    BY <1>1, <2>1, FS_Subset
  <2>3. Cardinality(upTo(l)) \in Nat /\ Cardinality(upTo(l)) # 0
    BY <2>1, <2>2, FS_CardinalityType, FS_EmptySet
  <2> QED
    BY <2>2, <2>3
<1>4. ASSUME NEW k \in due, NEW l \in due, k < l
      PROVE  Cardinality(upTo(k)) # Cardinality(upTo(l))
  <2>1. upTo(k) \in SUBSET upTo(l)
    BY <1>2, <1>4
  <2>2. l \in upTo(l) /\ l \notin upTo(k)
    BY <1>2, <1>4
  <2>3. IsFiniteSet(upTo(l))
    BY <1>3
  <2> HIDE DEF upTo
  <2> QED
    BY <2>1, <2>2, <2>3, FS_Subset
<1>5. \A l \in due : RowOf(due, l) = Rows + Cardinality(upTo(l))
  BY DEF RowOf
<1>6. \A k, l \in due : k # l => k < l \/ l < k
  BY <1>2
<1> HIDE DEF upTo
<1>7. \A k, l \in due : RowOf(due, k) = RowOf(due, l) => k = l
  <2>1. ASSUME NEW k \in due, NEW l \in due, RowOf(due, k) = RowOf(due, l), k # l PROVE FALSE
    <3>1. Cardinality(upTo(k)) = Cardinality(upTo(l))
      BY <1>3, <1>5, <2>1, RowsCount
    <3> QED
      BY <1>4, <1>6, <2>1, <3>1
  <2> QED
    BY <2>1
<1>8. \A l \in due : RowOf(due, l) > Rows /\ RowOf(due, l) <= Rows + Cardinality(due)
  BY <1>1, <1>3, <1>5, RowsCount
<1> QED
  BY <1>7, <1>8

LEMMA CountOfNew ==
  ASSUME NEW due \in SUBSET Leases, NEW new, new = {RowOf(due, l) : l \in due}
  PROVE  IsFiniteSet(new) /\ Cardinality(new) = Cardinality(due)
<1> DEFINE f == [l \in due |-> RowOf(due, l)]
<1>1. IsFiniteSet(due)
  BY RowsCount, FS_Subset
<1>2. f \in Surjection(due, new) /\ f \in Injection(due, new)
  BY RowNumbers DEF Surjection, Injection, IsInjective
<1> QED
  BY <1>1, <1>2, FS_Surjection

(* The bookings due at a scan, and what it makes of the rows. *)
Renewed == IF Rows + Cardinality(PlanRenewals) <= MaxLeases THEN PlanRenewals ELSE {}
NewRow(l) == RowOf(Renewed, l)

LEMMA ScanRows ==
  ASSUME TypeOK, RenewScan
  PROVE  /\ Renewed \in SUBSET Leases
         /\ \A l \in Renewed : NewRow(l) \in Leases /\ lease'[NewRow(l)] = BuildReplacement(l)
         /\ \A r \in Leases : (\A l \in Renewed : NewRow(l) # r) =>
               lease'[r] \in {lease[r], [lease[r] EXCEPT !.drainingSince = now]}
         /\ renewer'.todo = {NewRow(l) : l \in Renewed}
<1>1. Renewed \in SUBSET Leases
  BY DEF Renewed, PlanRenewals
<1>2. \A l \in Renewed : NewRow(l) \in Leases
  <2>1. ASSUME NEW l \in Renewed PROVE Rows + Cardinality(Renewed) <= MaxLeases
    BY <2>1 DEF Renewed
  <2> QED
    BY <1>1, <2>1, NewRowNumbers DEF NewRow, RowOf
<1> DEFINE row == [l \in Renewed |-> Rows + Cardinality({k \in Renewed : k <= l})]
           Replacing(r) == {l \in Renewed : row[l] = r}
<1>3. \A l \in Renewed : row[l] = NewRow(l)
  BY DEF NewRow, RowOf
<1>4. /\ lease' = [r \in Leases |->
                     IF Replacing(r) # {}
                     THEN BuildReplacement(CHOOSE l \in Replacing(r) : TRUE)
                     ELSE IF r \in Superseded /\ lease[r].drainingSince = Never
                     THEN [lease[r] EXCEPT !.drainingSince = now]
                     ELSE lease[r]]
      /\ renewer'.todo = {row[l] : l \in Renewed}
  BY DEF RenewScan, Renewed
<1> HIDE DEF row
<1>5. renewer'.todo = {NewRow(l) : l \in Renewed}
  BY <1>3, <1>4
<1>6. ASSUME NEW l \in Renewed PROVE lease'[NewRow(l)] = BuildReplacement(l)
  <2>1. \A k \in Replacing(NewRow(l)) : k = l
    BY <1>1, <1>3, RowNumbers DEF NewRow
  <2>2. l \in Replacing(NewRow(l))
    BY <1>3
  <2> HIDE DEF Replacing
  <2>3. (CHOOSE k \in Replacing(NewRow(l)) : TRUE) = l
    BY <2>1, <2>2
  <2> QED
    BY <1>2, <1>4, <2>2, <2>3
<1>7. ASSUME NEW r \in Leases, \A l \in Renewed : NewRow(l) # r
      PROVE  lease'[r] \in {lease[r], [lease[r] EXCEPT !.drainingSince = now]}
  <2>1. Replacing(r) = {}
    BY <1>3, <1>7
  <2> HIDE DEF Replacing
  <2> QED
    BY <1>4, <2>1
<1> QED
  BY <1>1, <1>2, <1>5, <1>6, <1>7

-------------------------------------------------------------------------------
(* What a booking replaces                                                  *)

(* Nothing goes wrong with a job or a submission of its own accord, and    *)
(* nobody takes a booking out of its chain. The process may die, and       *)
(* Slurm's other answers may fail.                                         *)
Undisturbed ==
  /\ {"sbatch", "reply", "probe", "exit"} \cap Faults = {}
  /\ {"unlock", "cancel", "stop"} \cap Ops = {}

(* What no step but an insertion takes from a row. *)
Descent(r, s) ==
  /\ s.supersedes = r.supersedes
  /\ r.mode = "service" => s.mode = "service"
  /\ s.state = "NONE" <=> r.state = "NONE"

LEMMA RowDescent ==
  ASSUME NEW r \in LeaseRow
  PROVE  /\ Descent(r, r)
         /\ r.state # "NONE" =>
              /\ \A at : Descent(r, Fail(r, at))
              /\ \A s : s # "NONE" => Descent(r, [r EXCEPT !.state = s])
              /\ \A s, n : s # "NONE" => /\ Descent(r, [r EXCEPT !.state = s, !.retries = n])
                                         /\ Descent(r, [r EXCEPT !.state = s, !.end = n])
              /\ \A j, s : s # "NONE" => Descent(r, [r EXCEPT !.job = j, !.state = s])
              /\ \A j, s, n : s # "NONE" => Descent(r, [r EXCEPT !.job = j, !.state = s, !.failedAt = n])
         /\ \A b, e : Descent(r, [r EXCEPT !.begin = b, !.end = e])
         /\ \A e : Descent(r, [r EXCEPT !.end = e])
         /\ \A j : Descent(r, [r EXCEPT !.job = j])
         /\ \A at : Descent(r, [r EXCEPT !.drainingSince = at])
         /\ \A m, n : m \in {"service", r.mode} =>
              Descent(r, [r EXCEPT !.locked = TRUE, !.mode = m, !.retries = n])
<1>1. \A at : r.state # "NONE" => Descent(r, Fail(r, at))
  BY DEF Descent, Fail, LeaseRow
<1>2. \A s : r.state # "NONE" /\ s # "NONE" => Descent(r, [r EXCEPT !.state = s])
  BY DEF Descent, LeaseRow
<1>3. \A s, n : r.state # "NONE" /\ s # "NONE" => Descent(r, [r EXCEPT !.state = s, !.retries = n])
  BY DEF Descent, LeaseRow
<1>4. \A s, n : r.state # "NONE" /\ s # "NONE" => Descent(r, [r EXCEPT !.state = s, !.end = n])
  BY DEF Descent, LeaseRow
<1>5. \A j, s : r.state # "NONE" /\ s # "NONE" => Descent(r, [r EXCEPT !.job = j, !.state = s])
  BY DEF Descent, LeaseRow
<1>6. \A j, s, n : r.state # "NONE" /\ s # "NONE" =>
                   Descent(r, [r EXCEPT !.job = j, !.state = s, !.failedAt = n])
  BY DEF Descent, LeaseRow
<1>7. \A b, e : Descent(r, [r EXCEPT !.begin = b, !.end = e])
  BY DEF Descent, LeaseRow
<1>8. \A e : Descent(r, [r EXCEPT !.end = e])
  BY DEF Descent, LeaseRow
<1>9. \A j : Descent(r, [r EXCEPT !.job = j])
  BY DEF Descent, LeaseRow
<1>10. \A at : Descent(r, [r EXCEPT !.drainingSince = at])
  BY DEF Descent, LeaseRow
<1>11. \A m, n : m \in {"service", r.mode} =>
                 Descent(r, [r EXCEPT !.locked = TRUE, !.mode = m, !.retries = n])
  BY DEF Descent, LeaseRow
<1>12. Descent(r, r)
  BY DEF Descent
<1> QED
  BY <1>1, <1>2, <1>3, <1>4, <1>5, <1>6, <1>7, <1>8, <1>9, <1>10, <1>11, <1>12

(* Whom a coroutine holds. *)
Handled(l) ==
  \/ Creating(l) \/ Retrying(l)
  \/ l \in submitter.todo \cup renewer.todo \cup renewer.retire

(* Whoever is held, has a job or replaces another has a row; a replacement *)
(* is a service deployment and was inserted after what it replaces; the    *)
(* requests that would end a chain are not made.                           *)
Rowed ==
  /\ \A l \in Leases : Handled(l) => Exists(l)
  /\ \A j \in Jobs : job[j].for # NoLease => Exists(job[j].for)
  /\ \A l \in Leases : Creating(l) => lease[l].supersedes = NoLease
  /\ \A l \in Leases : lease[l].supersedes # NoLease =>
        Exists(l) /\ lease[l].mode = "service" /\ lease[l].supersedes < l
  /\ \A l \in Leases : request[l].op \in {"none", "extend"}
  /\ Packed

(* Rows come into being in two ways, and are kept by every other step.     *)
LEMMA NextDescent ==
  ASSUME TypeOK, [Next]_vars, Undisturbed, RetrierAtLease, Owned, Rowed, NEW l \in Leases
  PROVE  Descent(lease[l], lease'[l]) \/ CreatePlanned(l) \/ CreateNow(l) \/ RenewScan
<1>1. lease \in [Leases -> LeaseRow] /\ lease[l] \in LeaseRow
  BY DEF TypeOK, StoreTypeOK
<1>0. lease[l].state # "NONE" <=> Exists(l)
  BY DEF Exists
<1> DEFINE Goal == Descent(lease[l], lease'[l])
<1>2. ASSUME lease'[l] = lease[l] PROVE Goal
  BY <1>1, <1>2, RowDescent
<1>13. ASSUME lease[l].state # "NONE",
             \/ \E at : lease'[l] = Fail(lease[l], at)
             \/ \E s \in LeaseState \ {"NONE"} : lease'[l] = [lease[l] EXCEPT !.state = s]
      PROVE  Goal
  <2>1. /\ \A at : Descent(lease[l], Fail(lease[l], at))
        /\ \A s : s # "NONE" => Descent(lease[l], [lease[l] EXCEPT !.state = s])
    BY <1>1, <1>13, RowDescent
  <2> QED
    BY <1>13, <2>1
<1>3. CASE Submitter
  <2>1. CASE SubmitScan
    BY <1>2, <1>13, <2>1 DEF SubmitScan, Planned, LeaseState, Finished
  <2>2. ASSUME NEW m \in Leases, SubmitRecord(m) PROVE Goal
    <3>1. CASE m = l /\ lease[l].state = "PLANNED"
      <4>1. lease'[l] = [lease[l] EXCEPT !.job = submitter.job, !.state = "SUBMITTED"]
        BY <1>1, <2>2, <3>1 DEF SubmitRecord, LeaseRow
      <4>2. Descent(lease[l], [lease[l] EXCEPT !.job = submitter.job, !.state = "SUBMITTED"])
        BY <1>1, <3>1, RowDescent
      <4> QED
        BY <4>1, <4>2
    <3> QED
      BY <1>1, <1>2, <2>2, <3>1 DEF SubmitRecord
  <2>3. ASSUME NEW m \in Leases, SubmitFails(m) PROVE Goal
    BY <1>1, <1>2, <1>13, <2>3 DEF SubmitFails
  <2> QED
    BY <1>2, <1>3, <2>1, <2>2, <2>3 DEF Submitter, SubmitNext, SubmitStep, SubmitSbatch
<1>4. CASE Retrier
  <2>1. CASE RetryScan
    <3>1. PICK b, e : lease'[l] \in {lease[l], [lease[l] EXCEPT !.begin = b, !.end = e]}
      BY <2>1 DEF RetryScan
    <3>2. Descent(lease[l], [lease[l] EXCEPT !.begin = b, !.end = e])
      BY <1>1, RowDescent
    <3> QED
      BY <1>2, <3>1, <3>2
  <2>2. ASSUME NEW m \in Leases, RetryClaim(m) PROVE Goal
    BY <1>1, <2>2 DEF RetryClaim, Descent, LeaseRow
  <2>3. CASE RetryRecord
    <3>1. retrier.cur = l => lease[l].state # "NONE"
      BY <1>0 DEF Rowed, Handled, Retrying
    <3> QED
      BY <1>1, <2>3, <3>1 DEF RetryRecord, Descent, LeaseRow
  <2>4. CASE RetryFails
    BY <1>1, <1>2, <1>13, <2>4 DEF RetryFails
  <2> QED
    BY <1>2, <1>4, <2>1, <2>2, <2>3, <2>4
    DEF Retrier, RetryNext, RetryStep, RetrySkip, RetryCancel, RetrySbatch, storeVars
<1>5. CASE Cleaner
  BY <1>2, <1>13, <1>5
  DEF Cleaner, CleanupNext, CleanupScan, CleanupStep, CleanupCancel, CleanupWrite, storeVars,
      LeaseState, Finished
<1>6. CASE Reconciler
  <2>1. ASSUME NEW checks, NEW expiry, NEW gone, NEW at,
               ReconcileWrite(checks, expiry, gone, at)
        PROVE  Goal
    <3>1. (\E c \in Lost(checks, gone) : c[1] = l) => lease[l].state # "NONE"
      BY DEF Lost, Active
    <3> QED
      BY <1>2, <1>13, <2>1, <3>1 DEF ReconcileWrite, LeaseState, Finished
  <2> QED
    BY <1>2, <1>6, <2>1
    DEF Reconciler, ReconcileNext, ReconcileScan, ReconcileStep, ReconcileQuery,
        ReconcileUnavailable, ReconcileApply, storeVars
<1>7. CASE Prober
  <2>1. \/ CheckedLease(l) = lease[l]
        \/ lease[l].state # "NONE" /\ CheckedLease(l) = Fail(lease[l], prober.now)
        \/ lease[l].state # "NONE"
           /\ CheckedLease(l) = [lease[l] EXCEPT !.state = "RUNNING", !.retries = 0]
    BY DEF CheckedLease
  <2>2. lease[l].state # "NONE" =>
          Descent(lease[l], [lease[l] EXCEPT !.state = "RUNNING", !.retries = 0])
    BY <1>1, RowDescent
  <2>3. lease'[l] \in {lease[l], CheckedLease(l)}
    BY <1>7 DEF Prober, HealthNext, HealthProbe, HealthApply, storeVars
  <2> QED
    BY <1>2, <1>13, <2>1, <2>2, <2>3
<1>8. CASE Renewer
  <2>1. CASE RenewWrite
    <3>1. CASE l \in renewer.retire
      <4>1. lease'[l] = [lease[l] EXCEPT !.state = "ENDED", !.end = renewer.now]
        BY <2>1, <3>1 DEF RenewWrite
      <4>2. lease[l].state # "NONE"
        BY <1>0, <3>1 DEF Rowed, Handled
      <4>3. Descent(lease[l], [lease[l] EXCEPT !.state = "ENDED", !.end = renewer.now])
        BY <1>1, <4>2, RowDescent
      <4> QED
        BY <4>1, <4>3
    <3>2. CASE l \notin renewer.retire /\ \E s \in renewer.subs : s[1] = l
      <4>1. PICK n : lease'[l] = [lease[l] EXCEPT !.state = "SUBMITTED", !.job = n]
        BY <2>1, <3>2 DEF RenewWrite
      <4>2. PICK j \in Jobs : <<l, j>> \in renewer.subs
        BY <3>2 DEF TypeOK, RenewerTypeOK
      <4>3. job[j].for = l /\ l # NoLease
        BY <4>2 DEF Owned, InFlight, Leases, NoLease
      <4>4. lease[l].state # "NONE"
        BY <1>0, <4>3 DEF Rowed
      <4> QED
        BY <1>1, <4>1, <4>4 DEF Descent, LeaseRow
    <3>3. CASE l \notin renewer.retire /\ ~\E s \in renewer.subs : s[1] = l
      BY <1>2, <2>1, <3>3 DEF RenewWrite
    <3> QED
      BY <3>1, <3>2, <3>3
  <2> QED
    BY <1>2, <1>8, <2>1
    DEF Renewer, RenewNext, RenewStep, RenewSbatch, RenewSbatchFails, RenewCancel
<1>9. CASE Users /\ ~CreatePlanned(l) /\ ~CreateNow(l)
  <2>1. ASSUME NEW m \in Leases, m # l, CreatePlanned(m) \/ CreateNow(m) PROVE Goal
    BY <1>1, <1>2, <2>1 DEF CreatePlanned, CreateNow
  <2>2. ASSUME NEW m \in Leases, UpdateLease(m) PROVE Goal
    BY <1>1, <2>2 DEF UpdateLease, Descent, LeaseRow
  <2>3. ASSUME NEW m \in Leases, ExtendLease(m) \/ ShortenLease(m) PROVE Goal
    <3>1. ASSUME NEW e, SetEnd(m, e) PROVE Goal
      BY <1>1, <3>1 DEF SetEnd, Descent, LeaseRow
    <3> QED
      BY <2>3, <3>1 DEF ExtendLease, ShortenLease
  <2>4. ASSUME NEW m \in Leases, LockLease(m) PROVE Goal
    <3>1. PICK permanent \in BOOLEAN :
            lease' = [lease EXCEPT ![m].locked = TRUE,
                                   ![m].mode = IF permanent THEN "service" ELSE @,
                                   ![m].retries = IF permanent THEN 0 ELSE @]
      BY <2>4 DEF LockLease
    <3> QED
      BY <1>1, <3>1 DEF Descent, LeaseRow
  <2>5. ASSUME NEW m \in Leases, CancelLease(m) \/ UnlockLease(m) PROVE FALSE
    BY <2>5 DEF CancelLease, UnlockLease, Undisturbed
  <2> QED
    BY <1>9, <2>1, <2>2, <2>3, <2>4, <2>5 DEF Users, RequestArrives
<1>10. ASSUME NEW m \in Leases, Handler(m) PROVE Goal
  <2>1. CASE CreateSbatch(m)
    BY <1>2, <2>1 DEF CreateSbatch
  <2>2. CASE CreateRecord(m) \/ CommitEnd(m)
    BY <1>1, <2>2 DEF CreateRecord, CommitEnd, Descent, LeaseRow
  <2>3. CASE CreateFails(m)
    <3>1. m = l => lease[l].state # "NONE"
      BY <1>0, <2>3 DEF CreateFails, Rowed, Handled, Creating
    <3> QED
      BY <1>1, <1>2, <1>13, <2>3, <3>1 DEF CreateFails
  <2>4. ~CommitCancel(m)
    BY DEF CommitCancel, Rowed
  <2> QED
    BY <1>10, <2>1, <2>2, <2>3, <2>4 DEF Handler, RequestStep
<1>11. ASSUME NEW j \in Jobs, Registration(j) PROVE Goal
  <2>1. CASE RegisterLease(j)
    BY <1>2, <1>13, <2>1 DEF RegisterLease, LeaseState, Active
  <2> QED
    BY <1>2, <1>11, <2>1 DEF Registration, RegisterEndpoint
<1>12. CASE ReconcileOnStartup
  <2>1. PICK gone : lease'[l] = RestartedLease(l, gone)
    BY <1>12 DEF ReconcileOnStartup
  <2> QED
    BY <1>2, <1>13, <2>1 DEF RestartedLease, LeaseState, Finished, Active
<1> QED
  BY <1>2, <1>3, <1>4, <1>5, <1>6, <1>7, <1>8, <1>9, <1>10, <1>11, <1>12
  DEF Next, vars, storeVars, Clock, Tick, Cluster, ClusterNext, JobStarts, GivesUpRegistering,
      ModelLoads, JobExits, Crash, TakeOver

(* A scan does no more to the rows there are than to note that they drain. *)
LEMMA OldRows ==
  ASSUME TypeOK, RenewScan, Rowed, NEW l \in Leases, Exists(l)
  PROVE  \A k \in Renewed : NewRow(k) # l
<1>1. l <= Rows /\ l \in Int
  BY StoreConstants DEF Rowed, Packed, Leases
<1>2. Renewed \in SUBSET Leases
  BY ScanRows
<1>3. \A k \in Renewed : NewRow(k) > Rows
  BY <1>2, RowNumbers DEF NewRow
<1>4. Rows \in Nat
  BY RowsCount
<1> QED
  BY <1>1, <1>3, <1>4

LEMMA ScannedOld ==
  ASSUME TypeOK, RenewScan, Rowed, NEW l \in Leases, Exists(l)
  PROVE  lease'[l] \in {lease[l], [lease[l] EXCEPT !.drainingSince = now]}
  BY OldRows, ScanRows

(* A row that is there keeps its place in its chain.                       *)
LEMMA NextExists ==
  ASSUME TypeOK, [Next]_vars, Undisturbed, RetrierAtLease, Owned, Rowed, NEW l \in Leases,
         Exists(l)
  PROVE  Descent(lease[l], lease'[l])
<1>1. lease[l] \in LeaseRow
  BY DEF TypeOK, StoreTypeOK
<1>2. ~CreatePlanned(l) /\ ~CreateNow(l)
  BY DEF CreatePlanned, CreateNow, IsNextLease, Exists
<1>3. CASE RenewScan
  <2>1. lease'[l] \in {lease[l], [lease[l] EXCEPT !.drainingSince = now]}
    BY <1>3, ScannedOld
  <2>2. Descent(lease[l], lease[l]) /\ Descent(lease[l], [lease[l] EXCEPT !.drainingSince = now])
    BY <1>1, RowDescent
  <2> QED
    BY <2>1, <2>2
<1> QED
  BY <1>2, <1>3, NextDescent

Inserted(l) ==
  CreatePlanned(l) \/ CreateNow(l) \/ (RenewScan /\ \E k \in Renewed : NewRow(k) = l)

(* A coroutine takes hold of rows only.                                    *)
LEMMA NextHandled ==
  ASSUME TypeOK, [Next]_vars, NEW l \in Leases, Handled(l)'
  PROVE  Handled(l) \/ Exists(l) \/ Inserted(l)
<1>1. CASE Creating(l)'
  BY <1>1, NextCreator DEF Handled, Inserted
<1>2. CASE Retrying(l)'
  BY <1>2, NextRetrying DEF Handled, RetryClaim, Exists
<1>3. CASE l \in submitter'.todo
  <2>1. CASE UNCHANGED submitter
    BY <1>3, <2>1 DEF Handled
  <2>2. submitter' # SubmitterIdle
    BY <1>3 DEF SubmitterIdle
  <2>3. ASSUME NEW m, submitter' = SubmitterAfter(m) PROVE l \in submitter.todo
    BY <1>3, <2>2, <2>3 DEF SubmitterAfter, TypeOK, SubmitterTypeOK
  <2>4. ASSUME NEW m \in Leases, SubmitSbatch(m) PROVE l \in submitter.todo
    BY <1>3, <2>4 DEF SubmitSbatch, TypeOK, SubmitterTypeOK
  <2>5. CASE SubmitScan
    <3>1. l \in Planned
      BY <1>3, <2>2, <2>5 DEF SubmitScan, SubmitterIdle
    <3> QED
      BY <3>1 DEF Planned, Exists
  <2> QED
    BY <2>1, <2>2, <2>3, <2>4, <2>5
    DEF Next, vars, workerVars, Submitter, SubmitNext, SubmitStep, SubmitRecord, SubmitFails,
        Retrier, Cleaner, Reconciler, Prober, Renewer, Users, Handler, Registration, Clock,
        Cluster, Crash, ReconcileOnStartup, TakeOver, Handled
<1>4. CASE l \in renewer'.todo \cup renewer'.retire
  <2>1. CASE UNCHANGED renewer
    BY <1>4, <2>1 DEF Handled
  <2>2. renewer' # RenewerIdle
    BY <1>4 DEF RenewerIdle
  <2>3. ASSUME NEW m \in Leases, RenewSbatch(m) \/ RenewSbatchFails(m) \/ RenewCancel(m)
        PROVE  l \in renewer.todo \cup renewer.retire
    BY <1>4, <2>3 DEF RenewSbatch, RenewSbatchFails, RenewCancel, TypeOK, RenewerTypeOK
  <2>4. CASE RenewScan
    <3>1. renewer'.retire \subseteq Superseded
      BY <2>4 DEF RenewScan
    <3>2. CASE l \in renewer'.retire
      BY <3>1, <3>2 DEF Superseded, Exists, Active
    <3>3. CASE l \in renewer'.todo
      BY <2>4, <3>3, ScanRows DEF Inserted
    <3> QED
      BY <1>4, <3>2, <3>3
  <2> QED
    BY <2>1, <2>2, <2>3, <2>4
    DEF Next, vars, workerVars, Submitter, Retrier, Cleaner, Reconciler, Prober, Renewer,
        RenewNext, RenewStep, RenewWrite, Users, Handler, Registration, Clock, Cluster, Crash,
        ReconcileOnStartup, TakeOver, Handled
<1> QED
  BY <1>1, <1>2, <1>3, <1>4 DEF Handled

LEMMA InsertedRows ==
  ASSUME TypeOK, NEW l \in Leases, Inserted(l)
  PROVE  /\ Exists(l)'
         /\ \/ lease'[l].supersedes = NoLease
            \/ \E k \in Renewed : lease'[l] = BuildReplacement(k) /\ NewRow(k) = l
<1>1. lease \in [Leases -> LeaseRow]
  BY DEF TypeOK, StoreTypeOK
<1>2. CASE CreatePlanned(l)
  BY <1>1, <1>2 DEF CreatePlanned, NoRow, Exists
<1>3. CASE CreateNow(l)
  BY <1>1, <1>3 DEF CreateNow, NoRow, Exists
<1>4. CASE RenewScan /\ \E k \in Renewed : NewRow(k) = l
  <2>1. PICK k \in Renewed : lease'[l] = BuildReplacement(k) /\ NewRow(k) = l
    BY <1>4, ScanRows
  <2>2. BuildReplacement(k).state = "PLANNED"
    BY DEF BuildReplacement, NoRow
  <2> QED
    BY <2>1, <2>2 DEF Exists
<1> QED
  BY <1>2, <1>3, <1>4 DEF Inserted

(* Who may be about to cancel a job. *)
Condemned(j) ==
  \/ \E a \in cleaner.pend : a.job = j
  \/ retrier.step = "cancel" /\ retrier.job = j
  \/ \E l \in renewer.pend : lease[l].job = j

(* What becomes of a job in one step. *)
JobMove(j) ==
  \/ job'[j] = job[j]
  \/ /\ job[j].st = "UNBORN" /\ job'[j].st = "PENDING"
     /\ job'[j].for \in Leases /\ Handled(job'[j].for)
  \/ /\ job'[j].for = job[j].for
     /\ \/ /\ job[j].st \in {"PENDING", "CALLING", "LOADING"}
           /\ job'[j].st \in {"CALLING", "LOADING", "SERVING"}
        \/ job[j].st = "LOST" /\ job'[j].st = "GONE"
        \/ Condemned(j) /\ job'[j].st \in Left

LEMMA NextJobMoves ==
  ASSUME TypeOK, [Next]_vars, Undisturbed, RetrierAtLease, NEW j \in Jobs
  PROVE  JobMove(j)
<1>1. JobTypeOK
  BY DEF TypeOK, StoreTypeOK, JobTypeOK
<1>2. ASSUME UNCHANGED job PROVE JobMove(j)
  BY <1>2 DEF JobMove
<1>3. ASSUME NEW i \in Jobs, NEW l \in Leases, Sbatch(i, l), Handled(l)
      PROVE  JobMove(j)
  <2>1. CASE i = j
    BY <1>1, <1>3, <2>1 DEF JobTypeOK, Sbatch, IsNextJob, JobMove
  <2>2. CASE i # j
    BY <1>1, <1>3, <2>2 DEF JobTypeOK, Sbatch, JobMove
  <2> QED
    BY <2>1, <2>2
<1>4. ASSUME NEW l, SbatchRaises(l) PROVE UNCHANGED job
  BY <1>4 DEF SbatchRaises, Undisturbed
<1>5. ASSUME NEW i, Scancel(i), Condemned(i) PROVE JobMove(j)
  BY <1>1, <1>5 DEF JobTypeOK, Scancel, Killed, JobMove, Left
<1>6. CASE Submitter
  <2>1. ASSUME NEW l \in Leases, SubmitSbatch(l) PROVE JobMove(j)
    BY <1>3, <2>1 DEF SubmitSbatch, IsNextSnapshot, Handled
  <2> QED
    BY <1>2, <1>4, <1>6, <2>1
    DEF Submitter, SubmitNext, SubmitScan, SubmitStep, SubmitRecord, SubmitFails
<1>7. CASE Retrier
  <2>1. CASE RetryCancel
    BY <1>5, <2>1 DEF RetryCancel, Condemned
  <2>2. CASE RetrySbatch
    BY <1>3, <2>2 DEF RetrySbatch, RetrierAtLease, Handled, Retrying
  <2> QED
    BY <1>2, <1>4, <1>7, <2>1, <2>2
    DEF Retrier, RetryNext, RetryScan, RetryStep, RetryClaim, RetrySkip, RetryRecord, RetryFails,
        storeVars
<1>8. CASE Cleaner
  <2>1. ASSUME NEW a \in cleaner.pend, CleanupCancel(a) PROVE JobMove(j)
    BY <1>5, <2>1 DEF CleanupCancel, Condemned
  <2> QED
    BY <1>2, <1>8, <2>1 DEF Cleaner, CleanupNext, CleanupScan, CleanupStep, CleanupWrite, storeVars
<1>9. CASE Renewer
  <2>1. ASSUME NEW l \in Leases, RenewSbatch(l) PROVE JobMove(j)
    BY <1>3, <2>1 DEF RenewSbatch, Handled
  <2>2. ASSUME NEW l \in Leases, RenewCancel(l) PROVE JobMove(j)
    BY <1>2, <1>5, <2>2 DEF RenewCancel, Condemned
  <2> QED
    BY <1>2, <1>4, <1>9, <2>1, <2>2
    DEF Renewer, RenewNext, RenewScan, RenewStep, RenewSbatchFails, RenewWrite
<1>10. CASE Users
  <2>1. ASSUME NEW l \in Leases, CancelLease(l) PROVE FALSE
    BY <2>1 DEF CancelLease, Undisturbed
  <2> QED
    BY <1>2, <1>10, <2>1
    DEF Users, RequestArrives, CreatePlanned, CreateNow, UpdateLease, ExtendLease, ShortenLease,
        LockLease, UnlockLease
<1>11. ASSUME NEW l \in Leases, Handler(l) PROVE JobMove(j)
  <2>1. ASSUME CreateSbatch(l) PROVE JobMove(j)
    <3>1. Handled(l)
      BY <2>1 DEF CreateSbatch, Handled, Creating
    <3> QED
      BY <1>3, <2>1, <3>1 DEF CreateSbatch
  <2> QED
    BY <1>2, <1>4, <1>11, <2>1
    DEF Handler, RequestStep, CreateRecord, CreateFails, CommitEnd, CommitCancel
<1>12. CASE Cluster \/ \E i \in Jobs : Registration(i)
  BY <1>1, <1>2, <1>12
  DEF Cluster, ClusterNext, JobStarts, GivesUpRegistering, ModelLoads, JobExits, Undisturbed,
      Registration, RegisterEndpoint, RegisterLease, JobMove, JobTypeOK
<1> QED
  BY <1>2, <1>6, <1>7, <1>8, <1>9, <1>10, <1>11, <1>12
  DEF Next, vars, storeVars, Reconciler, ReconcileNext, ReconcileScan, ReconcileStep,
      ReconcileQuery, ReconcileUnavailable, ReconcileApply, Prober, HealthNext, HealthProbe,
      HealthApply, Clock, Tick, Crash, ReconcileOnStartup, TakeOver

LEMMA NextPacked ==
  ASSUME TypeOK, [Next]_vars, Undisturbed, RetrierAtLease, Owned, Rowed
  PROVE  Packed'
<1>1. \A l \in Leases : Exists(l) => Exists(l)'
  BY NextExists DEF Descent, Exists
<1>2. \A l \in Leases : l \in Int
  BY StoreConstants DEF Leases
<1>3. Rows' = Cardinality(Rowful')
  BY DEF Rows, Rowful, Exists
<1>4. IsFiniteSet(Rowful) /\ Cardinality(Rowful) = Rows /\ Rows \in Nat /\ IsFiniteSet(Leases)
  BY RowsCount
<1>5. CASE \E m \in Leases : IsNextLease(m) /\ Rowful' = Rowful \cup {m}
  <2>1. PICK m \in Leases : IsNextLease(m) /\ Rowful' = Rowful \cup {m}
    BY <1>5
  <2>2. m \notin Rowful
    BY <2>1 DEF IsNextLease, Rowful, Exists
  <2>3. Rows' = Rows + 1
    BY <1>3, <1>4, <2>1, <2>2, FS_AddElement
  <2>4. m <= Rows'
    <3>1. 1..(m - 1) \in SUBSET Rowful
      BY <1>2, <2>1, StoreConstants DEF IsNextLease, Rowful, Exists, Leases
    <3>2. Cardinality(1..(m - 1)) = m - 1
      BY <1>2, FS_Interval DEF Leases
    <3>3. Cardinality(1..(m - 1)) <= Rows
      BY <1>4, <3>1, FS_Subset
    <3> QED
      BY <1>2, <1>4, <2>3, <3>2, <3>3
  <2>5. ASSUME NEW l \in Leases, Exists(l)' PROVE l <= Rows'
    <3>1. l \in Rowful \/ l = m
      BY <2>1, <2>5 DEF Rowful
    <3>2. CASE l \in Rowful
      BY <1>2, <1>4, <2>3, <3>2 DEF Rowful, Rowed, Packed
    <3> QED
      BY <2>4, <3>1, <3>2
  <2> QED
    BY <2>5 DEF Packed
<1>6. CASE RenewScan
  <2> DEFINE new == {NewRow(k) : k \in Renewed}
  <2>1. Renewed \in SUBSET Leases
    BY <1>6, ScanRows
  <2>2. IsFiniteSet(new) /\ Cardinality(new) = Cardinality(Renewed)
    BY <2>1, CountOfNew DEF NewRow
  <2>3. Cardinality(Renewed) \in Nat
    BY <1>4, <2>1, FS_Subset, FS_CardinalityType
  <2>4. \A k \in Renewed : NewRow(k) > Rows /\ NewRow(k) <= Rows + Cardinality(Renewed)
    BY <2>1, RowNumbers DEF NewRow
  <2>5. \A k \in Renewed : NewRow(k) \in Leases
    BY <1>6, ScanRows
  <2>6. Rowful' = Rowful \cup new
    <3>1. ASSUME NEW l \in Leases, Exists(l)', ~Exists(l) PROVE l \in new
      <4>1. lease[l].state = "NONE" /\ lease[l] \in LeaseRow
        BY <3>1 DEF Exists, TypeOK, StoreTypeOK
      <4>2. [lease[l] EXCEPT !.drainingSince = now].state = "NONE"
        BY <4>1 DEF LeaseRow
      <4>3. lease'[l] \notin {lease[l], [lease[l] EXCEPT !.drainingSince = now]}
        BY <3>1, <4>1, <4>2 DEF Exists
      <4> QED
        BY <1>6, <4>3, ScanRows
    <3>2. \A l \in new : l \in Leases /\ Exists(l)'
      BY <1>6, <2>5, InsertedRows DEF Inserted
    <3> HIDE DEF new
    <3> QED
      BY <1>1, <3>1, <3>2 DEF Rowful
  <2>7. Rowful \cap new = {}
    BY <1>2, <1>4, <2>4 DEF Rowful, Rowed, Packed
  <2>8. \A l \in new : l <= Rows + Cardinality(Renewed)
    BY <2>4
  <2> HIDE DEF new
  <2>9. Rows' = Rows + Cardinality(Renewed)
    <3>1. Cardinality(Rowful \cap new) = 0
      BY <2>7, FS_EmptySet
    <3>2. Cardinality(Rowful \cup new)
            = Cardinality(Rowful) + Cardinality(new) - Cardinality(Rowful \cap new)
      BY <1>4, <2>2, FS_Union
    <3>3. Rows' = Rows + Cardinality(Renewed) - 0
      BY <1>3, <1>4, <2>2, <2>6, <3>1, <3>2
    <3> QED
      BY <1>4, <2>3, <3>3
  <2>10. \A l \in Rowful : l <= Rows
    BY DEF Rowful, Rowed, Packed
  <2>11. \A l \in Rowful \cup new : l \in Leases => l <= Rows'
    BY <1>2, <1>4, <2>3, <2>8, <2>9, <2>10
  <2> QED
    BY <2>6, <2>11 DEF Packed, Rowful
<1>7. CASE /\ ~RenewScan
           /\ ~\E m \in Leases : IsNextLease(m) /\ Rowful' = Rowful \cup {m}
  <2>1. ASSUME NEW l \in Leases, CreatePlanned(l) \/ CreateNow(l) PROVE FALSE
    <3>1. PICK r : lease' = [lease EXCEPT ![l] = r]
      BY <2>1 DEF CreatePlanned, CreateNow
    <3>2. \A m \in Leases : m # l => lease'[m] = lease[m]
      BY <3>1 DEF TypeOK, StoreTypeOK
    <3>3. IsNextLease(l)
      BY <2>1 DEF CreatePlanned, CreateNow
    <3>4. Exists(l)'
      BY <2>1, InsertedRows DEF Inserted
    <3>5. Rowful' = Rowful \cup {l}
      BY <3>2, <3>4 DEF Rowful, Exists
    <3> QED
      BY <1>7, <3>3, <3>5
  <2>2. \A l \in Leases : Exists(l)' <=> Exists(l)
    BY <1>7, <2>1, NextDescent DEF Descent, Exists
  <2>3. Rowful' = Rowful
    BY <2>2 DEF Rowful
  <2>4. Rows' = Rows
    BY <1>3, <1>4, <2>3
  <2> QED
    BY <2>2, <2>4 DEF Rowed, Packed
<1> QED
  BY <1>5, <1>6, <1>7

LEMMA NextRowed ==
  ASSUME TypeOK, [Next]_vars, Undisturbed, RetrierAtLease, Owned, Rowed
  PROVE  Rowed'
<1>1. TypeOK' /\ JobSteps
  BY NextTypes, NextJobs
<1>2. ASSUME NEW l \in Leases, Exists(l)
      PROVE  /\ Exists(l)' /\ lease'[l].supersedes = lease[l].supersedes
             /\ lease[l].mode = "service" => lease'[l].mode = "service"
  BY <1>2, NextExists DEF Descent, Exists
<1>3. ASSUME NEW l \in Leases, Handled(l)' PROVE Exists(l)'
  BY <1>2, <1>3, NextHandled, InsertedRows DEF Rowed
<1>4. ASSUME NEW j \in Jobs, job'[j].for # NoLease
      PROVE  lease'[job'[j].for].state # "NONE"
  <2>1. job'[j].for \in Leases
    BY <1>1, <1>4 DEF TypeOK, StoreTypeOK
  <2>2. job'[j].for = job[j].for \/ Handled(job'[j].for)
    BY NextJobMoves DEF JobMove
  <2>3. Exists(job'[j].for)
    BY <1>4, <2>1, <2>2 DEF Rowed
  <2> QED
    BY <1>2, <2>1, <2>3 DEF Exists
<1>5. ASSUME NEW l \in Leases, Creating(l)' PROVE lease'[l].supersedes = NoLease
  <2>1. CASE Creating(l)
    BY <1>2, <2>1 DEF Rowed, Handled
  <2>2. CASE CreateNow(l)
    BY <2>2 DEF CreateNow, NoRow, TypeOK, StoreTypeOK
  <2> QED
    BY <1>5, <2>1, <2>2, NextCreator
<1>6. ASSUME NEW l \in Leases, lease'[l].supersedes # NoLease
      PROVE  Exists(l)' /\ lease'[l].mode = "service" /\ lease'[l].supersedes < l
  <2>1. CASE Exists(l)
    BY <1>2, <1>6, <2>1 DEF Rowed
  <2>2. ASSUME NEW k \in Renewed, lease'[l] = BuildReplacement(k), NewRow(k) = l, RenewScan
        PROVE  Exists(l)' /\ lease'[l].mode = "service" /\ lease'[l].supersedes < l
    <3>1. /\ BuildReplacement(k).supersedes = k /\ BuildReplacement(k).mode = "service"
          /\ BuildReplacement(k).state = "PLANNED"
      BY DEF BuildReplacement, NoRow
    <3>2. Renewed \in SUBSET Leases /\ k \in PlanRenewals
      BY <2>2 DEF Renewed, PlanRenewals
    <3>3. k <= Rows
      BY <3>2 DEF PlanRenewals, DueForRenewal, Rowed, Packed, Exists, Active
    <3>4. NewRow(k) > Rows
      BY <3>2, RowNumbers DEF NewRow
    <3>5. k < l
      <4>1. k \in Int /\ l \in Int /\ Rows \in Nat
        BY <3>2, StoreConstants, RowsCount DEF Leases
      <4> QED
        BY <2>2, <3>3, <3>4, <4>1
    <3> QED
      BY <2>2, <3>1, <3>5 DEF Exists
  <2>3. CASE ~Exists(l) /\ ~Inserted(l)
    <3>1. lease[l].supersedes = NoLease
      BY <2>3 DEF Rowed
    <3>2. CASE RenewScan
      <4>1. lease'[l] \in {lease[l], [lease[l] EXCEPT !.drainingSince = now]}
        BY <2>3, <3>2, ScanRows DEF Inserted
      <4> QED
        BY <1>6, <3>1, <4>1 DEF TypeOK, StoreTypeOK, LeaseRow
    <3>3. CASE ~RenewScan
      BY <1>6, <2>3, <3>1, <3>3, NextDescent DEF Inserted, Descent
    <3> QED
      BY <3>2, <3>3
  <2>4. CASE Inserted(l) /\ ~Exists(l)
    <3>1. CASE CreatePlanned(l) \/ CreateNow(l)
      BY <1>6, <3>1 DEF CreatePlanned, CreateNow, NoRow, TypeOK, StoreTypeOK
    <3> QED
      BY <2>2, <2>4, <3>1, ScanRows DEF Inserted
  <2> QED
    BY <2>1, <2>3, <2>4
<1>7. ASSUME NEW l \in Leases PROVE request'[l].op \in {"none", "extend"}
  <2>1. request[l].op \in {"none", "extend"}
    BY DEF Rowed
  <2>2. ASSUME NEW m \in Leases, NEW e, SetEnd(m, e) PROVE request'[l].op \in {"none", "extend"}
    <3>1. PICK r : r.op = "extend" /\ request' \in {request, [request EXCEPT ![m] = r]}
      <4>1. [NoRequest EXCEPT !.op = "extend", !.end = e].op = "extend"
        BY DEF NoRequest
      <4> QED
        BY <2>2, <4>1 DEF SetEnd
    <3>2. [request EXCEPT ![m] = r][l] \in {request[l], r}
      BY DEF TypeOK, RequestTypeOK
    <3> QED
      BY <2>1, <3>1, <3>2
  <2>3. ASSUME NEW m \in Leases, Done(m) PROVE request'[l].op \in {"none", "extend"}
    BY <2>1, <2>3 DEF Done, NoRequest, TypeOK, RequestTypeOK
  <2>4. CASE Crash
    BY <2>4 DEF Crash, NoRequest
  <2>5. \A m \in Leases : ~CancelLease(m)
    BY DEF CancelLease, Undisturbed
  <2> QED
    BY <2>1, <2>2, <2>3, <2>4, <2>5
    DEF Next, vars, workerVars, handlers, Submitter, Retrier, Cleaner, Reconciler, Prober,
        Renewer, Users, RequestArrives, CreatePlanned, CreateNow, UpdateLease, ExtendLease,
        ShortenLease, LockLease, UnlockLease, Handler, RequestStep, CreateSbatch,
        CreateRecord, CreateFails, CommitEnd, CommitCancel, Registration, Clock, Cluster,
        ReconcileOnStartup, TakeOver
<1>8. Packed'
  BY NextPacked
<1> QED
  BY <1>3, <1>4, <1>5, <1>6, <1>7, <1>8 DEF Rowed, Exists

-------------------------------------------------------------------------------
(* What the coroutines know across their awaits                             *)

(* Each of them is at jobs that exist and that belong to the bookings it   *)
(* thinks they do; a probe is not from the future.                         *)
Traced ==
  /\ \A j \in Jobs : job[j].st = "UNBORN" => ep[j].state = "NONE"
  /\ \A j \in prober.checks : ep[j].state # "NONE"
  /\ prober.ok \subseteq prober.checks /\ prober.now <= now
  /\ \A a \in cleaner.acts : ep[a.job].state # "NONE" /\ job[a.job].for = a.lease
  /\ cleaner.pend \subseteq cleaner.acts
  /\ \A c \in reconciler.checks : job[c[2]].for = c[1]
  /\ reconciler.gone \subseteq Gone
  /\ retrier.step = "cancel" => retrier.job \in Jobs /\ job[retrier.job].for = retrier.cur
  /\ renewer.pend \subseteq renewer.retire

(* Whose endpoint may be stopped or failed, but by a probe. *)
Ousted(j) ==
  \/ \E a \in cleaner.acts : a.job = j
  \/ j \in Gone
  \/ \E l \in Leases : /\ lease[l].job = j
                       /\ lease[l].state = "FAILED" \/ l \in renewer.retire

(* What becomes of an endpoint in one step. *)
EndpointMove(j) ==
  \/ ep'[j].state = ep[j].state
  \/ /\ job[j].st \in {"CALLING", "LOST"} /\ ep[j].state # "READY"
     /\ ep'[j].state = "STARTING"
  \/ HealthApply /\ ep'[j] = CheckedEndpoint(j)
  \/ Ousted(j) /\ ep[j].state # "NONE" /\ ep'[j].state \in {"FAILED", "STOPPED"}

LEMMA NextEndpointMoves ==
  ASSUME TypeOK, [Next]_vars, Rowed, Traced, NEW j \in Jobs
  PROVE  EndpointMove(j)
<1>1. ep \in [Jobs -> EndpointRow]
  BY DEF TypeOK, StoreTypeOK
<1>2. ASSUME ep'[j] = ep[j] PROVE EndpointMove(j)
  BY <1>2 DEF EndpointMove
<1>3. ASSUME ep[j].state # "NONE", Ousted(j), NEW s \in {"FAILED", "STOPPED"},
             ep'[j] = [ep[j] EXCEPT !.state = s]
      PROVE  EndpointMove(j)
  <2>1. ep'[j].state = s
    BY <1>1, <1>3 DEF EndpointRow
  <2> QED
    BY <1>3, <2>1 DEF EndpointMove
<1>4. CASE Retrier
  <2>1. ASSUME NEW l \in Leases, RetryClaim(l) PROVE EndpointMove(j)
    BY <1>2, <1>3, <2>1 DEF RetryClaim, Ousted
  <2> QED
    BY <1>2, <1>4, <2>1
    DEF Retrier, RetryNext, RetryScan, RetryStep, RetrySkip, RetryCancel, RetrySbatch,
        RetryRecord, RetryFails, storeVars
<1>5. CASE Cleaner
  <2>1. ASSUME CleanupWrite PROVE EndpointMove(j)
    BY <1>2, <1>3, <2>1 DEF CleanupWrite, Ousted, Traced
  <2> QED
    BY <1>2, <1>5, <2>1 DEF Cleaner, CleanupNext, CleanupScan, CleanupStep, CleanupCancel, storeVars
<1>6. CASE Reconciler
  <2>1. ASSUME NEW checks, NEW expiry \in SUBSET Leases, NEW gone \in SUBSET Gone, NEW at,
               ReconcileWrite(checks, expiry, gone, at)
        PROVE  EndpointMove(j)
    <3>1. (\E c \in Lost(checks, gone) : c[2] = j) => Ousted(j)
      BY DEF Lost, Ousted
    <3>2. (\E l \in {l \in expiry : lease[l].state = "FAILED"} : lease[l].job = j) => Ousted(j)
      BY DEF Ousted
    <3> QED
      BY <1>2, <1>3, <2>1, <3>1, <3>2 DEF ReconcileWrite
  <2>2. FailedExpiry \in SUBSET Leases /\ {} \in SUBSET Gone
    BY DEF FailedExpiry
  <2>3. reconciler.expiry \in SUBSET Leases /\ reconciler.gone \in SUBSET Gone
    BY DEF TypeOK, ReconcilerTypeOK, Traced
  <2> QED
    BY <1>2, <1>6, <2>1, <2>2, <2>3
    DEF Reconciler, ReconcileNext, ReconcileScan, ReconcileStep, ReconcileQuery,
        ReconcileUnavailable, ReconcileApply, storeVars
<1>7. CASE Prober
  BY <1>2, <1>7 DEF Prober, HealthNext, HealthProbe, HealthApply, storeVars, EndpointMove
<1>8. CASE Renewer
  <2>1. ASSUME RenewWrite PROVE EndpointMove(j)
    <3>1. \A l \in renewer.retire : l \in Leases
      BY DEF TypeOK, RenewerTypeOK
    <3> QED
      BY <1>2, <1>3, <2>1, <3>1 DEF RenewWrite, Ousted
  <2> QED
    BY <1>2, <1>8, <2>1
    DEF Renewer, RenewNext, RenewScan, RenewStep, RenewSbatch, RenewSbatchFails, RenewCancel
<1>9. ASSUME NEW l \in Leases, Handler(l) PROVE EndpointMove(j)
  <2>1. ~CommitCancel(l)
    BY DEF CommitCancel, Rowed
  <2> QED
    BY <1>2, <1>9, <2>1
    DEF Handler, RequestStep, CreateSbatch, CreateRecord, CreateFails, CommitEnd
<1>10. ASSUME NEW i \in Jobs, Registration(i) PROVE EndpointMove(j)
  <2>1. ASSUME RegisterEndpoint(i) PROVE EndpointMove(j)
    <3>1. CASE i = j
      BY <1>1, <2>1, <3>1 DEF RegisterEndpoint, EndpointMove, EndpointRow
    <3>2. CASE i # j
      BY <1>1, <1>2, <2>1, <3>2 DEF RegisterEndpoint
    <3> QED
      BY <3>1, <3>2
  <2> QED
    BY <1>2, <1>10, <2>1 DEF Registration, RegisterLease
<1>11. CASE ReconcileOnStartup
  <2>1. PICK gone \in SUBSET Gone, goneAgain \in SUBSET Gone :
          ep'[j] = RestartedEndpoint(j, gone, goneAgain)
    BY <1>11 DEF ReconcileOnStartup, AnswersAtStartup, Answers
  <2>2. j \in gone \/ j \in goneAgain => Ousted(j)
    BY DEF Ousted
  <2> QED
    BY <1>2, <1>3, <2>1, <2>2 DEF RestartedEndpoint
<1>12. CASE Users
  BY <1>2, <1>12
  DEF Users, RequestArrives, CreatePlanned, CreateNow, UpdateLease, ExtendLease, ShortenLease,
      LockLease, UnlockLease, CancelLease
<1> QED
  BY <1>2, <1>4, <1>5, <1>6, <1>7, <1>8, <1>9, <1>10, <1>11, <1>12
  DEF Next, vars, storeVars, Submitter, SubmitNext, SubmitScan, SubmitStep, SubmitSbatch,
      SubmitRecord, SubmitFails, Clock, Tick, Cluster, ClusterNext, JobStarts,
      GivesUpRegistering, ModelLoads, JobExits, Crash, TakeOver

(* What a probe's verdict makes of the state of an endpoint.               *)
LEMMA Verdicts ==
  ASSUME TypeOK, NEW j \in Jobs
  PROVE  /\ ep[j].state \notin {"STARTING", "READY"} => CheckedEndpoint(j) = ep[j]
         /\ j \notin prober.checks => CheckedEndpoint(j) = ep[j]
         /\ CheckedEndpoint(j).state = "READY" =>
              ep[j].state = "READY" \/ j \in prober.ok
         /\ CheckedEndpoint(j).state \in {ep[j].state, "READY", "FAILED"}
         /\ CheckedEndpoint(j).state = "FAILED" /\ ep[j].state # "FAILED" =>
              /\ j \in prober.checks \ prober.ok
              /\ ep[j].state = "READY" \/ prober.now - ep[j].born > HealthTimeout
<1>1. ep[j] \in EndpointRow
  BY DEF TypeOK, StoreTypeOK
<1>2. \A s, n : /\ [ep[j] EXCEPT !.state = s, !.fails = n].state = s
                /\ [ep[j] EXCEPT !.fails = n, !.state = s].state = s
                /\ [ep[j] EXCEPT !.state = s].state = s
  BY <1>1 DEF EndpointRow
<1>3. j \in Probed <=> ep[j].state \in {"STARTING", "READY"}
  BY DEF Probed
<1> DEFINE e == CheckedEndpoint(j)
<1>4. CASE j \notin Probed \cap prober.checks
  BY <1>3, <1>4 DEF CheckedEndpoint
<1>5. CASE j \in Probed \cap prober.checks /\ j \in prober.ok
  <2>1. e.state = "READY"
    BY <1>2, <1>5 DEF CheckedEndpoint
  <2> QED
    BY <1>3, <1>5, <2>1
<1>6. CASE j \in Probed \cap prober.checks /\ j \notin prober.ok /\ ep[j].state = "READY"
  <2>1. e.state \in {"READY", "FAILED"}
    BY <1>2, <1>6 DEF CheckedEndpoint
  <2> QED
    BY <1>3, <1>6, <2>1
<1>7. CASE j \in Probed \cap prober.checks /\ j \notin prober.ok /\ ep[j].state = "STARTING"
  <2>1. e.state = IF prober.now - ep[j].born > HealthTimeout THEN "FAILED" ELSE "STARTING"
    BY <1>2, <1>7 DEF CheckedEndpoint
  <2> QED
    BY <1>3, <1>7, <2>1
<1> QED
  BY <1>3, <1>4, <1>5, <1>6, <1>7

(* What the prober, the cleaner, the reconciliation and the retry worker   *)
(* are at after a step.                                                    *)
LEMMA NextProber ==
  ASSUME [Next]_vars
  PROVE  UNCHANGED prober \/ prober' = ProberIdle \/ HealthProbe
  BY DEF Next, vars, workerVars, Submitter, Retrier, Cleaner, Reconciler, Prober, HealthNext,
         HealthApply, Renewer, Users, Handler, Registration, Clock, Cluster, Crash,
         ReconcileOnStartup, TakeOver

LEMMA NextCleaner ==
  ASSUME TypeOK, [Next]_vars
  PROVE  \/ cleaner'.acts = {} /\ cleaner'.pend = {}
         \/ cleaner'.acts = cleaner.acts /\ cleaner'.pend \subseteq cleaner.pend
         \/ CleanupScan
<1>1. CASE UNCHANGED cleaner
  BY <1>1
<1>2. CASE cleaner' = CleanerIdle
  BY <1>2 DEF CleanerIdle
<1>3. ASSUME NEW a, CleanupCancel(a)
      PROVE  cleaner'.acts = cleaner.acts /\ cleaner'.pend \subseteq cleaner.pend
  BY <1>3 DEF CleanupCancel, TypeOK, CleanerTypeOK
<1> QED
  BY <1>1, <1>2, <1>3
  DEF Next, vars, workerVars, Submitter, Retrier, Cleaner, CleanupNext, CleanupStep,
      CleanupWrite, Reconciler, Prober, Renewer, Users, Handler, Registration, Clock, Cluster,
      Crash, ReconcileOnStartup, TakeOver

LEMMA NextReconciler ==
  ASSUME TypeOK, [Next]_vars
  PROVE  /\ \A c \in reconciler'.checks :
              c \in reconciler.checks \/ (c \in Leases \X Jobs /\ lease[c[1]].job = c[2])
         /\ reconciler'.gone \subseteq reconciler.gone \cup Gone
<1>1. CASE UNCHANGED reconciler
  BY <1>1
<1>2. CASE reconciler' = ReconcilerIdle
  BY <1>2 DEF ReconcilerIdle
<1>3. CASE ReconcileScan
  BY <1>1, <1>3 DEF ReconcileScan
<1>4. CASE ReconcileQuery
  BY <1>4 DEF ReconcileQuery, Answers, TypeOK, ReconcilerTypeOK
<1> QED
  BY <1>1, <1>2, <1>3, <1>4
  DEF Next, vars, workerVars, Submitter, Retrier, Cleaner, Reconciler, ReconcileNext,
      ReconcileStep, ReconcileUnavailable, ReconcileApply, Prober, Renewer, Users, Handler,
      Registration, Clock, Cluster, Crash, ReconcileOnStartup, TakeOver

LEMMA NextRetrierCancels ==
  ASSUME TypeOK, [Next]_vars, retrier'.step = "cancel"
  PROVE  \/ UNCHANGED retrier
         \/ \E l \in Leases : /\ RetryClaim(l) /\ lease[l].job # NoJob
                              /\ retrier'.cur = l /\ retrier'.job = lease[l].job
<1>1. retrier' # RetrierIdle /\ \A m : retrier' # RetrierAfter(m)
  <2>1. ASSUME NEW m, retrier' = RetrierAfter(m) PROVE FALSE
    BY <2>1 DEF RetrierIdle, RetrierAfter
  <2> QED
    BY <2>1 DEF RetrierIdle
<1>2. ~RetryRecord /\ ~RetryFails /\ ~Crash /\ \A l \in Leases : ~RetrySkip(l)
  BY <1>1 DEF RetryRecord, RetryFails, RetrySkip, Crash
<1>3. ~RetryScan
  BY DEF RetryScan, RetrierIdle
<1>4. ~RetryCancel /\ ~RetrySbatch
  BY DEF RetryCancel, RetrySbatch, TypeOK, RetrierTypeOK
<1>5. ASSUME NEW l \in Leases, RetryClaim(l)
      PROVE  lease[l].job # NoJob /\ retrier'.cur = l /\ retrier'.job = lease[l].job
  BY <1>5 DEF RetryClaim, TypeOK, RetrierTypeOK
<1>6. CASE Retrier
  <2>1. PICK l \in Leases : RetryClaim(l)
    BY <1>2, <1>3, <1>4, <1>6 DEF Retrier, RetryNext, RetryStep
  <2> QED
    BY <1>5, <2>1
<1> QED
  BY <1>2, <1>6
  DEF Next, vars, workerVars, Submitter, Cleaner, Reconciler, Prober, Renewer, Users, Handler,
      Registration, Clock, Cluster, ReconcileOnStartup, TakeOver

LEMMA NextRenewer ==
  ASSUME TypeOK, [Next]_vars, Traced
  PROVE  /\ renewer'.pend \subseteq renewer'.retire
         /\ \/ RenewScan
            \/ /\ renewer'.retire \subseteq renewer.retire /\ renewer'.todo \subseteq renewer.todo
               /\ \A s \in renewer'.subs : s \in renewer.subs \/ s[1] \in renewer.todo
<1>1. CASE UNCHANGED renewer
  BY <1>1 DEF Traced
<1>2. CASE renewer' = RenewerIdle
  BY <1>2 DEF RenewerIdle
<1>3. CASE RenewScan
  <2>1. renewer'.pend = renewer'.retire
    BY <1>3 DEF RenewScan
  <2> QED
    BY <1>3, <2>1
<1>4. ASSUME NEW l \in Leases, RenewSbatch(l)
      PROVE  /\ renewer'.retire = renewer.retire /\ renewer'.pend = renewer.pend
             /\ renewer'.todo \subseteq renewer.todo
             /\ \A s \in renewer'.subs : s \in renewer.subs \/ s[1] \in renewer.todo
  BY <1>4 DEF RenewSbatch, TypeOK, RenewerTypeOK
<1>5. ASSUME NEW l \in Leases, RenewSbatchFails(l) \/ RenewCancel(l)
      PROVE  /\ renewer'.retire = renewer.retire /\ renewer'.pend \subseteq renewer.pend
             /\ renewer'.todo \subseteq renewer.todo /\ renewer'.subs = renewer.subs
  BY <1>5 DEF RenewSbatchFails, RenewCancel, TypeOK, RenewerTypeOK
<1> QED
  BY <1>1, <1>2, <1>3, <1>4, <1>5
  DEF Next, vars, workerVars, Submitter, Retrier, Cleaner, Reconciler, Prober, Renewer, RenewNext,
      RenewStep, RenewWrite, Users, Handler, Registration, Clock, Cluster, Crash,
      ReconcileOnStartup, TakeOver, Traced

LEMMA ClockAdvances ==
  ASSUME TypeOK, [Next]_vars
  PROVE  now' \in Int /\ now \in Int /\ now <= now'
<1>1. now \in Int /\ now' \in Int
  BY NextTypes, Bounds DEF TypeOK, StoreTypeOK, Time
<1>2. now' = now \/ now' = now + 1
  BY DEF Next, vars, storeVars, Submitter, SubmitNext, SubmitScan, SubmitStep, SubmitSbatch,
         SubmitRecord, SubmitFails, Retrier, RetryNext, RetryScan, RetryStep, RetryClaim,
         RetrySkip, RetryCancel, RetrySbatch, RetryRecord, RetryFails, Cleaner, CleanupNext,
         CleanupScan, CleanupStep, CleanupCancel, CleanupWrite, Reconciler, ReconcileNext,
         ReconcileScan, ReconcileStep, ReconcileQuery, ReconcileUnavailable, ReconcileApply,
         Prober, HealthNext, HealthProbe, HealthApply, Renewer, RenewNext, RenewScan,
         RenewStep, RenewSbatch, RenewSbatchFails, RenewCancel, RenewWrite, Users,
         RequestArrives, CreatePlanned, CreateNow, UpdateLease, ExtendLease, ShortenLease,
         LockLease, UnlockLease, CancelLease, Handler, RequestStep, CreateSbatch,
         CreateRecord, CreateFails, CommitEnd, CommitCancel, Registration, RegisterEndpoint,
         RegisterLease, Clock, Tick, Cluster, ClusterNext, JobStarts, GivesUpRegistering,
         ModelLoads, JobExits, Crash, ReconcileOnStartup, TakeOver
<1> QED
  BY <1>1, <1>2

LEMMA NextTraced ==
  ASSUME TypeOK, [Next]_vars, Undisturbed, RetrierAtLease, Owned, Rowed, Traced
  PROVE  Traced'
<1>1. TypeOK' /\ JobSteps
  BY NextTypes, NextJobs
<1>2. \A j \in Jobs : job[j].for # NoLease => job'[j].for = job[j].for
  BY <1>1 DEF JobSteps, Owned
<1>3. \A j \in Jobs : ep[j].state # "NONE" => ep'[j].state # "NONE"
  <2>1. ASSUME NEW j \in Jobs, ep[j].state # "NONE" PROVE CheckedEndpoint(j).state # "NONE"
    BY <2>1, Verdicts
  <2> QED
    BY <2>1, NextEndpointMoves DEF EndpointMove
<1>4. Gone \subseteq Gone'
  <2>1. ASSUME NEW j \in Jobs, job[j].st \in Left PROVE job'[j].st \in Left
    <3>1. job[j].st \notin {"UNBORN", "PENDING", "CALLING", "LOADING"}
      BY <2>1 DEF Left
    <3>2. JobMove(j)
      BY NextJobMoves
    <3> QED
      BY <2>1, <3>1, <3>2 DEF JobMove, Left
  <2> QED
    BY <2>1 DEF Gone
<1>5. ASSUME NEW j \in Jobs, job'[j].st = "UNBORN" PROVE ep'[j].state = "NONE"
  <2>1. job[j].st = "UNBORN" /\ ep[j].state = "NONE"
    BY <1>1, <1>5 DEF JobSteps, Traced
  <2>2. HealthApply => CheckedEndpoint(j) = ep[j]
    BY <2>1, Verdicts
  <2> QED
    BY <2>1, <2>2, NextEndpointMoves DEF EndpointMove
<1>6. /\ \A j \in prober'.checks : ep'[j].state # "NONE"
      /\ prober'.ok \subseteq prober'.checks /\ prober'.now <= now'
  <2>1. now' \in Int /\ now \in Int /\ now <= now'
    BY ClockAdvances
  <2>2. CASE UNCHANGED prober
    <3>1. prober.checks \subseteq Jobs /\ prober.now \in Int
      BY Bounds DEF TypeOK, ProberTypeOK, Time
    <3> QED
      BY <1>3, <2>1, <2>2, <3>1 DEF Traced
  <2>3. CASE prober' = ProberIdle
    <3>1. now' >= 0
      BY <1>1 DEF TypeOK, StoreTypeOK, Time
    <3> QED
      BY <2>1, <2>3, <3>1 DEF ProberIdle
  <2>4. CASE HealthProbe
    BY <2>1, <2>4 DEF HealthProbe, Probed, storeVars
  <2> QED
    BY <2>2, <2>3, <2>4, NextProber
<1>7. /\ \A a \in cleaner'.acts : ep'[a.job].state # "NONE" /\ job'[a.job].for = a.lease
      /\ cleaner'.pend \subseteq cleaner'.acts
  <2>1. ASSUME NEW a \in CleanupAction, ep[a.job].state # "NONE", job[a.job].for = a.lease
        PROVE  ep'[a.job].state # "NONE" /\ job'[a.job].for = a.lease
    <3>1. a.job \in Jobs /\ a.lease \in Leases /\ a.lease # NoLease
      BY DEF CleanupAction, Leases, NoLease
    <3> QED
      BY <1>2, <1>3, <2>1, <3>1
  <2>2. cleaner.acts \subseteq CleanupAction
    BY DEF TypeOK, CleanerTypeOK
  <2>3. CASE CleanupScan
    <3>1. ASSUME NEW a \in CleanupActions
          PROVE  a \in CleanupAction /\ ep[a.job].state # "NONE" /\ job[a.job].for = a.lease
      <4>1. a \in CleanupAction /\ ep[a.job].state # "NONE" /\ lease[a.lease].job = a.job
        BY <3>1 DEF CleanupActions
      <4>2. a.lease \in Leases /\ a.job # NoJob
        BY <4>1, JobNumbers DEF CleanupAction
      <4> QED
        BY <4>1, <4>2 DEF Owned
    <3>2. cleaner'.acts = CleanupActions /\ cleaner'.pend = CleanupActions
      BY <2>3 DEF CleanupScan
    <3> QED
      BY <2>1, <3>1, <3>2
  <2> QED
    BY <2>1, <2>2, <2>3, NextCleaner DEF Traced
<1>8. \A c \in reconciler'.checks : job'[c[2]].for = c[1]
  <2>1. ASSUME NEW c \in reconciler'.checks PROVE job'[c[2]].for = c[1]
    <3>1. c[1] \in Leases /\ c[2] \in Jobs /\ c[1] # NoLease
      BY <1>1 DEF TypeOK, ReconcilerTypeOK, Leases, NoLease
    <3>2. job[c[2]].for = c[1]
      BY <3>1, JobNumbers, NextReconciler DEF Owned, Traced
    <3> QED
      BY <1>2, <3>1, <3>2
  <2> QED
    BY <2>1
<1>9. reconciler'.gone \subseteq Gone'
  BY <1>4, NextReconciler DEF Traced
<1>10. ASSUME retrier'.step = "cancel"
       PROVE  retrier'.job \in Jobs /\ job'[retrier'.job].for = retrier'.cur
  <2>1. CASE UNCHANGED retrier
    <3>1. retrier.cur \in Leases /\ retrier.cur # NoLease
      BY <1>10, <2>1 DEF RetrierAtLease, Leases, NoLease
    <3> QED
      BY <1>2, <1>10, <2>1, <3>1 DEF Traced
  <2>2. ASSUME NEW l \in Leases, lease[l].job # NoJob, retrier'.cur = l,
               retrier'.job = lease[l].job
        PROVE  retrier'.job \in Jobs /\ job'[retrier'.job].for = retrier'.cur
    <3>1. lease[l].job \in Jobs /\ l # NoLease
      BY <2>2 DEF TypeOK, StoreTypeOK, LeaseRow, Leases, NoLease
    <3>2. job[lease[l].job].for = l
      BY <2>2 DEF Owned
    <3> QED
      BY <1>2, <2>2, <3>1, <3>2
  <2> QED
    BY <1>10, <2>1, <2>2, NextRetrierCancels
<1>11. renewer'.pend \subseteq renewer'.retire
  BY NextRenewer
<1> QED
  BY <1>5, <1>6, <1>7, <1>8, <1>9, <1>10, <1>11 DEF Traced

-------------------------------------------------------------------------------
(* What nothing but its own retirement can stop                             *)

(* No model that is still at it takes longer to start than the prober      *)
(* waits for it.                                                           *)
StartsInTime ==
  \A j \in Jobs : job[j].st \notin Left /\ ep[j].state = "STARTING" =>
                  now - ep[j].born <= HealthTimeout

(* The bound on jobs is reached: what is submitted now is refused. *)
Exhausted == \A j \in Jobs : job[j].st # "UNBORN"

(* Nobody has ended the job, or is on the way to: an endpoint that is, or  *)
(* is about to be, READY has a model that serves, the probe that is on its *)
(* way will not say otherwise, and the cleaner does not have it.           *)
JobUnharmed(j) ==
  /\ job[j].st \notin Left
  /\ ep[j].state \in {"NONE", "STARTING", "READY"}
  /\ ep[j].state = "READY" \/ j \in prober.ok => job[j].st = "SERVING"
  /\ ep[j].state = "READY" /\ j \in prober.checks => j \in prober.ok
  /\ \A a \in cleaner.acts : a.job # j

(* A booking fails only for want of a job, and has none then.              *)
RowUnharmed(r) ==
  /\ lease[r].job # NoJob => lease[r].state \in Active
  /\ lease[r].state \in {"FAILED", "RETRYING"} \/ Retrying(r) => Exhausted
  /\ Retrying(r) => retrier.step = "submit"

Unharmed(r) == RowUnharmed(r) /\ \A j \in Jobs : job[j].for = r => JobUnharmed(j)

(* A job that nobody is about to end goes on.                              *)
LEMMA NextUnharmedJob ==
  ASSUME TypeOK, [Next]_vars, Undisturbed, RetrierAtLease, Owned, Rowed, Traced, StartsInTime,
         NEW r \in Leases, lease[r].supersedes # NoLease, Unharmed(r), r \notin renewer.retire,
         NEW j \in Jobs, job'[j].for = r
  PROVE  JobUnharmed(j)'
<1>1. r # NoLease /\ j # NoJob /\ Exists(r) /\ lease[r].mode = "service" /\ ~Creating(r)
  BY JobNumbers DEF Leases, NoLease, Rowed
<1>2. JobMove(j) /\ EndpointMove(j)
  BY NextJobMoves, NextEndpointMoves
<1>3. ASSUME job[j].st = "UNBORN" PROVE JobUnharmed(j)'
  <2>1. ep[j].state = "NONE" /\ job[j].for = NoLease
    BY <1>3 DEF Traced, Owned
  <2>2. job'[j].st = "PENDING"
    BY <1>1, <1>2, <1>3, <2>1 DEF JobMove
  <2>3. ep'[j].state = "NONE"
    BY <1>2, <1>3, <2>1, Verdicts DEF EndpointMove
  <2>4. j \notin prober'.checks
    BY <2>1, NextProber DEF Traced, ProberIdle, HealthProbe, Probed
  <2>5. prober'.ok \subseteq prober'.checks
    BY NextTraced DEF Traced
  <2>6. \A a \in cleaner'.acts : a.job # j
    <3>1. \A a \in CleanupActions : a.job # j
      BY <2>1 DEF CleanupActions
    <3>2. CleanupScan => cleaner'.acts = CleanupActions
      BY DEF CleanupScan
    <3> QED
      BY <2>1, <3>1, <3>2, NextCleaner DEF Traced
  <2> QED
    BY <2>2, <2>3, <2>4, <2>5, <2>6 DEF JobUnharmed, Left
<1>4. ASSUME job[j].st # "UNBORN" PROVE JobUnharmed(j)'
  <2>1. job[j].for = r
    BY <1>2, <1>4 DEF JobMove
  <2>2. JobUnharmed(j)
    BY <2>1 DEF Unharmed
  <2>3. \A l \in Leases : lease[l].job = j => l = r
    BY <1>1, <2>1 DEF Owned
  <2>4. ~Condemned(j)
    <3>1. \A a \in cleaner.pend : a.job # j
      BY <2>2 DEF JobUnharmed, Traced
    <3>2. ~(retrier.step = "cancel" /\ retrier.job = j)
      BY <2>1 DEF Traced, Unharmed, RowUnharmed, Retrying
    <3>3. \A l \in renewer.pend : lease[l].job # j
      BY <2>3 DEF Traced, TypeOK, RenewerTypeOK
    <3> QED
      BY <3>1, <3>2, <3>3 DEF Condemned
  <2>5. ~Ousted(j)
    <3>1. \A l \in Leases : lease[l].job = j => lease[l].state # "FAILED" /\ l \notin renewer.retire
      BY <1>1, <2>3 DEF Unharmed, RowUnharmed, Active
    <3>2. j \notin Gone
      BY <2>2 DEF JobUnharmed, Gone
    <3>3. \A a \in cleaner.acts : a.job # j
      BY <2>2 DEF JobUnharmed
    <3> QED
      BY <3>1, <3>2, <3>3 DEF Ousted
  <2>6. /\ job'[j].st \notin Left
        /\ job[j].st = "SERVING" => job'[j].st = "SERVING"
    BY <1>2, <1>4, <2>2, <2>4 DEF JobMove, JobUnharmed, Left
  <2>7. /\ ep'[j].state \in {"NONE", "STARTING", "READY"}
        /\ ep'[j].state = "READY" => ep[j].state = "READY" \/ (HealthApply /\ j \in prober.ok)
    <3>1. CASE HealthApply /\ ep'[j] = CheckedEndpoint(j)
      <4>1. ASSUME ep'[j].state = "FAILED" PROVE FALSE
        <5>1. ep[j].state # "FAILED" /\ (ep[j].state = "READY" => j \notin prober.checks \ prober.ok)
          BY <2>2 DEF JobUnharmed
        <5>2. prober.now - ep[j].born > HealthTimeout /\ ep[j].state \in {"NONE", "STARTING"}
          BY <2>2, <3>1, <4>1, <5>1, Verdicts DEF JobUnharmed
        <5>3. ep[j].state = "STARTING"
          BY <3>1, <4>1, <5>2, Verdicts
        <5>4. now - ep[j].born <= HealthTimeout
          BY <2>2, <5>3 DEF StartsInTime, JobUnharmed
        <5>5. prober.now \in Int /\ now \in Int /\ ep[j].born \in Int /\ HealthTimeout \in Int
          BY Bounds, HealthConstants
          DEF TypeOK, StoreTypeOK, ProberTypeOK, EndpointRow, Time
        <5>6. prober.now <= now
          BY DEF Traced
        <5> QED
          BY <5>2, <5>4, <5>5, <5>6
      <4>2. ep'[j].state \in {ep[j].state, "READY", "FAILED"}
        BY <3>1, Verdicts
      <4>3. ep'[j].state = "READY" => ep[j].state = "READY" \/ j \in prober.ok
        BY <3>1, Verdicts
      <4> QED
        BY <2>2, <3>1, <4>1, <4>2, <4>3 DEF JobUnharmed
    <3>2. CASE ~(HealthApply /\ ep'[j] = CheckedEndpoint(j))
      BY <1>2, <2>2, <2>5, <3>2 DEF EndpointMove, JobUnharmed
    <3> QED
      BY <3>1, <3>2
  <2>8. ASSUME ep'[j].state = "READY" \/ j \in prober'.ok PROVE job'[j].st = "SERVING"
    <3>1. CASE ep'[j].state = "READY" \/ j \in prober.ok
      BY <2>2, <2>6, <2>7, <3>1 DEF JobUnharmed
    <3>2. CASE j \in prober'.ok /\ j \notin prober.ok
      <4>1. HealthProbe
        BY <3>2, NextProber DEF ProberIdle
      <4>2. job[j].st = "SERVING"
        BY <3>2, <4>1 DEF HealthProbe, Undisturbed
      <4> QED
        BY <2>6, <4>2
    <3> QED
      BY <2>8, <3>1, <3>2
  <2>9. ASSUME ep'[j].state = "READY", j \in prober'.checks PROVE j \in prober'.ok
    <3>1. CASE HealthProbe
      <4>1. ep[j].state = "READY"
        BY <2>9, <3>1 DEF HealthProbe, storeVars
      <4>2. job[j].st = "SERVING" /\ j \in Probed
        BY <2>2, <4>1 DEF JobUnharmed, Probed
      <4> QED
        BY <3>1, <4>2 DEF HealthProbe, Undisturbed
    <3>2. CASE UNCHANGED prober
      <4>1. ~HealthApply
        BY <3>2 DEF HealthApply, ProberIdle
      <4> QED
        BY <2>2, <2>7, <2>9, <3>2, <4>1 DEF JobUnharmed
    <3> QED
      BY <2>9, <3>1, <3>2, NextProber DEF ProberIdle
  <2>10. \A a \in cleaner'.acts : a.job # j
    <3>1. ASSUME NEW a \in CleanupActions, a.job = j PROVE FALSE
      <4>1. a.lease \in Leases /\ lease[a.lease].job = j /\ ~Protected(a.lease)
        BY <3>1 DEF CleanupActions, CleanupAction
      <4>2. lease[r].job = j /\ ~Protected(r)
        BY <2>3, <4>1
      <4> QED
        BY <1>1, <4>2 DEF Protected, Unharmed, RowUnharmed, Active, Finished
    <3>2. CleanupScan => cleaner'.acts = CleanupActions
      BY DEF CleanupScan
    <3> QED
      BY <2>2, <3>1, <3>2, NextCleaner DEF JobUnharmed
  <2> QED
    BY <2>6, <2>7, <2>8, <2>9, <2>10 DEF JobUnharmed
<1> QED
  BY <1>3, <1>4

(* What a step may make of the row of such a booking. *)
Endures(r, s) ==
  \/ s.job = lease[r].job /\ (s.state = lease[r].state \/ s.state \in Active)
  \/ /\ lease[r].job = NoJob /\ s.job = NoJob
     /\ s.state \in {"FAILED", "RETRYING"} => Exhausted
  \/ /\ s.state = "SUBMITTED"
     /\ lease[r].job = NoJob \/ \E j \in Jobs : <<r, j>> \in renewer.subs

LEMMA NextEndures ==
  ASSUME TypeOK, [Next]_vars, Undisturbed, RetrierAtLease, Owned, Rowed, Traced, StartsInTime,
         NEW r \in Leases, lease[r].supersedes # NoLease, Unharmed(r), r \notin renewer.retire
  PROVE  Endures(r, lease'[r])
<1>1. lease \in [Leases -> LeaseRow] /\ lease[r] \in LeaseRow
  BY DEF TypeOK, StoreTypeOK
<1>2. Exists(r) /\ ~Creating(r) /\ r # NoLease
  BY DEF Rowed, Leases, NoLease
<1>3. RowUnharmed(r) /\ \A j \in Jobs : job[j].for = r => JobUnharmed(j)
  BY DEF Unharmed
<1>4. lease[r].state \notin Active => lease[r].job = NoJob
  BY <1>3 DEF RowUnharmed
<1>5. \A l \in Leases : SbatchRaises(l) => Exhausted
  BY DEF Undisturbed, SbatchRaises, Exhausted
<1>6. lease[r].job # NoJob =>
        lease[r].job \in Jobs /\ job[lease[r].job].for = r /\ JobUnharmed(lease[r].job)
  BY <1>1, <1>3 DEF Owned, LeaseRow
<1> DEFINE Goal == Endures(r, lease'[r])
<1>7. ASSUME lease'[r] = lease[r] PROVE Goal
  BY <1>7 DEF Endures
<1>8. ASSUME lease[r].job = NoJob, lease'[r].job = NoJob, lease'[r].state \notin {"FAILED", "RETRYING"}
      PROVE  Goal
  BY <1>8 DEF Endures
<1>9. ASSUME lease[r].job = NoJob, lease'[r].job = NoJob, Exhausted PROVE Goal
  BY <1>9 DEF Endures
<1>10. ASSUME lease'[r].job = lease[r].job, lease'[r].state = lease[r].state PROVE Goal
  BY <1>10 DEF Endures
<1>11. CASE Submitter
  <2>1. CASE SubmitScan
    <3>1. CASE lease[r].state = "PLANNED" /\ lease'[r] = [lease[r] EXCEPT !.state = "ENDED"]
      BY <1>1, <1>4, <1>8, <3>1, RowFields DEF Active
    <3> QED
      BY <1>7, <2>1, <3>1 DEF SubmitScan, Planned
  <2>2. ASSUME NEW m \in Leases, SubmitRecord(m) PROVE Goal
    <3>1. CASE m = r /\ lease[r].state = "PLANNED"
      <4>1. lease'[r].state = "SUBMITTED"
        BY <1>1, <2>2, <3>1 DEF SubmitRecord, LeaseRow
      <4> QED
        BY <1>4, <3>1, <4>1 DEF Endures, Active
    <3> QED
      BY <1>1, <1>7, <2>2, <3>1 DEF SubmitRecord
  <2>3. ASSUME NEW m \in Leases, SubmitFails(m) PROVE Goal
    <3>1. CASE lease[r].state = "PLANNED" /\ lease'[r] = Fail(lease[r], submitter.now)
      BY <1>1, <1>4, <1>5, <1>9, <2>3, <3>1, RowFields DEF Active, SubmitFails
    <3> QED
      BY <1>1, <1>7, <2>3, <3>1 DEF SubmitFails
  <2> QED
    BY <1>7, <1>11, <2>1, <2>2, <2>3 DEF Submitter, SubmitNext, SubmitStep, SubmitSbatch
<1>12. CASE Retrier
  <2>1. CASE RetryScan
    <3>1. PICK b, e : lease'[r] \in {lease[r], [lease[r] EXCEPT !.begin = b, !.end = e]}
      BY <2>1 DEF RetryScan
    <3>2. /\ [lease[r] EXCEPT !.begin = b, !.end = e].job = lease[r].job
          /\ [lease[r] EXCEPT !.begin = b, !.end = e].state = lease[r].state
      BY <1>1, RowFields
    <3> QED
      BY <1>7, <1>10, <3>1, <3>2
  <2>2. ASSUME NEW m \in Leases, RetryClaim(m) PROVE Goal
    <3>1. CASE m = r
      <4>1. lease[r].state = "FAILED" /\ lease'[r].job = lease[r].job
        BY <1>1, <2>2, <3>1 DEF RetryClaim, LeaseRow
      <4> QED
        BY <1>3, <1>4, <1>9, <4>1 DEF Active, RowUnharmed
    <3> QED
      BY <1>1, <1>7, <2>2, <3>1 DEF RetryClaim
  <2>3. CASE RetryRecord
    <3>1. retrier.cur # r /\ retrier.cur \in Leases
      BY <1>3, <2>3 DEF RetryRecord, RowUnharmed, Retrying, RetrierAtLease
    <3> QED
      BY <1>1, <1>7, <2>3, <3>1 DEF RetryRecord
  <2>4. CASE RetryFails
    <3>1. retrier.cur \in Leases
      BY <2>4 DEF RetryFails, RetrierAtLease
    <3>2. CASE /\ retrier.cur = r /\ lease[r].state = "RETRYING"
               /\ lease'[r] = Fail(lease[r], retrier.now)
      BY <1>1, <1>4, <1>5, <1>9, <2>4, <3>1, <3>2, RowFields DEF Active, RetryFails
    <3> QED
      BY <1>1, <1>7, <2>4, <3>1, <3>2 DEF RetryFails
  <2> QED
    BY <1>7, <1>12, <2>1, <2>2, <2>3, <2>4
    DEF Retrier, RetryNext, RetryStep, RetrySkip, RetryCancel, RetrySbatch, storeVars
<1>13. CASE Cleaner
  <2>1. ASSUME CleanupWrite PROVE Goal
    <3>1. ASSUME NEW a \in cleaner.acts PROVE a.lease # r
      <4>1. a.job \in Jobs
        BY <3>1 DEF TypeOK, CleanerTypeOK, CleanupAction
      <4> QED
        BY <1>3, <3>1, <4>1 DEF Traced, JobUnharmed
    <3> QED
      BY <1>7, <2>1, <3>1 DEF CleanupWrite
  <2> QED
    BY <1>7, <1>13, <2>1 DEF Cleaner, CleanupNext, CleanupScan, CleanupStep, CleanupCancel, storeVars
<1>14. CASE Reconciler
  <2>1. ASSUME NEW checks \in {{}, reconciler.checks}, NEW expiry, NEW gone \in SUBSET Gone, NEW at,
               ReconcileWrite(checks, expiry, gone, at)
        PROVE  Goal
    <3>1. ASSUME NEW c \in Lost(checks, gone) PROVE c[1] # r
      <4>1. c \in reconciler.checks /\ c[2] \in Gone
        BY <3>1 DEF Lost
      <4>2. c[2] \in Jobs /\ job[c[2]].for = c[1] /\ job[c[2]].st \in Left
        BY <4>1 DEF Traced, Gone
      <4> QED
        BY <1>3, <4>2 DEF JobUnharmed
    <3>2. CASE lease[r].state = "FAILED" /\ lease'[r] = [lease[r] EXCEPT !.state = "ENDED"]
      BY <1>1, <1>4, <1>8, <3>2, RowFields DEF Active
    <3> QED
      BY <1>7, <2>1, <3>1, <3>2 DEF ReconcileWrite
  <2>2. reconciler.gone \in SUBSET Gone /\ {} \in SUBSET Gone
    BY DEF Traced
  <2> QED
    BY <1>7, <1>14, <2>1, <2>2
    DEF Reconciler, ReconcileNext, ReconcileScan, ReconcileStep, ReconcileQuery,
        ReconcileUnavailable, ReconcileApply, storeVars
<1>15. CASE Prober
  <2>1. CASE HealthApply
    <3>1. lease'[r] = CheckedLease(r) /\ job' = job /\ \A j \in Jobs : ep'[j] = CheckedEndpoint(j)
      BY <2>1 DEF HealthApply
    <3>2. CASE lease[r].job # NoJob
      <4>1. \A j \in Jobs : job[j].for = r => JobUnharmed(j)'
        BY <3>1, NextUnharmedJob
      <4>2. CheckedEndpoint(lease[r].job).state # "FAILED"
        BY <1>6, <3>1, <3>2, <4>1 DEF JobUnharmed
      <4>3. CheckedLease(r) \in {lease[r], [lease[r] EXCEPT !.state = "RUNNING", !.retries = 0]}
        BY <4>2 DEF CheckedLease, Became
      <4>4. CASE CheckedLease(r) = [lease[r] EXCEPT !.state = "RUNNING", !.retries = 0]
        BY <1>1, <3>1, <4>4, RowFields DEF Endures, Active
      <4> QED
        BY <1>7, <3>1, <4>3, <4>4
    <3>3. CASE lease[r].job = NoJob
      BY <1>7, <3>1, <3>3 DEF CheckedLease
    <3> QED
      BY <3>2, <3>3
  <2> QED
    BY <1>7, <1>15, <2>1 DEF Prober, HealthNext, HealthProbe, storeVars
<1>16. CASE Renewer
  <2>1. CASE RenewScan
    <3>1. lease'[r] \in {lease[r], [lease[r] EXCEPT !.drainingSince = now]}
      BY <1>2, <2>1, ScannedOld
    <3>2. /\ [lease[r] EXCEPT !.drainingSince = now].job = lease[r].job
          /\ [lease[r] EXCEPT !.drainingSince = now].state = lease[r].state
      BY <1>1, RowFields
    <3> QED
      BY <1>7, <1>10, <3>1, <3>2
  <2>2. CASE RenewWrite
    <3>1. CASE \E s \in renewer.subs : s[1] = r
      <4>1. PICK s \in renewer.subs : s[1] = r
        BY <3>1
      <4>2. s = <<r, s[2]>> /\ s[2] \in Jobs
        BY <4>1 DEF TypeOK, RenewerTypeOK
      <4>3. lease'[r].state = "SUBMITTED"
        <5>1. PICK k : lease'[r] = [lease[r] EXCEPT !.state = "SUBMITTED", !.job = k]
          BY <2>2, <3>1 DEF RenewWrite
        <5> QED
          BY <1>1, <5>1 DEF LeaseRow
      <4> QED
        BY <4>1, <4>2, <4>3 DEF Endures
    <3> QED
      BY <1>7, <2>2, <3>1 DEF RenewWrite
  <2> QED
    BY <1>7, <1>16, <2>1, <2>2
    DEF Renewer, RenewNext, RenewStep, RenewSbatch, RenewSbatchFails, RenewCancel
<1>17. CASE Users
  <2>1. ASSUME NEW m \in Leases, CreatePlanned(m) \/ CreateNow(m) PROVE Goal
    <3>1. m # r
      BY <1>2, <2>1 DEF CreatePlanned, CreateNow, IsNextLease, Exists
    <3> QED
      BY <1>1, <1>7, <2>1, <3>1 DEF CreatePlanned, CreateNow
  <2>2. ASSUME NEW m \in Leases, UpdateLease(m) PROVE Goal
    BY <1>1, <1>7, <1>10, <2>2 DEF UpdateLease, LeaseRow
  <2>3. ASSUME NEW m \in Leases, ExtendLease(m) \/ ShortenLease(m) PROVE Goal
    <3>1. ASSUME NEW e, SetEnd(m, e) PROVE Goal
      BY <1>1, <1>7, <1>10, <3>1 DEF SetEnd, LeaseRow
    <3> QED
      BY <2>3, <3>1 DEF ExtendLease, ShortenLease
  <2>4. ASSUME NEW m \in Leases, LockLease(m) PROVE Goal
    BY <1>1, <1>7, <1>10, <2>4 DEF LockLease, LeaseRow
  <2>5. \A m \in Leases : ~UnlockLease(m) /\ ~CancelLease(m)
    BY DEF UnlockLease, CancelLease, Undisturbed
  <2> QED
    BY <1>17, <2>1, <2>2, <2>3, <2>4, <2>5 DEF Users, RequestArrives
<1>18. ASSUME NEW m \in Leases, Handler(m) PROVE Goal
  <2>1. CASE CreateRecord(m) \/ CreateFails(m)
    <3>1. m # r
      BY <1>2, <2>1 DEF CreateRecord, CreateFails, Creating
    <3> QED
      BY <1>1, <1>7, <2>1, <3>1 DEF CreateRecord, CreateFails
  <2>2. CASE CommitEnd(m)
    BY <1>1, <1>7, <1>10, <2>2 DEF CommitEnd, LeaseRow
  <2>3. ~CommitCancel(m)
    BY DEF CommitCancel, Rowed
  <2> QED
    BY <1>7, <1>18, <2>1, <2>2, <2>3 DEF Handler, RequestStep, CreateSbatch
<1>19. ASSUME NEW j \in Jobs, Registration(j) PROVE Goal
  <2>1. lease'[r] \in {lease[r], [lease[r] EXCEPT !.state = "STARTING"]}
    BY <1>19 DEF Registration, RegisterEndpoint, RegisterLease
  <2>2. CASE lease'[r] = [lease[r] EXCEPT !.state = "STARTING"]
    <3>1. lease'[r].job = lease[r].job /\ lease'[r].state = "STARTING"
      BY <1>1, <2>2, RowFields
    <3> QED
      BY <3>1 DEF Endures, Active
  <2> QED
    BY <1>7, <2>1, <2>2
<1>20. CASE ReconcileOnStartup
  <2>1. PICK gone \in SUBSET Gone : lease'[r] = RestartedLease(r, gone)
    BY <1>20 DEF ReconcileOnStartup, AnswersAtStartup, Answers
  <2>2. ~(lease[r].state \in Active /\ lease[r].job \in gone)
    BY <1>6, <2>1, JobNumbers DEF Gone, JobUnharmed
  <2>3. CASE lease[r].state = "PLANNED" /\ lease'[r] = [lease[r] EXCEPT !.state = "ENDED"]
    BY <1>1, <1>4, <1>8, <2>3, RowFields DEF Active
  <2>4. CASE lease[r].state = "RETRYING" /\ lease'[r] = Fail(lease[r], now)
    BY <1>1, <1>3, <1>4, <1>9, <2>4, RowFields DEF Active, RowUnharmed
  <2> QED
    BY <1>7, <2>1, <2>2, <2>3, <2>4 DEF RestartedLease
<1> QED
  BY <1>7, <1>11, <1>12, <1>13, <1>14, <1>15, <1>16, <1>17, <1>18, <1>19, <1>20
  DEF Next, vars, storeVars, Clock, Tick, Cluster, ClusterNext, JobStarts, GivesUpRegistering,
      ModelLoads, JobExits, Crash, TakeOver

(* Nor do the bookings that such jobs are for come to harm.                *)
LEMMA NextUnharmed ==
  ASSUME TypeOK, [Next]_vars, Undisturbed, RetrierAtLease, Owned, Rowed, Traced, StartsInTime,
         NEW r \in Leases, lease[r].supersedes # NoLease, Unharmed(r), r \notin renewer.retire
  PROVE  Unharmed(r)'
<1>1. RowUnharmed(r) /\ Endures(r, lease'[r]) /\ r # NoLease
  BY NextEndures DEF Unharmed, Leases, NoLease
<1>2. Exhausted => Exhausted'
  BY NextTypes, NextJobs DEF JobSteps, Exhausted
<1>3. lease'[r].job # NoJob => lease'[r].state \in Active
  BY <1>1 DEF Endures, RowUnharmed, Active
<1>4. lease'[r].state \in {"FAILED", "RETRYING"} => Exhausted
  BY <1>1 DEF Endures, RowUnharmed, Active
<1>5. ASSUME Retrying(r)' PROVE Exhausted /\ retrier'.step = "submit"
  <2>1. CASE RetryClaim(r)
    <3>1. lease[r].state = "FAILED" /\ lease[r].job = NoJob
      BY <1>1, <2>1 DEF RetryClaim, RowUnharmed, Active
    <3>2. retrier'.step = "submit"
      BY <2>1, <3>1 DEF RetryClaim, TypeOK, RetrierTypeOK
    <3> QED
      BY <1>1, <3>1, <3>2 DEF RowUnharmed
  <2>2. CASE Retrying(r)
    <3>1. Exhausted /\ retrier.step = "submit" /\ retrier.cur # NoLease
      BY <1>1, <2>2 DEF RowUnharmed, Retrying
    <3>2. ~RetryCancel /\ ~RetrySbatch /\ ~RetryRecord /\ ~RetryFails
      BY <1>5, <3>1, NextRetrying DEF RetryCancel, RetrySbatch, Sbatch, IsNextJob, Exhausted
    <3>3. \A m \in Leases : ~RetryClaim(m) /\ ~RetrySkip(m)
      BY <3>1 DEF RetryClaim, RetrySkip
    <3>4. ~RetryScan /\ ~Crash
      <4>1. RetryScan \/ Crash => retrier' = RetrierIdle \/ retrier = RetrierIdle
        BY DEF RetryScan, Crash
      <4>2. retrier' # RetrierIdle /\ retrier # RetrierIdle
        BY <1>1, <1>5, <2>2 DEF Retrying, RetrierIdle
      <4> QED
        BY <4>1, <4>2
    <3>5. UNCHANGED retrier
      BY <3>2, <3>3, <3>4
      DEF Next, vars, workerVars, Submitter, Retrier, RetryNext, RetryStep, Cleaner, Reconciler,
          Prober, Renewer, Users, Handler, Registration, Clock, Cluster, ReconcileOnStartup,
          TakeOver
    <3> QED
      BY <3>1, <3>5
  <2> QED
    BY <1>5, <2>1, <2>2, NextRetrying
<1>6. RowUnharmed(r)'
  BY <1>2, <1>3, <1>4, <1>5 DEF RowUnharmed
<1>7. \A j \in Jobs : job'[j].for = r => JobUnharmed(j)'
  BY NextUnharmedJob
<1> QED
  BY <1>6, <1>7 DEF Unharmed

-------------------------------------------------------------------------------
(* Chains of bookings                                                       *)

(* Bookings that are not all excluded have a last.                         *)
LEMMA LastLease ==
  ASSUME NEW X \in SUBSET Leases, X # {} PROVE \E x \in X : \A y \in X : y <= x
<1> DEFINE T == {MaxLeases - x : x \in X}
<1>1. X \in SUBSET (1 .. MaxLeases) /\ MaxLeases \in Nat
  BY StoreConstants DEF Leases
<1>2. T \in SUBSET Nat /\ T # {}
  <2>1. \A x \in X : MaxLeases - x \in Nat
    BY <1>1
  <2> QED
    BY <2>1
<1>3. \E n \in T : \A m \in T : ~(<<m, n>> \in OpToRel(<, Nat))
  <2> HIDE DEF T
  <2> QED
    BY <1>2, NatLessThanWellFounded, WFMin
<1>4. \A m, n \in Nat : <<m, n>> \in OpToRel(<, Nat) <=> m < n
  BY DEF OpToRel
<1>5. PICK n \in T : \A m \in T : ~(m < n)
  BY <1>2, <1>3, <1>4
<1>6. PICK x \in X : n = MaxLeases - x
  BY <1>5
<1>7. \A y \in X : ~(MaxLeases - y < n)
  BY <1>5
<1> QED
  BY <1>1, <1>6, <1>7

LEMMA DirectHeir ==
  ASSUME NEW l \in Leases, NEW r \in Leases, lease[r].supersedes = l
  PROVE  r \in Heirs(l)
  BY DEF Heirs, Replacements

LEMMA HeirOfHeir ==
  ASSUME NEW l \in Leases, NEW h \in Heirs(l), NEW r \in Heirs(h)
  PROVE  r \in Heirs(l)
<1>1. SUFFICES ASSUME NEW S \in SUBSET Leases, Replacements(S \cup {l}) \subseteq S
               PROVE  r \in S
  BY DEF Heirs
<1>2. h \in S
  BY <1>1 DEF Heirs
<1>3. Replacements(S \cup {h}) \subseteq Replacements(S \cup {l})
  BY <1>2 DEF Replacements
<1> QED
  BY <1>1, <1>3 DEF Heirs

(* Whoever comes after a booking in its chain was inserted after it.       *)
LEMMA HeirIsLater ==
  ASSUME TypeOK, Rowed, NEW l \in Leases, NEW r \in Heirs(l)
  PROVE  r \in Leases /\ r > l /\ lease[r].supersedes # NoLease
<1> DEFINE S == {x \in Leases : x > l /\ lease[x].supersedes # NoLease}
<1>1. ASSUME NEW x \in Replacements(S \cup {l}) PROVE x \in S
  <2>1. /\ x \in Leases /\ lease[x].supersedes \in S \cup {l}
        /\ lease[x].supersedes # NoLease /\ lease[x].supersedes >= l
    BY <1>1, StoreConstants DEF Replacements, Leases, NoLease
  <2>2. lease[x].supersedes < x /\ lease[x].supersedes \in Leases
    BY <2>1 DEF Rowed
  <2>3. x \in Int /\ l \in Int /\ lease[x].supersedes \in Int
    BY <2>1, <2>2, StoreConstants DEF Leases
  <2> QED
    BY <2>1, <2>2, <2>3
<1>2. S \in SUBSET Leases
  OBVIOUS
<1> QED
  BY <1>1, <1>2 DEF Heirs

LEMMA HeirsStay ==
  ASSUME TypeOK, [Next]_vars, Undisturbed, RetrierAtLease, Owned, Rowed,
         NEW l \in Leases, NEW r \in Heirs(l)
  PROVE  r \in Heirs(l)'
<1>1. ASSUME NEW S \in SUBSET Leases, (Replacements(S \cup {l}) \subseteq S)' PROVE r \in S
  <2>1. ASSUME NEW x \in Replacements(S \cup {l}) PROVE x \in S
    <3>1. x \in Leases /\ lease[x].supersedes \in S \cup {l} /\ lease[x].supersedes # NoLease
      BY <2>1 DEF Replacements, Leases, NoLease
    <3>2. lease'[x].supersedes = lease[x].supersedes
      BY <3>1, NextExists DEF Rowed, Descent
    <3> QED
      BY <1>1, <3>1, <3>2 DEF Replacements
  <2> QED
    BY <2>1 DEF Heirs
<1> QED
  BY <1>1 DEF Heirs

(* A booking that serves, and will go on doing so: no scan has chosen it,  *)
(* to submit it or to retire it.                                           *)
Steady(r) ==
  /\ Unharmed(r)
  /\ r \notin renewer.retire \cup renewer.todo
  /\ \A j \in Jobs : <<r, j>> \notin renewer.subs
  /\ lease[r].job # NoJob /\ ep[lease[r].job].state = "READY"

HasSteadyHeir(l) == \E r \in Heirs(l) : Steady(r)

(* A replacement that has come to harm has been replaced in its turn, and  *)
(* whoever is retired has somebody after it that serves.                   *)
ChainsHold ==
  /\ \A r \in Leases : lease[r].supersedes # NoLease => Unharmed(r) \/ HasSteadyHeir(r)
  /\ \A l \in renewer.retire : HasSteadyHeir(l)

LEMMA NextSteady ==
  ASSUME TypeOK, [Next]_vars, Undisturbed, RetrierAtLease, Owned, Rowed, Traced, StartsInTime,
         ~RenewScan, NEW r \in Leases, lease[r].supersedes # NoLease, Steady(r)
  PROVE  Steady(r)'
<1>1. Unharmed(r) /\ Unharmed(r)' /\ Endures(r, lease'[r])
  BY NextUnharmed, NextEndures DEF Steady
<1>2. /\ r \notin renewer'.retire \cup renewer'.todo
      /\ \A j \in Jobs : <<r, j>> \notin renewer'.subs
  BY NextRenewer DEF Steady
<1>3. lease'[r].job = lease[r].job /\ lease[r].job # NoJob
  BY <1>1 DEF Endures, Steady
<1>4. PICK j \in Jobs : j = lease[r].job /\ job[j].for = r /\ ep[j].state = "READY"
  BY <1>3 DEF Owned, Steady, TypeOK, StoreTypeOK, LeaseRow
<1>5. JobUnharmed(j)'
  <2>1. r # NoLease /\ JobMove(j)
    BY NextJobMoves DEF Leases, NoLease
  <2>2. job'[j].for = r
    BY <1>4, <2>1 DEF JobMove, Owned
  <2> QED
    BY <1>1, <2>2, NextUnharmedJob DEF Steady
<1>6. ep'[j].state = "READY"
  <2>1. EndpointMove(j) /\ ep'[j].state \notin {"FAILED", "STOPPED"}
    BY <1>5, NextEndpointMoves DEF JobUnharmed
  <2>2. CASE HealthApply /\ ep'[j] = CheckedEndpoint(j)
    BY <1>4, <2>1, <2>2, Verdicts
  <2> QED
    BY <1>4, <2>1, <2>2 DEF EndpointMove
<1> QED
  BY <1>1, <1>2, <1>3, <1>4, <1>6 DEF Steady

(* The scan gives a replacement a row that nobody has been at.             *)
LEMMA NewUnharmed ==
  ASSUME TypeOK, [Next]_vars, Undisturbed, RetrierAtLease, Owned, Rowed, Traced, RenewScan,
         NEW k \in Renewed, NEW r \in Leases, r = NewRow(k)
  PROVE  Unharmed(r)'
<1>1. ~Exists(r)
  BY OldRows
<1>2. ~Retrying(r) /\ \A j \in Jobs : job[j].for # r
  BY <1>1 DEF Rowed, Handled, Leases, NoLease
<1>3. lease'[r] = BuildReplacement(k)
  BY ScanRows
<1>4. lease'[r].state = "PLANNED" /\ lease'[r].job = NoJob
  BY <1>3 DEF BuildReplacement, NoRow
<1>5. job' = job
  BY DEF RenewScan
<1>6. ~Retrying(r)'
  BY <1>1, <1>2, NextRetrying DEF RetryClaim, Exists
<1> QED
  BY <1>2, <1>4, <1>5, <1>6 DEF Unharmed, RowUnharmed

(* At a scan, the last of those after a booking that serve is steady.      *)
LEMMA ScanSteadies ==
  ASSUME TypeOK, [Next]_vars, Undisturbed, RetrierAtLease, Owned, Rowed, Traced, StartsInTime,
         ChainsHold, RenewScan,
         NEW l \in Leases, l \in Superseded \/ HasSteadyHeir(l)
  PROVE  HasSteadyHeir(l)'
<1> DEFINE Serving(x) == /\ lease[x].state \in Active /\ lease[x].job # NoJob
                         /\ ep[lease[x].job].state = "READY"
           X == {x \in Heirs(l) : Serving(x)}
<1>1. \A h \in Leases : HasSteadyHeir(h) => \E x \in Heirs(h) : Serving(x)
  BY DEF HasSteadyHeir, Steady, Unharmed, RowUnharmed
<1>2. \A h \in Superseded : \E x \in Heirs(h) : Serving(x)
  BY DirectHeir DEF Superseded
<1>3. X # {} /\ X \in SUBSET Leases
  BY <1>1, <1>2 DEF Heirs
<1>4. PICK x \in X : \A y \in X : y <= x
  BY <1>3, LastLease
<1>5. x \in Leases /\ x \in Heirs(l) /\ Serving(x) /\ lease[x].supersedes # NoLease
  BY <1>4, HeirIsLater
<1>6. ASSUME NEW y \in Heirs(x), Serving(y) PROVE FALSE
  <2>1. y \in Leases /\ y > x
    BY <1>5, <1>6, HeirIsLater
  <2>2. y \in X
    BY <1>5, <1>6, HeirOfHeir
  <2>3. x \in Int /\ y \in Int
    BY <1>5, <2>1, StoreConstants DEF Leases
  <2> QED
    BY <1>4, <2>1, <2>2, <2>3
<1>7. Unharmed(x) /\ x \notin Superseded
  BY <1>1, <1>2, <1>5, <1>6 DEF ChainsHold
<1>8. renewer.retire = {} /\ renewer'.subs = {} /\ renewer'.retire \subseteq Superseded
  BY DEF RenewScan, RenewerIdle
<1>9. Unharmed(x)'
  BY <1>5, <1>7, <1>8, NextUnharmed
<1>10. x \notin renewer'.todo
  <2>1. Exists(x)
    BY <1>5 DEF Exists, Active
  <2>2. \A k \in Renewed : NewRow(k) # x
    BY <1>5, <2>1, OldRows
  <2> QED
    BY <2>2, ScanRows
<1>11. lease'[x].job = lease[x].job /\ ep' = ep
  <2>1. lease'[x] \in {lease[x], [lease[x] EXCEPT !.drainingSince = now]}
    BY <1>5, ScannedOld DEF Exists, Active
  <2>2. [lease[x] EXCEPT !.drainingSince = now].job = lease[x].job
    BY <1>5 DEF TypeOK, StoreTypeOK, LeaseRow
  <2> QED
    BY <2>1, <2>2 DEF RenewScan
<1>12. Steady(x)'
  BY <1>5, <1>7, <1>8, <1>9, <1>10, <1>11 DEF Steady
<1> QED
  BY <1>5, <1>12, HeirsStay DEF HasSteadyHeir

LEMMA NextHeirs ==
  ASSUME TypeOK, [Next]_vars, Undisturbed, RetrierAtLease, Owned, Rowed, Traced, StartsInTime,
         ChainsHold, NEW l \in Leases, HasSteadyHeir(l)
  PROVE  HasSteadyHeir(l)'
<1>1. CASE RenewScan
  BY <1>1, ScanSteadies
<1>2. CASE ~RenewScan
  <2>1. PICK r \in Heirs(l) : Steady(r)
    BY DEF HasSteadyHeir
  <2>2. r \in Leases /\ lease[r].supersedes # NoLease
    BY HeirIsLater
  <2> QED
    BY <1>2, <2>1, <2>2, NextSteady, HeirsStay DEF HasSteadyHeir
<1> QED
  BY <1>1, <1>2

(* Where a replacement comes from. *)
LEMMA NextReplacement ==
  ASSUME TypeOK, [Next]_vars, Undisturbed, RetrierAtLease, Owned, Rowed,
         NEW r \in Leases, lease'[r].supersedes # NoLease
  PROVE  \/ lease[r].supersedes # NoLease
         \/ RenewScan /\ \E k \in Renewed : r = NewRow(k)
<1>1. SUFFICES ASSUME lease[r].supersedes = NoLease
               PROVE  RenewScan /\ \E k \in Renewed : r = NewRow(k)
  OBVIOUS
<1>2. ~CreatePlanned(r) /\ ~CreateNow(r)
  BY DEF CreatePlanned, CreateNow, NoRow, TypeOK, StoreTypeOK
<1>3. RenewScan
  BY <1>1, <1>2, NextDescent DEF Descent
<1>4. lease'[r] \notin {lease[r], [lease[r] EXCEPT !.drainingSince = now]}
  BY <1>1 DEF TypeOK, StoreTypeOK, LeaseRow
<1> QED
  BY <1>3, <1>4, ScanRows

LEMMA NextChains ==
  ASSUME TypeOK, [Next]_vars, Undisturbed, RetrierAtLease, Owned, Rowed, Traced, StartsInTime,
         ChainsHold
  PROVE  ChainsHold'
<1>1. ASSUME NEW r \in Leases, lease'[r].supersedes # NoLease
      PROVE  Unharmed(r)' \/ HasSteadyHeir(r)'
  <2>1. CASE HasSteadyHeir(r)
    BY <2>1, NextHeirs
  <2>2. CASE lease[r].supersedes # NoLease /\ ~HasSteadyHeir(r)
    BY <2>2, NextUnharmed DEF ChainsHold
  <2>3. CASE RenewScan /\ \E k \in Renewed : r = NewRow(k)
    BY <2>3, NewUnharmed
  <2> QED
    BY <1>1, <2>1, <2>2, <2>3, NextReplacement
<1>2. ASSUME NEW l \in renewer'.retire PROVE HasSteadyHeir(l)'
  <2>1. CASE l \in renewer.retire
    BY <2>1, NextHeirs DEF ChainsHold, TypeOK, RenewerTypeOK
  <2>2. CASE RenewScan
    <3>1. l \in Superseded /\ l \in Leases
      BY <1>2, <2>2 DEF RenewScan, Superseded
    <3> QED
      BY <2>2, <3>1, ScanSteadies
  <2> QED
    BY <1>2, <2>1, <2>2, NextRenewer
<1> QED
  BY <1>1, <1>2 DEF ChainsHold

HandoverInv ==
  TypeOK /\ RetrierAtLease /\ Owned /\ Rowed /\ Traced /\ ChainsHold

LEMMA InitHandover == Init => HandoverInv
<1> SUFFICES ASSUME Init PROVE HandoverInv
  OBVIOUS
<1>1. TypeOK /\ Owned /\ RetrierAtLease
  BY InitTypes, InitOwned
<1>2. \A l \in Leases : lease[l] = NoRow
  BY DEF Init, StoreInit
<1>3. /\ \A j \in Jobs : job[j].for = NoLease /\ ep[j].state = "NONE"
      /\ \A l \in Leases : ~Creating(l) /\ request[l].op = "none"
  BY DEF Init, AllIdle, StoreInit, Creating, NotCreating, NoRequest
<1>4. \A l \in Leases : ~Handled(l)
  BY <1>3 DEF Handled, Init, AllIdle, SubmitterIdle, RetrierIdle, RenewerIdle, Retrying, Leases,
             NoLease
<1>5. Rowed
  BY <1>2, <1>3, <1>4 DEF Rowed, Packed, Exists, NoRow
<1>6. Traced
  <2>1. prober.checks = {} /\ prober.ok = {} /\ prober.now <= now
    BY DEF Init, AllIdle, StoreInit, ProberIdle
  <2>2. cleaner.acts = {} /\ cleaner.pend = {} /\ reconciler.checks = {} /\ reconciler.gone = {}
    BY DEF Init, AllIdle, CleanerIdle, ReconcilerIdle
  <2>3. retrier.step # "cancel" /\ renewer.pend = {}
    BY DEF Init, AllIdle, RetrierIdle, RenewerIdle
  <2> QED
    BY <1>3, <2>1, <2>2, <2>3 DEF Traced
<1>7. ChainsHold
  BY <1>2 DEF ChainsHold, NoRow, Init, AllIdle, RenewerIdle
<1> QED
  BY <1>1, <1>5, <1>6, <1>7 DEF HandoverInv

(* Every step keeps the invariant, and whoever is to be retired has an     *)
(* heir in service, at every moment until its job is cancelled.            *)
LEMMA NextHandover ==
  ASSUME Undisturbed, HandoverInv, StartsInTime, [Next]_vars
  PROVE  /\ HandoverInv'
         /\ \A l \in Leases : l \in renewer.pend \ renewer'.pend =>
                              \E r \in Heirs(l) : InService(r)
<1>1. HandoverInv'
  BY NextTypes, RetrierStaysAtLease, NextOwned, NextRowed, NextTraced, NextChains DEF HandoverInv
<1>2. ASSUME NEW l \in Leases, l \in renewer.pend PROVE \E r \in Heirs(l) : InService(r)
  <2>1. PICK r \in Heirs(l) : Steady(r)
    BY <1>2 DEF HandoverInv, Traced, ChainsHold, HasSteadyHeir
  <2>2. lease[r].job \in Jobs /\ job[lease[r].job].for = r
    BY <2>1, HeirIsLater DEF HandoverInv, Owned, Steady, TypeOK, StoreTypeOK, LeaseRow
  <2>3. job[lease[r].job].st = "SERVING"
    BY <2>1, <2>2 DEF Steady, Unharmed, JobUnharmed
  <2> QED
    BY <2>1, <2>3 DEF Steady, InService
<1> QED
  BY <1>1, <1>2

(* HandoverWithoutGap: when renew_worker cancels the job of a booking, one *)
(* that comes after it in its chain serves, though both were looked at     *)
(* before several awaits. Assumed: no submission, probe or job fails of    *)
(* its own accord, nobody unlocks, cancels or stops a booking, and models  *)
(* start within the time that health_worker gives them.                    *)
THEOREM OldModelRunsUntilNewServes ==
  ASSUME Undisturbed
  PROVE  Spec /\ []StartsInTime => HandoverWithoutGap
<1>1. HandoverInv /\ StartsInTime /\ [Next]_vars => HandoverInv'
  BY NextHandover
<1>2. HandoverInv /\ StartsInTime /\ [Next]_vars =>
        [\A l \in Leases : l \in renewer.pend \ renewer'.pend =>
                           \E r \in Heirs(l) : InService(r)]_renewer
  BY NextHandover
<1> QED
  BY <1>1, <1>2, InitHandover, PTL DEF Spec, HandoverWithoutGap
=============================================================================
