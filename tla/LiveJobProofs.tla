----------------------------- MODULE LiveJobProofs -----------------------------
(***************************************************************************)
(* One live job per booking. What makes it true is who answers for the     *)
(* job of a booking at each moment: the create handler, the submission     *)
(* worker, the retry worker or the row itself, and never two of them.      *)
(* The second half shows that the workers therefore keep LeaseContract.    *)
(***************************************************************************)
EXTENDS SafetyProofs

(* Slurm answers every request and carries out every cancellation, the     *)
(* process does not die, and there are no service deployments, so that     *)
(* renew_worker has nothing to do.                                         *)
Orderly == {"reply", "scancel", "crash"} \cap Faults = {} /\ NoServices

OnlySessions == up /\ Sessions

LEMMA NextOnlySessions ==
  ASSUME TypeOK, [Next]_vars, Orderly, OnlySessions
  PROVE  OnlySessions' /\ ~Renewer /\ ~Crash /\ ~ReconcileOnStartup /\ ~TakeOver
<1>1. ~Renewer /\ ~Crash /\ ~ReconcileOnStartup /\ ~TakeOver
  BY RenewerRests DEF Renewer, Crash, ReconcileOnStartup, TakeOver, OnlySessions, Orderly
<1>2. up' = up
  BY <1>1
  DEF Next, vars, workerVars, Running, Submitter, Retrier, Cleaner, Reconciler, Prober, Users,
      Handler, Registration, Clock, Cluster
<1>3. Sessions'
  BY NextSessions DEF OnlySessions, Orderly
<1> QED
  BY <1>1, <1>2, <1>3 DEF OnlySessions

-------------------------------------------------------------------------------
(* Who answers for the job of a booking                                     *)

Submitting(l) == l \in submitter.todo
Held(l) == Creating(l) \/ Submitting(l) \/ Retrying(l)

(* What each of the three knows of the booking while it is at it: the only *)
(* thing that others do to it then is to cancel it.                        *)
CreatorShape(l) ==
  /\ creating[l].step # "record" => creating[l].job = NoJob
  /\ Creating(l) => /\ lease[l].state \in {"SUBMITTED", "CANCELED"} /\ lease[l].job = NoJob
                    /\ ~Submitting(l) /\ ~Retrying(l)
SubmitterShape(l) ==
  /\ submitter.cur = l => Submitting(l)
  /\ Submitting(l) => /\ lease[l].state \in {"PLANNED", "CANCELED"} /\ lease[l].job = NoJob
                      /\ ~Retrying(l)
RetrierShape(l) ==
  Retrying(l) => /\ lease[l].state \in {"RETRYING", "CANCELED"}
                 /\ retrier.step \in {"cancel", "submit", "record"}
                 /\ retrier.step = "cancel" => retrier.job = lease[l].job
                 /\ retrier.step = "submit" => retrier.job = NoJob

(* The job they answer for, if any. *)
Claim(l) ==
  IF Creating(l) THEN creating[l].job
  ELSE IF Submitting(l) THEN IF submitter.cur = l THEN submitter.job ELSE NoJob
  ELSE IF Retrying(l) THEN retrier.job
  ELSE lease[l].job

(* Cancelled while it was being submitted: the job is nobody's, but no     *)
(* other one will follow.                                                  *)
Abandoned(l) == ~Held(l) /\ lease[l].state = "CANCELED" /\ lease[l].job = NoJob

Accounted(l) ==
  \/ LiveJobs(l) \subseteq {Claim(l)}
  \/ Abandoned(l) /\ \E j \in Jobs : LiveJobs(l) \subseteq {j}

Sound(l) ==
  CreatorShape(l) /\ SubmitterShape(l) /\ RetrierShape(l) /\ RowShape(l) /\ Accounted(l)

(* What a booking once had, it has. *)
KeepsJob(l) == lease[l].job # NoJob => lease'[l].job # NoJob

Kept(l) == Sound(l)' /\ KeepsJob(l)

-------------------------------------------------------------------------------
(* Steps of the others                                                      *)

(* The three are where they were, as far as booking l is concerned. *)
SameView(l) ==
  /\ creating'[l] = creating[l]
  /\ l \in submitter'.todo <=> l \in submitter.todo
  /\ submitter'.cur = l <=> submitter.cur = l
  /\ submitter.cur = l => submitter'.job = submitter.job
  /\ retrier'.cur = l <=> retrier.cur = l
  /\ retrier.cur = l => retrier'.job = retrier.job /\ retrier'.step = retrier.step

(* What the others may do to its row. *)
Moves(l) ==
  \/ Alike(lease[l], lease'[l])
  \/ lease'[l].job = lease[l].job /\ lease'[l].state = "CANCELED"
  \/ /\ lease'[l].job = lease[l].job /\ lease'[l].state \notin {"NONE", "PLANNED"}
     /\ \/ lease[l].state \in {"STARTING", "RUNNING", "FAILED"}
        \/ lease[l].state \in {"SUBMITTED", "PLANNED"} /\ lease[l].job # NoJob
        \/ lease[l].state = "PLANNED" /\ ~Submitting(l)
  \/ lease[l].state = "NONE" /\ lease'[l].state = "PLANNED" /\ lease'[l].job = NoJob

(* No job is started, none changes hands. *)
JobsQuiet ==
  \A j \in Jobs : job'[j].st \in Live => job[j].st \in Live /\ job'[j].for = job[j].for

LEMMA QuietLive ==
  ASSUME JobsQuiet, NEW l \in Leases
  PROVE  LiveJobs(l)' \subseteq LiveJobs(l)
  BY DEF JobsQuiet, LiveJobs

LEMMA ScancelQuiet ==
  ASSUME JobTypeOK, NEW j \in Jobs \cup {NoJob}, Scancel(j)
  PROVE  JobsQuiet
  BY DEF JobTypeOK, Scancel, Killed, JobsQuiet, Live, Left

LEMMA SbatchLive ==
  ASSUME JobTypeOK, NEW j \in Jobs, NEW m \in Leases, Sbatch(j, m), NEW l \in Leases
  PROVE  LiveJobs(l)' \subseteq LiveJobs(l) \cup (IF l = m THEN {j} ELSE {})
  BY DEF JobTypeOK, Sbatch, LiveJobs

LEMMA MovesAreSound ==
  ASSUME NEW l \in Leases, Sound(l), SameView(l), Moves(l), LiveJobs(l)' \subseteq LiveJobs(l)
  PROVE  Kept(l)
<1>1. (Held(l)' <=> Held(l)) /\ (Creating(l)' <=> Creating(l))
      /\ (Submitting(l)' <=> Submitting(l)) /\ (Retrying(l)' <=> Retrying(l))
  BY DEF SameView, Held, Creating, Submitting, Retrying
<1>2. CASE Held(l)
  <2>1. lease'[l].job = lease[l].job /\ lease'[l].state \in {lease[l].state, "CANCELED"}
    BY <1>2 DEF Sound, CreatorShape, SubmitterShape, RetrierShape, Held, Moves, Alike
  <2>2. Claim(l)' = Claim(l)
    BY <1>1, <2>1 DEF Claim, SameView, Creating, Submitting, Retrying
  <2>3. LiveJobs(l) \subseteq {Claim(l)}
    BY <1>2 DEF Sound, Accounted, Abandoned
  <2>4. Accounted(l)'
    BY <2>2, <2>3 DEF Accounted
  <2>5. CreatorShape(l)' /\ SubmitterShape(l)' /\ RetrierShape(l)' /\ RowShape(l)'
    BY <1>1, <2>1
    DEF Sound, CreatorShape, SubmitterShape, RetrierShape, RowShape, SameView, Creating,
        Submitting, Retrying
  <2> QED
    BY <2>1, <2>4, <2>5 DEF Sound, Kept, KeepsJob
<1>3. CASE ~Held(l)
  <2>1. lease'[l].job = lease[l].job
    BY DEF Moves, Alike, Sound, RowShape
  <2>2. Claim(l)' = Claim(l)
    BY <1>1, <1>3, <2>1 DEF Claim, Held
  <2>3. lease[l].state = "CANCELED" => lease'[l].state = "CANCELED"
    BY DEF Moves, Alike
  <2>4. Accounted(l)'
    BY <1>1, <1>3, <2>1, <2>2, <2>3 DEF Sound, Accounted, Abandoned
  <2>5. CreatorShape(l)' /\ SubmitterShape(l)' /\ RetrierShape(l)'
    BY <1>1, <1>3
    DEF Sound, CreatorShape, SubmitterShape, RetrierShape, SameView, Held, Creating,
        Submitting, Retrying
  <2>6. RowShape(l)'
    BY <2>1 DEF Moves, Alike, Sound, RowShape
  <2> QED
    BY <2>1, <2>4, <2>5, <2>6 DEF Sound, Kept, KeepsJob
<1> QED
  BY <1>2, <1>3

LEMMA BystandersAreSound ==
  ASSUME NEW l \in Leases, Sound(l), UNCHANGED <<submitter, retrier, creating>>,
         Moves(l), JobsQuiet
  PROVE  Kept(l)
<1>1. SameView(l)
  BY DEF SameView
<1> QED
  BY <1>1, QuietLive, MovesAreSound

LEMMA SameJobs ==
  ASSUME UNCHANGED job
  PROVE  JobsQuiet
  BY DEF JobsQuiet

LEMMA CleanerKeeps ==
  ASSUME TypeOK, Cleaner, NEW l \in Leases, Sound(l)
  PROVE  Kept(l)
<1>1. lease \in [Leases -> LeaseRow] /\ lease[l] \in LeaseRow /\ JobTypeOK
  BY DEF TypeOK, StoreTypeOK, JobTypeOK
<1>2. UNCHANGED <<submitter, retrier, creating>>
  BY DEF Cleaner, handlers
<1>3. ASSUME NEW a \in cleaner.pend, CleanupCancel(a) PROVE Moves(l) /\ JobsQuiet
  <2>1. a.job \in Jobs \cup {NoJob}
    BY DEF TypeOK, CleanerTypeOK, CleanupAction
  <2> QED
    BY <1>1, <1>3, <2>1, ScancelQuiet DEF CleanupCancel, Moves, Alike
<1>4. ASSUME CleanupScan PROVE Moves(l) /\ JobsQuiet
  BY <1>4, SameJobs DEF CleanupScan, storeVars, Moves, Alike
<1>5. ASSUME CleanupWrite PROVE Moves(l) /\ JobsQuiet
  <2>1. ASSUME lease'[l] = lease[l] PROVE Moves(l)
    BY <2>1 DEF Moves, Alike
  <2>2. ASSUME /\ lease[l].state \in {"RUNNING", "FAILED"}
               /\ lease'[l] = [lease[l] EXCEPT !.state = "ENDED"]
        PROVE  Moves(l)
    <3>1. lease'[l].job = lease[l].job /\ lease'[l].state = "ENDED"
      BY <1>1, <2>2, RowFields
    <3> QED
      BY <2>2, <3>1 DEF Moves
  <2>3. Moves(l)
    BY <1>5, <2>1, <2>2 DEF CleanupWrite
  <2> QED
    BY <1>5, <2>3, SameJobs DEF CleanupWrite
<1> QED
  BY <1>2, <1>3, <1>4, <1>5, BystandersAreSound DEF Cleaner, CleanupNext, CleanupStep

LEMMA ReconcilerKeeps ==
  ASSUME TypeOK, Reconciler, Checked, NEW l \in Leases, Sound(l)
  PROVE  Kept(l)
<1>1. lease \in [Leases -> LeaseRow] /\ lease[l] \in LeaseRow
  BY DEF TypeOK, StoreTypeOK
<1>2. UNCHANGED <<submitter, retrier, creating>>
  BY DEF Reconciler, handlers
<1>3. UNCHANGED job
  BY DEF Reconciler, ReconcileNext, ReconcileScan, ReconcileStep, ReconcileQuery,
         ReconcileUnavailable, ReconcileApply, storeVars
<1>4. ASSUME NEW checks \in {{}, reconciler.checks}, NEW expiry, NEW gone, NEW at,
             ReconcileWrite(checks, expiry, gone, at)
      PROVE  Moves(l)
  <2>1. ASSUME lease'[l] = lease[l] PROVE Moves(l)
    BY <2>1 DEF Moves, Alike
  <2>2. CASE lease[l].state = "FAILED" /\ lease'[l] = [lease[l] EXCEPT !.state = "ENDED"]
    <3>1. lease'[l].job = lease[l].job /\ lease'[l].state = "ENDED"
      BY <1>1, <2>2, RowFields
    <3> QED
      BY <2>2, <3>1 DEF Moves
  <2>3. CASE (\E c \in Lost(checks, gone) : c[1] = l) /\ lease'[l] = Fail(lease[l], at)
    <3>1. PICK c \in reconciler.checks : c[1] = l /\ lease[l].state \in Active
      BY <2>3 DEF Lost
    <3>2. c = <<l, c[2]>> /\ c[2] \in Jobs
      BY <3>1 DEF TypeOK, ReconcilerTypeOK
    <3>3. lease[l].job # NoJob
      BY <3>1, <3>2 DEF Checked
    <3>4. lease'[l].job = lease[l].job /\ lease'[l].state = "FAILED"
      BY <1>1, <2>3, RowFields
    <3> QED
      BY <3>1, <3>3, <3>4 DEF Moves, Active
  <2> QED
    BY <1>4, <2>1, <2>2, <2>3 DEF ReconcileWrite
<1>5. ASSUME UNCHANGED lease PROVE Moves(l)
  BY <1>5 DEF Moves, Alike
<1>6. Moves(l)
  BY <1>4, <1>5
  DEF Reconciler, ReconcileNext, ReconcileScan, ReconcileStep, ReconcileQuery,
      ReconcileUnavailable, ReconcileApply, storeVars
<1> QED
  BY <1>2, <1>3, <1>6, SameJobs, BystandersAreSound

LEMMA ProberKeeps ==
  ASSUME TypeOK, Prober, NEW l \in Leases, Sound(l)
  PROVE  Kept(l)
<1>1. lease[l] \in LeaseRow
  BY DEF TypeOK, StoreTypeOK
<1>2. UNCHANGED <<submitter, retrier, creating, job>>
  BY DEF Prober, HealthNext, HealthProbe, HealthApply, storeVars, handlers
<1>3. CheckedLease(l).job = lease[l].job
  BY <1>1, RowFields DEF CheckedLease
<1>4. \/ CheckedLease(l) = lease[l]
      \/ /\ lease[l].job # NoJob /\ lease[l].state \in {"SUBMITTED", "STARTING", "RUNNING"}
         /\ CheckedLease(l).state \in {"RUNNING", "FAILED"}
  BY <1>1, RowFields DEF CheckedLease
<1>5. lease'[l] \in {lease[l], CheckedLease(l)}
  BY DEF Prober, HealthNext, HealthProbe, HealthApply, storeVars
<1>6. Moves(l)
  BY <1>3, <1>4, <1>5 DEF Moves, Alike
<1> QED
  BY <1>2, <1>6, SameJobs, BystandersAreSound

LEMMA ClusterQuiet ==
  ASSUME TypeOK, Cluster \/ Clock \/ UNCHANGED vars
  PROVE  JobsQuiet
<1>1. JobTypeOK
  BY DEF TypeOK, StoreTypeOK, JobTypeOK
<1>2. ASSUME NEW j \in Jobs, JobStarts(j) \/ GivesUpRegistering(j) \/ ModelLoads(j)
      PROVE  JobsQuiet
  BY <1>1, <1>2
  DEF JobStarts, GivesUpRegistering, ModelLoads, JobTypeOK, JobsQuiet, Live, Left, JobState
<1>3. ASSUME NEW j \in Jobs, JobExits(j) PROVE JobsQuiet
  BY <1>1, <1>3 DEF JobExits, Killed, JobTypeOK, JobsQuiet, Live, Left, JobState
<1> QED
  BY <1>2, <1>3, SameJobs DEF Cluster, ClusterNext, Clock, Tick, vars, storeVars

LEMMA ClusterKeeps ==
  ASSUME TypeOK, Cluster \/ Clock \/ UNCHANGED vars, NEW l \in Leases, Sound(l)
  PROVE  Kept(l)
<1>1. UNCHANGED <<submitter, retrier, creating, lease>>
  BY DEF Cluster, Clock, Tick, ClusterNext, JobStarts, GivesUpRegistering, ModelLoads,
         JobExits, workerVars, handlers, vars, storeVars
<1>2. JobsQuiet
  BY ClusterQuiet
<1>3. Moves(l)
  BY <1>1 DEF Moves, Alike
<1> QED
  BY <1>1, <1>2, <1>3, BystandersAreSound

LEMMA RegistrationKeeps ==
  ASSUME TypeOK, NEW j \in Jobs, Registration(j), NEW l \in Leases, Sound(l)
  PROVE  Kept(l)
<1>1. lease[l] \in LeaseRow /\ JobTypeOK
  BY DEF TypeOK, StoreTypeOK, JobTypeOK
<1>2. UNCHANGED <<submitter, retrier, creating>>
  BY DEF Registration
<1>3. ASSUME RegisterEndpoint(j) PROVE Moves(l) /\ JobsQuiet
  BY <1>3, SameJobs DEF RegisterEndpoint, Moves, Alike
<1>4. ASSUME RegisterLease(j) PROVE Moves(l) /\ JobsQuiet
  <2>1. JobsQuiet
    BY <1>1, <1>4 DEF RegisterLease, JobTypeOK, JobsQuiet, Live, Left
  <2>2. ASSUME lease'[l] = lease[l] PROVE Moves(l)
    BY <2>2 DEF Moves, Alike
  <2>3. ASSUME /\ lease[l].job = j /\ lease[l].state \in {"SUBMITTED", "PLANNED"}
               /\ lease'[l] = [lease[l] EXCEPT !.state = "STARTING"]
        PROVE  Moves(l)
    <3>1. lease'[l].job = lease[l].job /\ lease'[l].state = "STARTING"
      BY <1>1, <2>3, RowFields
    <3> QED
      BY <2>3, <3>1, JobNumbers DEF Moves
  <2>4. Moves(l)
    BY <1>4, <2>2, <2>3 DEF RegisterLease, LeasesOf
  <2> QED
    BY <2>1, <2>4
<1> QED
  BY <1>2, <1>3, <1>4, SameJobs, BystandersAreSound DEF Registration, RegisterEndpoint

LEMMA UsersKeep ==
  ASSUME TypeOK, Orderly, Users, NEW l \in Leases, ~CreateNow(l), Sound(l)
  PROVE  Kept(l)
<1>1. lease \in [Leases -> LeaseRow] /\ lease[l] \in LeaseRow /\ JobTypeOK
  BY DEF TypeOK, StoreTypeOK, JobTypeOK
<1>2. UNCHANGED <<submitter, retrier>>
  BY DEF Users
<1>3. ASSUME NEW m \in Leases, CreatePlanned(m) PROVE Moves(l)
  <2>1. CASE m = l
    <3>1. lease'[l].state = "PLANNED" /\ lease'[l].job = NoJob
      BY <1>1, <1>3, <2>1 DEF CreatePlanned, NoRow
    <3> QED
      BY <1>3, <2>1, <3>1 DEF CreatePlanned, IsNextLease, Moves
  <2>2. CASE m # l
    BY <1>1, <1>3, <2>2 DEF CreatePlanned, Moves, Alike
  <2> QED
    BY <2>1, <2>2
<1>4. ASSUME NEW m \in Leases, UpdateLease(m) \/ UnlockLease(m) PROVE Alike(lease[l], lease'[l])
  <2>1. ASSUME UpdateLease(m) PROVE Alike(lease[l], lease'[l])
    BY <1>1, <2>1 DEF UpdateLease, Alike, LeaseRow
  <2>2. ASSUME UnlockLease(m) PROVE Alike(lease[l], lease'[l])
    BY <1>1, <2>2 DEF UnlockLease, Alike, LeaseRow
  <2> QED
    BY <1>4, <2>1, <2>2
<1>5. ASSUME NEW m \in Leases, ExtendLease(m) \/ ShortenLease(m)
      PROVE  Alike(lease[l], lease'[l])
  <2>1. ASSUME NEW e, SetEnd(m, e) PROVE Alike(lease[l], lease'[l])
    BY <1>1, <2>1 DEF SetEnd, Alike, LeaseRow
  <2> QED
    BY <1>5, <2>1 DEF ExtendLease, ShortenLease
<1>6. ASSUME NEW m \in Leases, CancelLease(m) PROVE Moves(l)
  BY <1>1, <1>6 DEF CancelLease, Moves, Alike, LeaseRow
<1>7. ASSUME NEW m \in Leases, CancelLease(m) PROVE JobsQuiet
  <2>1. lease[m].job \in Jobs \cup {NoJob}
    BY DEF TypeOK, StoreTypeOK, LeaseRow
  <2> QED
    BY <1>1, <1>7, <2>1, ScancelQuiet, SameJobs DEF CancelLease
<1>8. ASSUME NEW m \in Leases, LockLease(m) PROVE FALSE
  BY <1>8 DEF LockLease, Orderly, NoServices
<1>9. ASSUME NEW m \in Leases, CreateNow(m) PROVE Kept(l)
  <2>1. m # l
    BY <1>9
  <2>2. creating'[l] = creating[l] /\ lease'[l] = lease[l] /\ UNCHANGED job
    BY <1>1, <1>9, <2>1 DEF CreateNow, TypeOK, RequestTypeOK
  <2>3. SameView(l) /\ Moves(l)
    BY <1>2, <2>2 DEF SameView, Moves, Alike
  <2> QED
    BY <2>2, <2>3, SameJobs, QuietLive, MovesAreSound
<1> QED
  BY <1>2, <1>3, <1>4, <1>5, <1>6, <1>7, <1>8, <1>9, SameJobs, BystandersAreSound
  DEF Users, RequestArrives, CreatePlanned, UpdateLease, UnlockLease, ExtendLease, ShortenLease,
      CancelLease, Moves

LEMMA CommitsKeep ==
  ASSUME TypeOK, NEW m \in Leases, CommitEnd(m) \/ CommitCancel(m),
         UNCHANGED <<submitter, retrier>>, NEW l \in Leases, Sound(l)
  PROVE  Kept(l)
<1>1. lease \in [Leases -> LeaseRow]
  BY DEF TypeOK, StoreTypeOK
<1>2. UNCHANGED <<creating, job>>
  BY DEF CommitEnd, CommitCancel
<1>3. ASSUME CommitEnd(m) PROVE Moves(l)
  BY <1>1, <1>3 DEF CommitEnd, Moves, Alike, LeaseRow
<1>4. ASSUME CommitCancel(m) PROVE Moves(l)
  BY <1>1, <1>4 DEF CommitCancel, Moves, Alike, LeaseRow
<1> QED
  BY <1>2, <1>3, <1>4, SameJobs, BystandersAreSound

-------------------------------------------------------------------------------
(* Steps of the three                                                       *)

(* A job can only be added where there is none. *)
LEMMA FirstJob ==
  ASSUME TypeOK, NEW l \in Leases, LiveJobs(l) \subseteq {NoJob}
  PROVE  LiveJobs(l) = {}
  BY JobNumbers DEF LiveJobs

(* Without lost answers, a submission that raised has left no job. *)
LEMMA RefusalsAddNothing ==
  ASSUME Orderly, NEW l, SbatchRaises(l)
  PROVE  UNCHANGED job
  BY DEF Orderly, SbatchRaises

LEMMA CreateNowKeeps ==
  ASSUME TypeOK, NEW l \in Leases, CreateNow(l), UNCHANGED <<submitter, retrier>>, Sound(l)
  PROVE  Kept(l)
<1>1. lease \in [Leases -> LeaseRow]
  BY DEF TypeOK, StoreTypeOK
<1>2. lease[l].state = "NONE" /\ lease'[l].state = "SUBMITTED" /\ lease'[l].job = NoJob
  BY <1>1 DEF CreateNow, IsNextLease, NoRow
<1>3. ~Held(l) /\ lease[l].job = NoJob /\ creating[l].job = NoJob
  BY <1>2 DEF Sound, CreatorShape, SubmitterShape, RetrierShape, RowShape, Held, Creating
<1>4. creating'[l].step = "submit" /\ creating'[l].job = NoJob
  BY <1>3 DEF CreateNow, TypeOK, RequestTypeOK
<1>5. LiveJobs(l)' \subseteq {NoJob}
  <2>1. LiveJobs(l) \subseteq {NoJob}
    BY <1>2, <1>3 DEF Sound, Accounted, Abandoned, Claim, Held
  <2> QED
    BY <2>1, SameJobs, QuietLive DEF CreateNow
<1>6. Accounted(l)'
  BY <1>4, <1>5 DEF Accounted, Claim, Creating
<1>7. CreatorShape(l)' /\ SubmitterShape(l)' /\ RetrierShape(l)' /\ RowShape(l)'
  BY <1>2, <1>3, <1>4
  DEF CreatorShape, SubmitterShape, RetrierShape, RowShape, Held, Creating, Submitting,
      Retrying, Sound
<1> QED
  BY <1>3, <1>6, <1>7 DEF Kept, KeepsJob, Sound

LEMMA CreatorKeeps ==
  ASSUME TypeOK, Orderly, CarriersHaveJobs, NEW m \in Leases,
         CreateSbatch(m) \/ CreateRecord(m) \/ CreateFails(m),
         UNCHANGED <<submitter, retrier>>, NEW l \in Leases, Sound(l)
  PROVE  Kept(l)
<1>1. lease \in [Leases -> LeaseRow] /\ lease[l] \in LeaseRow /\ JobTypeOK
  BY DEF TypeOK, StoreTypeOK, JobTypeOK
<1>2. CASE m # l
  <2>1. creating'[l] = creating[l] /\ lease'[l] = lease[l]
    BY <1>1, <1>2 DEF CreateSbatch, CreateRecord, CreateFails, TypeOK, RequestTypeOK
  <2>2. SameView(l) /\ Moves(l)
    BY <2>1 DEF SameView, Moves, Alike
  <2>3. LiveJobs(l)' \subseteq LiveJobs(l)
    BY <1>1, <1>2, SbatchLive, RefusalsAddNothing, SameJobs, QuietLive
    DEF CreateSbatch, CreateRecord, CreateFails
  <2> QED
    BY <2>2, <2>3, MovesAreSound
<1>3. CASE m = l
  <2>1. /\ Creating(l) /\ lease[l].state \in {"SUBMITTED", "CANCELED"} /\ lease[l].job = NoJob
        /\ ~Submitting(l) /\ ~Retrying(l) /\ submitter.cur # l
    BY <1>3
    DEF CreateSbatch, CreateRecord, CreateFails, Creating, Sound, CreatorShape, SubmitterShape
  <2>2. LiveJobs(l) \subseteq {creating[l].job}
    BY <2>1 DEF Sound, Accounted, Abandoned, Held, Claim
  <2>3. ~Submitting(l)' /\ ~Retrying(l)' /\ submitter'.cur # l
    BY <2>1 DEF Submitting, Retrying
  <2>4. SubmitterShape(l)' /\ RetrierShape(l)'
    BY <2>3 DEF SubmitterShape, RetrierShape
  <2>5. CASE CreateSbatch(l)
    <3>1. PICK j \in Jobs : Sbatch(j, l) /\ creating' = [creating EXCEPT ![l] =
                                                          [step |-> "record", job |-> j]]
      BY <2>5 DEF CreateSbatch
    <3>2. creating'[l].step = "record" /\ creating'[l].job = j
      BY <3>1 DEF TypeOK, RequestTypeOK
    <3>3. LiveJobs(l) = {}
      BY <2>2, <2>5, FirstJob DEF CreateSbatch, Sound, CreatorShape
    <3>4. LiveJobs(l)' \subseteq {j}
      BY <1>1, <3>1, <3>3, SbatchLive
    <3>5. lease' = lease
      BY <2>5 DEF CreateSbatch
    <3>6. CreatorShape(l)' /\ RowShape(l)' /\ KeepsJob(l)
      BY <2>1, <2>3, <3>2, <3>5 DEF CreatorShape, RowShape, KeepsJob
    <3>7. Accounted(l)'
      BY <3>2, <3>4 DEF Accounted, Claim, Creating
    <3> QED
      BY <2>4, <3>6, <3>7 DEF Kept, Sound
  <2>6. CASE CreateRecord(l)
    <3>1. creating'[l] = NotCreating
      BY <2>6 DEF CreateRecord, TypeOK, RequestTypeOK
    <3>2. lease'[l].state = lease[l].state /\ lease'[l].job = creating[l].job
      BY <1>1, <2>6 DEF CreateRecord, LeaseRow
    <3>3. CreatorShape(l)' /\ ~Creating(l)'
      BY <3>1 DEF CreatorShape, NotCreating, Creating
    <3>4. RowShape(l)' /\ KeepsJob(l)
      BY <2>1, <3>2 DEF RowShape, KeepsJob
    <3>5. LiveJobs(l)' \subseteq {creating[l].job}
      BY <2>2, <2>6, SameJobs, QuietLive DEF CreateRecord
    <3>6. Accounted(l)'
      BY <2>3, <3>2, <3>3, <3>5 DEF Accounted, Claim
    <3> QED
      BY <2>4, <3>3, <3>4, <3>6 DEF Kept, Sound
  <2>7. CASE CreateFails(l)
    <3>1. creating'[l] = NotCreating
      BY <2>7 DEF CreateFails, TypeOK, RequestTypeOK
    <3>2. lease'[l].state = "FAILED" /\ lease'[l].job = lease[l].job
      BY <1>1, <2>7, RowFields DEF CreateFails
    <3>3. CreatorShape(l)'
      BY <3>1 DEF CreatorShape, NotCreating, Creating
    <3>4. RowShape(l)' /\ KeepsJob(l)
      BY <3>2 DEF RowShape, KeepsJob
    <3>5. LiveJobs(l) = {}
      BY <2>2, <2>7, FirstJob DEF CreateFails, Sound, CreatorShape
    <3>6. LiveJobs(l)' = {}
      BY <2>7, <3>5, RefusalsAddNothing, SameJobs, QuietLive DEF CreateFails
    <3>7. Accounted(l)'
      BY <3>6 DEF Accounted
    <3> QED
      BY <2>4, <3>3, <3>4, <3>7 DEF Kept, Sound
  <2> QED
    BY <1>3, <2>5, <2>6, <2>7
<1> QED
  BY <1>2, <1>3

LEMMA SubmitterDone ==
  ASSUME TypeOK, NEW m, submitter' = SubmitterAfter(m)
  PROVE  submitter'.todo = submitter.todo \ {m} /\ submitter'.cur = NoLease
  BY DEF SubmitterAfter, SubmitterIdle, TypeOK, SubmitterTypeOK

LEMMA SubmitterElsewhere ==
  ASSUME TypeOK, NEW l \in Leases, l # NoLease, NEW m \in Leases, m # l,
         SubmitSbatch(m) \/ SubmitRecord(m) \/ SubmitFails(m)
  PROVE  submitter.cur # l /\ submitter'.cur # l /\ (l \in submitter'.todo <=> l \in submitter.todo)
<1>1. CASE SubmitSbatch(m)
  <2>1. submitter.cur = NoLease /\ submitter'.cur = m /\ submitter'.todo = submitter.todo
    BY <1>1 DEF SubmitSbatch, IsNextSnapshot, TypeOK, SubmitterTypeOK
  <2> QED
    BY <2>1
<1>2. CASE SubmitRecord(m) \/ SubmitFails(m)
  BY <1>2, SubmitterDone DEF SubmitRecord, SubmitFails, IsNextSnapshot
<1> QED
  BY <1>1, <1>2

LEMMA SubmitterKeeps ==
  ASSUME TypeOK, Orderly, CarriersHaveJobs, Submitter, NEW l \in Leases, Sound(l)
  PROVE  Kept(l)
<1>1. lease \in [Leases -> LeaseRow] /\ lease[l] \in LeaseRow /\ JobTypeOK /\ l # NoLease
  BY DEF TypeOK, StoreTypeOK, JobTypeOK, Leases, NoLease
<1>2. UNCHANGED <<retrier, creating>>
  BY DEF Submitter, handlers
<1>3. CASE SubmitScan
  <2>1. submitter.todo = {} /\ submitter.cur = NoLease /\ UNCHANGED job /\ submitter'.cur = NoLease
    BY <1>3 DEF SubmitScan, SubmitterIdle
  <2>2. LiveJobs(l)' \subseteq LiveJobs(l)
    BY <2>1, SameJobs, QuietLive
  <2>3. lease'[l].job = lease[l].job
    BY <1>1, <1>3, RowFields DEF SubmitScan
  <2>4. CASE l \in submitter'.todo
    <3>1. lease[l].state = "PLANNED" /\ lease'[l] = lease[l]
      BY <1>3, <2>4 DEF SubmitScan, SubmitterIdle, Planned
    <3>2. lease[l].job = NoJob /\ ~Held(l)
      BY <2>1, <3>1
      DEF Sound, RowShape, CreatorShape, RetrierShape, Held, Creating, Submitting, Retrying
    <3>3. LiveJobs(l) \subseteq {NoJob}
      BY <3>1, <3>2 DEF Sound, Accounted, Abandoned, Claim, Held
    <3>4. ~Creating(l)' /\ ~Retrying(l)'
      BY <1>2, <3>2 DEF Held, Creating, Retrying
    <3>5. CreatorShape(l)' /\ RetrierShape(l)'
      BY <1>2, <3>4 DEF Sound, CreatorShape, RetrierShape
    <3>6. SubmitterShape(l)' /\ RowShape(l)' /\ KeepsJob(l)
      BY <1>1, <2>1, <2>4, <3>1, <3>2, <3>4 DEF SubmitterShape, RowShape, KeepsJob, Submitting
    <3>7. Accounted(l)'
      BY <1>1, <2>1, <2>2, <2>4, <3>3, <3>4 DEF Accounted, Claim, Submitting
    <3> QED
      BY <3>5, <3>6, <3>7 DEF Kept, Sound
  <2>5. CASE l \notin submitter'.todo
    <3>1. SameView(l)
      BY <1>1, <1>2, <2>1, <2>5 DEF SameView
    <3>2. \/ lease'[l] = lease[l]
          \/ /\ lease[l].state = "PLANNED"
             /\ lease'[l] = [lease[l] EXCEPT !.state = "ENDED"]
      BY <1>3 DEF SubmitScan, Planned
    <3>3. \/ Alike(lease[l], lease'[l])
          \/ lease[l].state = "PLANNED" /\ lease'[l].state = "ENDED"
      <4>1. [lease[l] EXCEPT !.state = "ENDED"].state = "ENDED"
        BY <1>1, RowFields
      <4> QED
        BY <3>2, <4>1 DEF Alike
    <3>4. Moves(l)
      BY <2>1, <2>3, <3>3 DEF Moves, Submitting
    <3> QED
      BY <2>2, <3>1, <3>4, MovesAreSound
  <2> QED
    BY <2>4, <2>5
<1>4. ASSUME NEW m \in Leases, m # l, SubmitSbatch(m) \/ SubmitRecord(m) \/ SubmitFails(m)
      PROVE  Kept(l)
  <2>1. lease'[l] = lease[l]
    BY <1>1, <1>4 DEF SubmitSbatch, SubmitRecord, SubmitFails
  <2>2. submitter.cur # l /\ submitter'.cur # l /\ (l \in submitter'.todo <=> l \in submitter.todo)
    BY <1>1, <1>4, SubmitterElsewhere
  <2>3. LiveJobs(l)' \subseteq LiveJobs(l)
    BY <1>1, <1>4, SbatchLive, RefusalsAddNothing, SameJobs, QuietLive
    DEF SubmitSbatch, SubmitRecord, SubmitFails
  <2>4. SameView(l) /\ Moves(l)
    BY <1>2, <2>1, <2>2 DEF SameView, Moves, Alike
  <2> QED
    BY <2>3, <2>4, MovesAreSound
<1>5. ASSUME SubmitSbatch(l) \/ SubmitRecord(l) \/ SubmitFails(l)
      PROVE  /\ Submitting(l) /\ lease[l].state \in {"PLANNED", "CANCELED"}
             /\ lease[l].job = NoJob /\ ~Creating(l)' /\ ~Retrying(l)'
             /\ CreatorShape(l)' /\ RetrierShape(l)'
             /\ LiveJobs(l) \subseteq {IF submitter.cur = l THEN submitter.job ELSE NoJob}
  <2>1. Submitting(l)
    BY <1>5
    DEF SubmitSbatch, SubmitRecord, SubmitFails, IsNextSnapshot, Submitting, Sound, SubmitterShape
  <2>2. /\ lease[l].state \in {"PLANNED", "CANCELED"} /\ lease[l].job = NoJob
        /\ ~Creating(l) /\ ~Retrying(l)
    BY <2>1 DEF Sound, SubmitterShape, CreatorShape
  <2>3. ~Creating(l)' /\ ~Retrying(l)'
    BY <1>2, <2>2 DEF Creating, Retrying
  <2>4. CreatorShape(l)' /\ RetrierShape(l)'
    BY <1>2, <2>3 DEF Sound, CreatorShape, RetrierShape
  <2>5. LiveJobs(l) \subseteq {IF submitter.cur = l THEN submitter.job ELSE NoJob}
    BY <2>1, <2>2 DEF Sound, Accounted, Abandoned, Held, Claim
  <2> QED
    BY <2>1, <2>2, <2>3, <2>4, <2>5
<1>6. CASE SubmitSbatch(l)
  <2>1. PICK j \in Jobs : Sbatch(j, l) /\ submitter' = [submitter EXCEPT !.cur = l, !.job = j]
    BY <1>6 DEF SubmitSbatch
  <2>2. submitter'.cur = l /\ submitter'.job = j /\ submitter'.todo = submitter.todo
    BY <2>1 DEF TypeOK, SubmitterTypeOK
  <2>3. LiveJobs(l) = {}
    BY <1>1, <1>5, <1>6, FirstJob DEF SubmitSbatch, IsNextSnapshot
  <2>4. LiveJobs(l)' \subseteq {j}
    BY <1>1, <2>1, <2>3, SbatchLive
  <2>5. lease' = lease
    BY <1>6 DEF SubmitSbatch
  <2>6. Submitting(l)'
    BY <1>5, <1>6, <2>2 DEF Submitting
  <2>7. SubmitterShape(l)' /\ RowShape(l)' /\ KeepsJob(l)
    BY <1>5, <1>6, <2>5, <2>6 DEF SubmitterShape, RowShape, KeepsJob
  <2>8. Accounted(l)'
    BY <1>5, <1>6, <2>2, <2>4, <2>6 DEF Accounted, Claim
  <2> QED
    BY <1>5, <1>6, <2>7, <2>8 DEF Kept, Sound
<1>7. CASE SubmitRecord(l)
  <2>1. submitter.cur = l /\ submitter.job # NoJob /\ submitter.job \in Jobs
    BY <1>1, <1>7 DEF SubmitRecord, CarriersHaveJobs, TypeOK, SubmitterTypeOK
  <2>2. ~Submitting(l)' /\ submitter'.cur # l
    BY <1>1, <1>7, SubmitterDone DEF SubmitRecord, Submitting
  <2>3. LiveJobs(l)' \subseteq {submitter.job}
    BY <1>5, <1>7, <2>1, SameJobs, QuietLive DEF SubmitRecord
  <2>4. SubmitterShape(l)' /\ KeepsJob(l)
    BY <1>5, <1>7, <2>2 DEF SubmitterShape, KeepsJob
  <2>5. \/ lease'[l].state = "SUBMITTED" /\ lease'[l].job = submitter.job
        \/ lease'[l].state = "CANCELED" /\ lease'[l].job = NoJob
    <3>1. CASE lease[l].state = "PLANNED"
      BY <1>1, <1>7, <3>1 DEF SubmitRecord, LeaseRow
    <3>2. CASE lease[l].state = "CANCELED"
      BY <1>5, <1>7, <3>2 DEF SubmitRecord
    <3> QED
      BY <1>5, <1>7, <3>1, <3>2
  <2>6. RowShape(l)'
    BY <2>5 DEF RowShape
  <2>7. Accounted(l)'
    BY <1>5, <1>7, <2>1, <2>2, <2>3, <2>5 DEF Accounted, Claim, Abandoned, Held
  <2> QED
    BY <1>5, <1>7, <2>4, <2>6, <2>7 DEF Kept, Sound
<1>8. CASE SubmitFails(l)
  <2>1. ~Submitting(l)' /\ submitter'.cur # l
    BY <1>1, <1>8, SubmitterDone DEF SubmitFails, Submitting
  <2>2. LiveJobs(l) = {}
    BY <1>1, <1>5, <1>8, FirstJob DEF SubmitFails, IsNextSnapshot
  <2>3. LiveJobs(l)' = {}
    BY <1>8, <2>2, RefusalsAddNothing, SameJobs, QuietLive DEF SubmitFails
  <2>4. SubmitterShape(l)' /\ KeepsJob(l)
    BY <1>5, <1>8, <2>1 DEF SubmitterShape, KeepsJob
  <2>5. lease'[l].state \in {"FAILED", "CANCELED"}
    BY <1>1, <1>5, <1>8, RowFields DEF SubmitFails
  <2>6. RowShape(l)' /\ Accounted(l)'
    BY <2>3, <2>5 DEF RowShape, Accounted
  <2> QED
    BY <1>5, <1>8, <2>4, <2>6 DEF Kept, Sound
<1> QED
  BY <1>3, <1>4, <1>6, <1>7, <1>8 DEF Submitter, SubmitNext, SubmitStep

LEMMA RetrierDone ==
  ASSUME NEW m, retrier' = RetrierAfter(m)
  PROVE  retrier'.cur = NoLease
  BY DEF RetrierAfter, RetrierIdle

LEMMA RetrierKeeps ==
  ASSUME TypeOK, Orderly, CarriersHaveJobs, RetrierAtLease, Retrier, NEW l \in Leases, Sound(l)
  PROVE  Kept(l)
<1>1. lease \in [Leases -> LeaseRow] /\ lease[l] \in LeaseRow /\ JobTypeOK /\ l # NoLease
  BY DEF TypeOK, StoreTypeOK, JobTypeOK, Leases, NoLease
<1>2. UNCHANGED <<submitter, creating>>
  BY DEF Retrier, handlers
<1>3. CASE RetryScan
  <2>1. retrier.cur # l /\ retrier'.cur # l /\ UNCHANGED job
    BY <1>1, <1>3 DEF RetryScan, RetrierIdle
  <2>2. PICK b, e : lease'[l] \in {lease[l], [lease[l] EXCEPT !.begin = b, !.end = e]}
    BY <1>3 DEF RetryScan
  <2>3. Alike(lease[l], [lease[l] EXCEPT !.begin = b, !.end = e])
    BY <1>1, RowFields DEF Alike
  <2>4. SameView(l) /\ Moves(l)
    BY <1>2, <2>1, <2>2, <2>3 DEF SameView, Moves, Alike
  <2> QED
    BY <2>1, <2>4, SameJobs, QuietLive, MovesAreSound
<1>4. ASSUME NEW m \in Leases, RetrySkip(m) PROVE Kept(l)
  <2>1. retrier.cur # l /\ retrier'.cur # l /\ UNCHANGED <<job, lease>>
    BY <1>1, <1>4, RetrierDone DEF RetrySkip, storeVars
  <2>2. SameView(l) /\ Moves(l)
    BY <1>2, <2>1 DEF SameView, Moves, Alike
  <2> QED
    BY <2>1, <2>2, SameJobs, QuietLive, MovesAreSound
<1>5. ASSUME NEW m \in Leases, RetryClaim(m), m # l PROVE Kept(l)
  <2>1. retrier.cur # l /\ retrier'.cur # l
    BY <1>1, <1>5 DEF RetryClaim, TypeOK, RetrierTypeOK
  <2>2. lease'[l] = lease[l] /\ UNCHANGED job
    BY <1>1, <1>5 DEF RetryClaim
  <2>3. SameView(l) /\ Moves(l)
    BY <1>2, <2>1, <2>2 DEF SameView, Moves, Alike
  <2> QED
    BY <2>2, <2>3, SameJobs, QuietLive, MovesAreSound
<1>6. CASE RetryClaim(l)
  <2>1. lease[l].state = "FAILED" /\ retrier.cur # l
    BY <1>1, <1>6 DEF RetryClaim
  <2>2. ~Held(l)
    BY <2>1 DEF Sound, CreatorShape, SubmitterShape, Held, Retrying
  <2>3. /\ retrier'.cur = l /\ retrier'.job = lease[l].job
        /\ retrier'.step = IF lease[l].job = NoJob THEN "submit" ELSE "cancel"
    BY <1>6 DEF RetryClaim, TypeOK, RetrierTypeOK
  <2>4. lease'[l].state = "RETRYING" /\ lease'[l].job = lease[l].job
    BY <1>1, <1>6 DEF RetryClaim, LeaseRow
  <2>5. LiveJobs(l)' \subseteq {lease[l].job}
    <3>1. LiveJobs(l) \subseteq {lease[l].job}
      BY <2>1, <2>2 DEF Sound, Accounted, Abandoned, Claim, Held
    <3> QED
      BY <1>6, <3>1, SameJobs, QuietLive DEF RetryClaim
  <2>6. ~Creating(l)' /\ ~Submitting(l)' /\ Retrying(l)'
    BY <1>2, <2>2, <2>3 DEF Held, Creating, Submitting, Retrying
  <2>7. CreatorShape(l)' /\ SubmitterShape(l)'
    BY <1>2, <2>6 DEF Sound, CreatorShape, SubmitterShape, Submitting
  <2>8. RetrierShape(l)' /\ RowShape(l)' /\ KeepsJob(l)
    BY <2>3, <2>4 DEF RetrierShape, RowShape, KeepsJob
  <2>9. Accounted(l)'
    BY <2>3, <2>5, <2>6 DEF Accounted, Claim
  <2> QED
    BY <2>7, <2>8, <2>9 DEF Kept, Sound
<1>7. ASSUME RetryCancel \/ RetrySbatch \/ RetryRecord \/ RetryFails, retrier.cur # l
      PROVE  Kept(l)
  <2>1. retrier.cur \in Leases
    BY <1>7 DEF RetryCancel, RetrySbatch, RetryRecord, RetryFails, RetrierAtLease
  <2>2. lease'[l] = lease[l]
    BY <1>1, <1>7, <2>1 DEF RetryCancel, RetrySbatch, RetryRecord, RetryFails
  <2>3. retrier'.cur # l
    <3>1. CASE RetryCancel \/ RetrySbatch
      BY <1>7, <3>1 DEF RetryCancel, RetrySbatch, TypeOK, RetrierTypeOK
    <3>2. CASE RetryRecord \/ RetryFails
      BY <1>1, <3>2, RetrierDone DEF RetryRecord, RetryFails
    <3> QED
      BY <1>7, <3>1, <3>2
  <2>4. LiveJobs(l)' \subseteq LiveJobs(l)
    <3>1. retrier.job \in Jobs \cup {NoJob}
      BY DEF TypeOK, RetrierTypeOK
    <3> QED
      BY <1>1, <1>7, <2>1, <3>1, ScancelQuiet, SbatchLive, RefusalsAddNothing, SameJobs, QuietLive
      DEF RetryCancel, RetrySbatch, RetryRecord, RetryFails
  <2>5. SameView(l) /\ Moves(l)
    BY <1>2, <1>7, <2>2, <2>3 DEF SameView, Moves, Alike
  <2> QED
    BY <2>4, <2>5, MovesAreSound
<1>8. ASSUME retrier.cur = l
      PROVE  /\ lease[l].state \in {"RETRYING", "CANCELED"} /\ ~Creating(l)' /\ ~Submitting(l)'
             /\ CreatorShape(l)' /\ SubmitterShape(l)'
             /\ LiveJobs(l) \subseteq {retrier.job}
  <2>1. Retrying(l) /\ ~Creating(l) /\ ~Submitting(l)
    BY <1>8 DEF Retrying, Sound, CreatorShape, SubmitterShape
  <2>2. ~Creating(l)' /\ ~Submitting(l)'
    BY <1>2, <2>1 DEF Creating, Submitting
  <2>3. CreatorShape(l)' /\ SubmitterShape(l)'
    BY <1>2, <2>1, <2>2 DEF Sound, CreatorShape, SubmitterShape, Submitting
  <2>4. LiveJobs(l) \subseteq {retrier.job}
    BY <2>1 DEF Sound, Accounted, Abandoned, Held, Claim
  <2> QED
    BY <2>1, <2>2, <2>3, <2>4 DEF Sound, RetrierShape
<1>9. CASE RetryCancel /\ retrier.cur = l
  <2>1. retrier'.cur = l /\ retrier'.step = "submit" /\ retrier'.job = NoJob
    BY <1>9 DEF RetryCancel, TypeOK, RetrierTypeOK
  <2>2. LiveJobs(l)' = {}
    <3>1. LiveJobs(l)' \subseteq LiveJobs(l)
      <4>1. retrier.job \in Jobs \cup {NoJob}
        BY DEF TypeOK, RetrierTypeOK
      <4> QED
        BY <1>1, <1>9, <4>1, ScancelQuiet, QuietLive DEF RetryCancel
    <3>2. ASSUME retrier.job \in Jobs PROVE job'[retrier.job].st \notin Live
      BY <1>1, <1>9, <3>2
      DEF RetryCancel, Scancel, Orderly, Killed, JobTypeOK, Live, Left
    <3> QED
      BY <1>8, <1>9, <3>1, <3>2 DEF LiveJobs
  <2>3. lease' = lease
    BY <1>9 DEF RetryCancel
  <2>4. RetrierShape(l)' /\ RowShape(l)' /\ KeepsJob(l) /\ Accounted(l)'
    BY <1>8, <1>9, <2>1, <2>2, <2>3 DEF RetrierShape, RowShape, KeepsJob, Accounted
  <2> QED
    BY <1>8, <1>9, <2>4 DEF Kept, Sound
<1>10. CASE RetrySbatch /\ retrier.cur = l
  <2>1. PICK j \in Jobs :
          Sbatch(j, l) /\ retrier' = [retrier EXCEPT !.step = "record", !.job = j]
    BY <1>10 DEF RetrySbatch
  <2>2. retrier'.cur = l /\ retrier'.step = "record" /\ retrier'.job = j
    BY <1>10, <2>1 DEF TypeOK, RetrierTypeOK
  <2>3. LiveJobs(l) = {}
    BY <1>8, <1>10, FirstJob DEF RetrySbatch, Sound, RetrierShape, Retrying
  <2>4. LiveJobs(l)' \subseteq {j}
    BY <1>1, <2>1, <2>3, SbatchLive
  <2>5. lease' = lease
    BY <1>10 DEF RetrySbatch
  <2>6. RetrierShape(l)' /\ RowShape(l)' /\ KeepsJob(l)
    BY <1>8, <1>10, <2>2, <2>5 DEF RetrierShape, RowShape, KeepsJob
  <2>7. Retrying(l)'
    BY <2>2 DEF Retrying
  <2>8. Accounted(l)'
    BY <1>8, <1>10, <2>2, <2>4, <2>7 DEF Accounted, Claim
  <2> QED
    BY <1>8, <1>10, <2>6, <2>8 DEF Kept, Sound
<1>11. CASE RetryRecord /\ retrier.cur = l
  <2>1. ~Retrying(l)'
    BY <1>1, <1>11, RetrierDone DEF RetryRecord, Retrying
  <2>2. lease'[l].state = "SUBMITTED" /\ lease'[l].job = retrier.job
    BY <1>1, <1>11 DEF RetryRecord, LeaseRow
  <2>3. retrier.job # NoJob
    BY <1>11 DEF RetryRecord, CarriersHaveJobs
  <2>4. LiveJobs(l)' \subseteq {retrier.job}
    BY <1>8, <1>11, SameJobs, QuietLive DEF RetryRecord
  <2>5. RetrierShape(l)' /\ RowShape(l)' /\ KeepsJob(l)
    BY <2>1, <2>2, <2>3 DEF RetrierShape, RowShape, KeepsJob
  <2>6. Accounted(l)'
    BY <1>8, <1>11, <2>1, <2>2, <2>4 DEF Accounted, Claim
  <2> QED
    BY <1>8, <1>11, <2>5, <2>6 DEF Kept, Sound
<1>12. CASE RetryFails /\ retrier.cur = l
  <2>1. ~Retrying(l)'
    BY <1>1, <1>12, RetrierDone DEF RetryFails, Retrying
  <2>2. lease'[l].state \in {"FAILED", "CANCELED"} /\ lease'[l].job = lease[l].job
    <3>1. CASE lease[l].state = "RETRYING"
      BY <1>1, <1>12, <3>1, RowFields DEF RetryFails
    <3>2. CASE lease[l].state = "CANCELED"
      BY <1>12, <3>2 DEF RetryFails
    <3> QED
      BY <1>8, <1>12, <3>1, <3>2
  <2>3. LiveJobs(l) = {}
    BY <1>8, <1>12, FirstJob DEF RetryFails, Sound, RetrierShape, Retrying
  <2>4. LiveJobs(l)' = {}
    BY <1>12, <2>3, RefusalsAddNothing, SameJobs, QuietLive DEF RetryFails
  <2>5. RetrierShape(l)' /\ RowShape(l)' /\ KeepsJob(l) /\ Accounted(l)'
    BY <2>1, <2>2, <2>4 DEF RetrierShape, RowShape, KeepsJob, Accounted
  <2> QED
    BY <1>8, <1>12, <2>5 DEF Kept, Sound
<1> QED
  BY <1>3, <1>4, <1>5, <1>6, <1>7, <1>9, <1>10, <1>11, <1>12 DEF Retrier, RetryNext, RetryStep

-------------------------------------------------------------------------------
(* The invariant                                                            *)

OneAnswers ==
  /\ RetrierAtLease /\ CarriersHaveJobs /\ OnlySessions /\ Checked
  /\ \A l \in Leases : Sound(l)

LEMMA NextSound ==
  ASSUME TypeOK, Orderly, OneAnswers, [Next]_vars, NEW l \in Leases
  PROVE  Kept(l)
<1>1. Sound(l)
  BY DEF OneAnswers
<1>2. ~Renewer /\ ~Crash /\ ~ReconcileOnStartup /\ ~TakeOver
  BY NextOnlySessions DEF OneAnswers
<1>3. CASE Users
  BY <1>1, <1>3, UsersKeep, CreateNowKeeps DEF Users
<1>4. ASSUME NEW m \in Leases, Handler(m) PROVE Kept(l)
  BY <1>1, <1>4, CreatorKeeps, CommitsKeep DEF Handler, RequestStep, OneAnswers
<1> QED
  BY <1>1, <1>2, <1>3, <1>4, SubmitterKeeps, RetrierKeeps, CleanerKeeps, ReconcilerKeeps,
     ProberKeeps, ClusterKeeps, RegistrationKeeps
  DEF Next, OneAnswers

LEMMA NextOneAnswers ==
  ASSUME TypeOK, Orderly, OneAnswers, [Next]_vars
  PROVE  OneAnswers'
<1>1. \A l \in Leases : Kept(l)
  BY NextSound
<1>2. Checked'
  BY <1>1, NextChecks, JobNumbers DEF OneAnswers, Checked, Kept, KeepsJob
<1> QED
  BY <1>1, <1>2, RetrierStaysAtLease, NextCarriers, NextOnlySessions DEF OneAnswers, Kept

LEMMA InitOneAnswers == Init => OneAnswers
<1> SUFFICES ASSUME Init PROVE OneAnswers
  OBVIOUS
<1>1. RetrierAtLease /\ CarriersHaveJobs /\ OnlySessions /\ Checked
  BY DEF Init, StoreInit, AllIdle, NoRow, SubmitterIdle, RetrierIdle, NotCreating,
         ReconcilerIdle, RetrierAtLease, CarriersHaveJobs, OnlySessions, Sessions, Plain, Checked
<1>2. ASSUME NEW l \in Leases PROVE Sound(l)
  <2>1. ~Held(l) /\ submitter.cur # l /\ creating[l].job = NoJob /\ lease[l] = NoRow
    BY DEF Init, StoreInit, AllIdle, SubmitterIdle, RetrierIdle, NotCreating, Held, Creating,
           Submitting, Retrying, Leases, NoLease
  <2>2. LiveJobs(l) = {}
    BY DEF Init, StoreInit, LiveJobs, Live
  <2> QED
    BY <2>1, <2>2
    DEF Sound, CreatorShape, SubmitterShape, RetrierShape, RowShape, Accounted, Held, NoRow
<1> QED
  BY <1>1, <1>2 DEF OneAnswers

LEMMA OneAnswersAlways ==
  ASSUME Orderly
  PROVE  Spec => [](TypeOK /\ OneAnswers)
<1>1. Init => TypeOK /\ OneAnswers
  BY InitTypes, InitOneAnswers
<1>2. TypeOK /\ OneAnswers /\ [Next]_vars => (TypeOK /\ OneAnswers)'
  BY NextTypes, NextOneAnswers
<1> QED
  BY <1>1, <1>2, PTL DEF Spec

(* With a Slurm that answers and obeys, no worker or handler gives a       *)
(* booking a second job while the first still runs, however the seven      *)
(* coroutines interleave and whatever its owner does to it meanwhile.      *)
THEOREM NeverTwoLiveJobs ==
  ASSUME Orderly
  PROVE  Spec => []OneLiveJob
<1>1. TypeOK /\ OneAnswers => OneLiveJob
  <2> SUFFICES ASSUME OneAnswers, NEW l \in Leases PROVE Cardinality(LiveJobs(l)) <= 1
    BY DEF OneLiveJob
  <2>1. PICK j : LiveJobs(l) \subseteq {j}
    BY DEF OneAnswers, Sound, Accounted
  <2>2. CASE LiveJobs(l) = {}
    BY <2>2, FS_EmptySet
  <2>3. CASE LiveJobs(l) = {j}
    <3>1. Cardinality(LiveJobs(l)) = 1
      BY <2>3, FS_Singleton
    <3> QED
      BY <3>1
  <2> QED
    BY <2>1, <2>2, <2>3
<1> QED
  BY <1>1, OneAnswersAlways, PTL

-------------------------------------------------------------------------------
(* No job is lost                                                           *)

LiveAreOwned == \A j \in Jobs : job[j].st \in Live => job[j].for \in Leases

LEMMA NextLiveAreOwned ==
  ASSUME TypeOK, RetrierAtLease, [Next]_vars, LiveAreOwned
  PROVE  LiveAreOwned'
<1>1. JobTypeOK /\ JobTypeOK'
  BY NextTypes DEF TypeOK, StoreTypeOK, JobTypeOK
<1> DEFINE Goal == LiveAreOwned'
<1>2. ASSUME JobsQuiet PROVE Goal
  BY <1>2 DEF JobsQuiet, LiveAreOwned
<1>3. ASSUME NEW j \in Jobs, NEW l \in Leases, Sbatch(j, l) PROVE Goal
  BY <1>1, <1>3 DEF Sbatch, LiveAreOwned, JobTypeOK
<1>4. ASSUME NEW l \in Leases, SbatchRaises(l) PROVE Goal
  BY <1>2, <1>3, <1>4, SameJobs DEF SbatchRaises
<1>5. ASSUME NEW j \in Jobs \cup {NoJob}, Scancel(j) PROVE Goal
  BY <1>1, <1>2, <1>5, ScancelQuiet
<1>6. CASE UNCHANGED job
  BY <1>2, <1>6, SameJobs
<1>7. CASE Submitter
  BY <1>3, <1>4, <1>6, <1>7
  DEF Submitter, SubmitNext, SubmitScan, SubmitStep, SubmitSbatch, SubmitRecord, SubmitFails
<1>8. CASE Retrier
  <2>1. retrier.job \in Jobs \cup {NoJob}
    BY DEF TypeOK, RetrierTypeOK
  <2>2. ASSUME RetrySbatch \/ RetryFails PROVE Goal
    <3>1. retrier.cur \in Leases
      BY <2>2 DEF RetrySbatch, RetryFails, RetrierAtLease
    <3> QED
      BY <1>3, <1>4, <2>2, <3>1 DEF RetrySbatch, RetryFails
  <2> QED
    BY <1>5, <1>6, <1>8, <2>1, <2>2
    DEF Retrier, RetryNext, RetryScan, RetryStep, RetryClaim, RetrySkip, RetryCancel,
        RetryRecord, storeVars
<1>9. CASE Cleaner
  <2>1. ASSUME NEW a \in cleaner.pend, CleanupCancel(a) PROVE Goal
    <3>1. a.job \in Jobs \cup {NoJob}
      BY DEF TypeOK, CleanerTypeOK, CleanupAction
    <3> QED
      BY <1>5, <2>1, <3>1 DEF CleanupCancel
  <2> QED
    BY <1>6, <1>9, <2>1 DEF Cleaner, CleanupNext, CleanupScan, CleanupStep, CleanupWrite, storeVars
<1>10. \A l \in Leases : lease[l].job \in Jobs \cup {NoJob}
  BY DEF TypeOK, StoreTypeOK, LeaseRow
<1>11. CASE Renewer
  BY <1>3, <1>4, <1>5, <1>6, <1>10, <1>11
  DEF Renewer, RenewNext, RenewScan, RenewStep, RenewSbatch, RenewSbatchFails, RenewCancel,
      RenewWrite
<1>12. CASE Users
  BY <1>5, <1>6, <1>10, <1>12
  DEF Users, RequestArrives, CreatePlanned, CreateNow, UpdateLease, ExtendLease, ShortenLease,
      LockLease, UnlockLease, CancelLease
<1>13. ASSUME NEW l \in Leases, Handler(l) PROVE Goal
  BY <1>3, <1>4, <1>6, <1>13
  DEF Handler, RequestStep, CreateSbatch, CreateRecord, CreateFails, CommitEnd, CommitCancel
<1>14. CASE Cluster \/ \E j \in Jobs : Registration(j)
  BY <1>1, <1>6, <1>14
  DEF Cluster, ClusterNext, JobStarts, GivesUpRegistering, ModelLoads, JobExits, Killed, Live,
      Left, JobState, Registration, RegisterEndpoint, RegisterLease, LiveAreOwned, JobTypeOK
<1> QED
  BY <1>6, <1>7, <1>8, <1>9, <1>11, <1>12, <1>13, <1>14
  DEF Next, vars, storeVars, Reconciler, ReconcileNext, ReconcileScan, ReconcileStep,
      ReconcileQuery, ReconcileUnavailable, ReconcileApply, Prober, HealthNext, HealthProbe,
      HealthApply, Clock, Tick, Crash, ReconcileOnStartup, TakeOver

(* A live job is in its booking's row, on its way there, or that of a      *)
(* booking cancelled meanwhile.                                            *)
LEMMA AccountedJobs ==
  ASSUME TypeOK, OneAnswers, LiveAreOwned, NEW j \in Jobs, job[j].st \in Live
  PROVE  Recorded(j) \/ InFlight(j, job[j].for) \/ lease[job[j].for].state = "CANCELED"
<1> DEFINE l == job[j].for
<1>1. l \in Leases /\ j \in LiveJobs(l)
  BY DEF LiveAreOwned, LiveJobs
<1> HIDE DEF l
<1>2. Sound(l) /\ j # NoJob
  BY <1>1, JobNumbers DEF OneAnswers
<1>3. CASE Abandoned(l)
  BY <1>3 DEF Abandoned, l
<1>4. CASE j = Claim(l) /\ Creating(l)
  <2>1. creating[l].job = j /\ creating[l].step = "record"
    BY <1>2, <1>4 DEF Claim, Sound, CreatorShape
  <2> QED
    BY <2>1 DEF InFlight, l
<1>5. CASE j = Claim(l) /\ ~Creating(l) /\ Submitting(l)
  <2>1. submitter.cur = l /\ submitter.job = j
    BY <1>2, <1>5 DEF Claim
  <2> QED
    BY <2>1 DEF InFlight, l
<1>6. CASE j = Claim(l) /\ ~Creating(l) /\ ~Submitting(l) /\ Retrying(l)
  <2>1. retrier.cur = l /\ retrier.job = j
    BY <1>6 DEF Claim, Retrying
  <2>2. retrier.step = "record" \/ lease[l].job = j
    BY <1>2, <1>6, <2>1 DEF Sound, RetrierShape
  <2> QED
    BY <2>1, <2>2 DEF InFlight, Recorded, l
<1>7. CASE j = Claim(l) /\ ~Held(l)
  BY <1>7 DEF Claim, Held, Recorded, l
<1> QED
  BY <1>1, <1>2, <1>3, <1>4, <1>5, <1>6, <1>7 DEF Sound, Accounted, Held

LEMMA LiveAreOwnedAlways ==
  ASSUME Orderly
  PROVE  Spec => [](TypeOK /\ OneAnswers /\ LiveAreOwned)
<1> DEFINE IInv == TypeOK /\ OneAnswers /\ LiveAreOwned
<1>1. Init => IInv
  <2>1. Init => LiveAreOwned
    BY DEF Init, StoreInit, LiveAreOwned, Live
  <2> QED
    BY <2>1, InitTypes, InitOneAnswers
<1>2. IInv /\ [Next]_vars => IInv'
  BY NextTypes, NextOneAnswers, NextLiveAreOwned DEF OneAnswers
<1> QED
  BY <1>1, <1>2, PTL DEF Spec

(* Under the same conditions, the only jobs that the table of bookings     *)
(* does not lead to are those of bookings cancelled while their submission *)
(* was in flight: "state changed during submit, skipping".                 *)
THEOREM OnlyCancellationLosesJobs ==
  ASSUME Orderly
  PROVE  Spec => []OnlyCanceledLeasesLoseJobs
<1>1. TypeOK /\ OneAnswers /\ LiveAreOwned => OnlyCanceledLeasesLoseJobs
  BY AccountedJobs DEF OnlyCanceledLeasesLoseJobs
<1> QED
  BY <1>1, LiveAreOwnedAlways, PTL

-------------------------------------------------------------------------------
(* Where nobody cancels, no job is lost at all                              *)

NoCancellations ==
  \A l \in Leases : lease[l].state # "CANCELED" /\ request[l].op \notin {"cancel", "stop"}

LEMMA NextNotCanceled ==
  ASSUME TypeOK, [Next]_vars, {"cancel", "stop"} \cap Ops = {}, NoCancellations,
         NEW l \in Leases
  PROVE  lease'[l].state # "CANCELED"
<1>1. lease \in [Leases -> LeaseRow] /\ lease[l] \in LeaseRow /\ lease[l].state # "CANCELED"
  BY DEF TypeOK, StoreTypeOK, NoCancellations
<1> DEFINE Goal == lease'[l].state # "CANCELED"
<1>2. CASE lease'[l].state = lease[l].state
  BY <1>1, <1>2
<1>3. CASE Submitter
  <2>1. CASE SubmitScan
    BY <1>1, <2>1, RowFields DEF SubmitScan
  <2>2. ASSUME NEW m \in Leases, SubmitRecord(m) PROVE Goal
    BY <1>1, <2>2 DEF SubmitRecord, LeaseRow
  <2>3. ASSUME NEW m \in Leases, SubmitFails(m) PROVE Goal
    BY <1>1, <2>3, RowFields DEF SubmitFails
  <2> QED
    BY <1>2, <1>3, <2>1, <2>2, <2>3 DEF Submitter, SubmitNext, SubmitStep, SubmitSbatch
<1>4. CASE Retrier
  <2>1. CASE RetryScan
    <3>1. PICK b, e : lease'[l] \in {lease[l], [lease[l] EXCEPT !.begin = b, !.end = e]}
      BY <2>1 DEF RetryScan
    <3>2. [lease[l] EXCEPT !.begin = b, !.end = e].state = lease[l].state
      BY <1>1, RowFields
    <3> QED
      BY <1>2, <3>1, <3>2
  <2>2. ASSUME NEW m \in Leases, RetryClaim(m) PROVE Goal
    BY <1>1, <2>2 DEF RetryClaim, LeaseRow
  <2>3. CASE RetryRecord
    BY <1>1, <2>3 DEF RetryRecord, LeaseRow
  <2>4. CASE RetryFails
    BY <1>1, <2>4, RowFields DEF RetryFails
  <2> QED
    BY <1>2, <1>4, <2>1, <2>2, <2>3, <2>4
    DEF Retrier, RetryNext, RetryStep, RetrySkip, RetryCancel, RetrySbatch, storeVars
<1>5. [lease[l] EXCEPT !.state = "ENDED"].state = "ENDED"
  BY <1>1, RowFields
<1>6. CASE Cleaner
  BY <1>1, <1>5, <1>6
  DEF Cleaner, CleanupNext, CleanupScan, CleanupStep, CleanupCancel, CleanupWrite, storeVars
<1>7. CASE Reconciler
  <2>1. ASSUME NEW checks, NEW expiry, NEW gone, NEW at,
               ReconcileWrite(checks, expiry, gone, at)
        PROVE  Goal
    BY <1>1, <1>5, <2>1, RowFields DEF ReconcileWrite
  <2> QED
    BY <1>2, <1>7, <2>1
    DEF Reconciler, ReconcileNext, ReconcileScan, ReconcileStep, ReconcileQuery,
        ReconcileUnavailable, ReconcileApply, storeVars
<1>8. CASE Prober
  <2>1. CheckedLease(l).state # "CANCELED"
    BY <1>1, RowFields DEF CheckedLease
  <2> QED
    BY <1>1, <1>8, <2>1 DEF Prober, HealthNext, HealthProbe, HealthApply, storeVars
<1>9. CASE Renewer
  <2>1. CASE RenewWrite
    BY <1>1, <2>1 DEF RenewWrite, LeaseRow
  <2>2. CASE RenewScan
    <3>1. [lease[l] EXCEPT !.drainingSince = now].state = lease[l].state
      BY <1>1, RowFields
    <3> QED
      BY <1>1, <2>2, <3>1, ScannedRows
  <2> QED
    BY <1>2, <1>9, <2>1, <2>2
    DEF Renewer, RenewNext, RenewStep, RenewSbatch, RenewSbatchFails, RenewCancel
<1>10. CASE Users
  <2>1. ASSUME NEW m \in Leases, CreatePlanned(m) PROVE Goal
    BY <1>1, <2>1 DEF CreatePlanned, NoRow
  <2>2. ASSUME NEW m \in Leases, CreateNow(m) PROVE Goal
    BY <1>1, <2>2 DEF CreateNow, NoRow
  <2>3. ASSUME NEW m \in Leases, UpdateLease(m) PROVE Goal
    BY <1>1, <2>3 DEF UpdateLease, LeaseRow
  <2>4. ASSUME NEW m \in Leases, ExtendLease(m) \/ ShortenLease(m) PROVE Goal
    <3>1. ASSUME NEW e, SetEnd(m, e) PROVE Goal
      BY <1>1, <3>1 DEF SetEnd, LeaseRow
    <3> QED
      BY <2>4, <3>1 DEF ExtendLease, ShortenLease
  <2>5. ASSUME NEW m \in Leases, LockLease(m) PROVE Goal
    <3>1. PICK x, y : lease' = [lease EXCEPT ![m].locked = TRUE, ![m].mode = x, ![m].retries = y]
      BY <2>5 DEF LockLease
    <3> QED
      BY <1>1, <3>1 DEF LeaseRow
  <2>6. ASSUME NEW m \in Leases, UnlockLease(m) PROVE Goal
    BY <1>1, <2>6 DEF UnlockLease, LeaseRow
  <2>7. \A m \in Leases : ~CancelLease(m)
    BY DEF CancelLease
  <2> QED
    BY <1>10, <2>1, <2>2, <2>3, <2>4, <2>5, <2>6, <2>7 DEF Users, RequestArrives
<1>11. ASSUME NEW m \in Leases, Handler(m) PROVE Goal
  <2>1. CASE CreateSbatch(m)
    BY <1>2, <2>1 DEF CreateSbatch
  <2>2. CASE CreateRecord(m) \/ CommitEnd(m)
    BY <1>1, <2>2 DEF CreateRecord, CommitEnd, LeaseRow
  <2>3. CASE CreateFails(m)
    BY <1>1, <2>3, RowFields DEF CreateFails
  <2>4. ~CommitCancel(m)
    BY DEF CommitCancel, NoCancellations
  <2> QED
    BY <1>11, <2>1, <2>2, <2>3, <2>4 DEF Handler, RequestStep
<1>12. ASSUME NEW j \in Jobs, Registration(j) PROVE Goal
  <2>1. CASE RegisterLease(j)
    BY <1>1, <2>1, RowFields DEF RegisterLease
  <2> QED
    BY <1>2, <1>12, <2>1 DEF Registration, RegisterEndpoint
<1>13. CASE ReconcileOnStartup
  BY <1>1, <1>13, RowFields DEF ReconcileOnStartup, RestartedLease
<1> QED
  BY <1>2, <1>3, <1>4, <1>6, <1>7, <1>8, <1>9, <1>10, <1>11, <1>12, <1>13
  DEF Next, vars, storeVars, Clock, Tick, Cluster, ClusterNext, JobStarts, GivesUpRegistering,
      ModelLoads, JobExits, Crash, TakeOver

LEMMA NextNoCancellations ==
  ASSUME TypeOK, [Next]_vars, {"cancel", "stop"} \cap Ops = {}, NoCancellations
  PROVE  NoCancellations'
<1> SUFFICES ASSUME NEW l \in Leases PROVE request'[l].op \notin {"cancel", "stop"}
  BY NextNotCanceled DEF NoCancellations
<1>1. request \in [Leases -> [op : {"none", "extend", "cancel", "stop"}, job : Jobs \cup {NoJob},
                              end : 0..MaxEnd, from : LeaseState]]
  BY DEF TypeOK, RequestTypeOK
<1>2. request[l].op \notin {"cancel", "stop"}
  BY DEF NoCancellations
<1>3. CASE UNCHANGED request
  BY <1>2, <1>3
<1>4. ASSUME NEW m \in Leases, NEW e, SetEnd(m, e) PROVE request'[l].op \notin {"cancel", "stop"}
  BY <1>1, <1>2, <1>4 DEF SetEnd, NoRequest
<1>5. ASSUME NEW m \in Leases, Done(m) PROVE request'[l].op \notin {"cancel", "stop"}
  BY <1>1, <1>2, <1>5 DEF Done, NoRequest
<1>6. \A m \in Leases : ~CancelLease(m)
  BY DEF CancelLease
<1>7. CASE Users
  BY <1>3, <1>4, <1>6, <1>7
  DEF Users, RequestArrives, CreatePlanned, CreateNow, UpdateLease, ExtendLease, ShortenLease,
      LockLease, UnlockLease
<1>8. ASSUME NEW m \in Leases, Handler(m) PROVE request'[l].op \notin {"cancel", "stop"}
  BY <1>3, <1>5, <1>8
  DEF Handler, RequestStep, CreateSbatch, CreateRecord, CreateFails, CommitEnd, CommitCancel
<1>9. CASE Crash
  BY <1>9 DEF Crash, NoRequest
<1> QED
  BY <1>3, <1>7, <1>8, <1>9
  DEF Next, vars, workerVars, handlers, Submitter, Retrier, Cleaner, Reconciler, Prober,
      Renewer, Registration, Clock, Cluster, ReconcileOnStartup, TakeOver

(* Where besides nobody cancels or stops a booking, every job that runs    *)
(* can be found from the table of bookings, or its number is on the way    *)
(* there: nothing holds GPUs behind the scheduler's back.                  *)
THEOREM NoJobIsLost ==
  ASSUME Orderly, {"cancel", "stop"} \cap Ops = {}
  PROVE  Spec => []EveryLiveJobIsKnown
<1>1. Init => TypeOK /\ NoCancellations
  <2>1. Init => NoCancellations
    BY DEF Init, StoreInit, AllIdle, NoRow, NoRequest, NoCancellations
  <2> QED
    BY <2>1, InitTypes
<1>2. TypeOK /\ NoCancellations /\ [Next]_vars => (TypeOK /\ NoCancellations)'
  BY NextTypes, NextNoCancellations
<1>3. TypeOK /\ OneAnswers /\ LiveAreOwned /\ NoCancellations => EveryLiveJobIsKnown
  <2> SUFFICES ASSUME TypeOK, OneAnswers, LiveAreOwned, NoCancellations,
                      NEW j \in Jobs, job[j].st \in Live
               PROVE  Recorded(j) \/ InFlight(j, job[j].for)
    BY DEF EveryLiveJobIsKnown
  <2>1. job[j].for \in Leases
    BY DEF LiveAreOwned
  <2> QED
    BY <2>1, AccountedJobs DEF NoCancellations
<1> QED
  BY <1>1, <1>2, <1>3, LiveAreOwnedAlways, PTL DEF Spec

-------------------------------------------------------------------------------
(***************************************************************************)
(* The workers implement LeaseContract: whatever a step does to the tables *)
(* and to Slurm, each booking makes one of the moves of the contract, or   *)
(* none.                                                                   *)
(***************************************************************************)
(* A booking as the contract sees it                                        *)

Occupied(l) == LiveJobs(l) # {}

View(l) == [phase |-> Phase(l), asked |-> Asked(l), held |-> Occupied(l),
            tries |-> lease[l].retries]

OpenStates == Active \cup {"FAILED", "RETRYING"}

SameTries(l) == lease'[l].retries = lease[l].retries

(* The moves of the contract. *)
Rests(l) ==
  /\ Phase(l)' = Phase(l) /\ (Asked(l)' <=> Asked(l)) /\ SameTries(l)
  /\ Occupied(l)' => Occupied(l)
Books(l) ==
  Phase(l) = "none" /\ Phase(l)' = "booked" /\ (Asked(l)' <=> Asked(l)) /\ SameTries(l)
Asks(l) ==
  Phase(l) \in {"none", "booked"} /\ Phase(l)' = "open" /\ Asked(l)' /\ SameTries(l)
Retries(l) ==
  /\ Phase(l) = "open" /\ Phase(l)' = "open" /\ ~Asked(l) /\ Asked(l)'
  /\ lease[l].retries < MaxRetries /\ lease'[l].retries = lease[l].retries + 1
Serves(l) ==
  /\ Phase(l) = "open" /\ Phase(l)' = "open" /\ ~Asked(l) /\ ~Asked(l)'
  /\ lease'[l].retries = 0
Refused(l) == Phase(l)' = Phase(l) /\ Asked(l) /\ ~Asked(l)' /\ SameTries(l)
Accepted(l) == Refused(l) /\ ~Occupied(l) /\ Occupied(l)'
Closes(l) ==
  /\ Phase(l) \in {"booked", "open"} /\ Phase(l)' = "closed"
  /\ (Asked(l)' <=> Asked(l)) /\ SameTries(l)

Change(l) ==
  \/ Rests(l) \/ Accepted(l)
  \/ /\ Occupied(l)' <=> Occupied(l)
     /\ Books(l) \/ Asks(l) \/ Retries(l) \/ Serves(l) \/ Refused(l) \/ Closes(l)

LEMMA ViewType ==
  ASSUME TypeOK, RetriesAreBounded, NEW l \in Leases
  PROVE  View(l) \in Contract!Contracts
<1>1. lease[l].retries \in 0..MaxRetries
  BY Bounds, RetryConstants DEF TypeOK, StoreTypeOK, LeaseRow, RetriesAreBounded
<1>2. Phase(l) \in Contract!Phases
  BY DEF Phase, Contract!Phases
<1>3. Asked(l) \in BOOLEAN /\ Occupied(l) \in BOOLEAN
  BY DEF Asked, Occupied
<1> QED
  BY <1>1, <1>2, <1>3 DEF View, Contract!Contracts

(* Two contracts differ as their fields do. *)
LEMMA Fields ==
  ASSUME NEW c \in Contract!Contracts, NEW d \in Contract!Contracts
  PROVE  /\ d.phase = c.phase /\ d.asked = c.asked /\ d.held = c.held /\ d.tries = c.tries
            => d = c
         /\ d.phase = "booked" /\ d.asked = c.asked /\ d.held = c.held /\ d.tries = c.tries
            => d = [c EXCEPT !.phase = "booked"]
         /\ d.phase = "closed" /\ d.asked = c.asked /\ d.held = c.held /\ d.tries = c.tries
            => d = [c EXCEPT !.phase = "closed"]
         /\ d.phase = "open" /\ d.asked /\ d.held = c.held /\ d.tries = c.tries
            => d = [c EXCEPT !.phase = "open", !.asked = TRUE]
         /\ d.phase = c.phase /\ d.asked /\ d.held = c.held /\ d.tries = c.tries + 1
            => d = [c EXCEPT !.asked = TRUE, !.tries = @ + 1]
         /\ d.phase = c.phase /\ d.asked = c.asked /\ d.held = c.held /\ d.tries = 0
            => d = [c EXCEPT !.tries = 0]
         /\ d.phase = c.phase /\ ~d.asked /\ d.held /\ d.tries = c.tries
            => d = [c EXCEPT !.asked = FALSE, !.held = TRUE]
         /\ d.phase = c.phase /\ ~d.asked /\ d.held = c.held /\ d.tries = c.tries
            => d = [c EXCEPT !.asked = FALSE]
         /\ d.phase = c.phase /\ d.asked = c.asked /\ ~d.held /\ d.tries = c.tries
            => d = [c EXCEPT !.held = FALSE]
<1>1. c \in [phase : Contract!Phases, asked : BOOLEAN, held : BOOLEAN, tries : 0..MaxRetries]
  BY DEF Contract!Contracts
<1>2. d \in [phase : Contract!Phases, asked : BOOLEAN, held : BOOLEAN, tries : 0..MaxRetries]
  BY DEF Contract!Contracts
<1>3. /\ d.phase = c.phase /\ d.asked = c.asked /\ d.held = c.held /\ d.tries = c.tries
         => d = c
      /\ d.phase = "booked" /\ d.asked = c.asked /\ d.held = c.held /\ d.tries = c.tries
         => d = [c EXCEPT !.phase = "booked"]
      /\ d.phase = "closed" /\ d.asked = c.asked /\ d.held = c.held /\ d.tries = c.tries
         => d = [c EXCEPT !.phase = "closed"]
  BY <1>1, <1>2
<1>4. /\ d.phase = "open" /\ d.asked /\ d.held = c.held /\ d.tries = c.tries
         => d = [c EXCEPT !.phase = "open", !.asked = TRUE]
      /\ d.phase = c.phase /\ d.asked /\ d.held = c.held /\ d.tries = c.tries + 1
         => d = [c EXCEPT !.asked = TRUE, !.tries = @ + 1]
      /\ d.phase = c.phase /\ d.asked = c.asked /\ d.held = c.held /\ d.tries = 0
         => d = [c EXCEPT !.tries = 0]
  BY <1>1, <1>2
<1>5. /\ d.phase = c.phase /\ ~d.asked /\ d.held /\ d.tries = c.tries
         => d = [c EXCEPT !.asked = FALSE, !.held = TRUE]
      /\ d.phase = c.phase /\ ~d.asked /\ d.held = c.held /\ d.tries = c.tries
         => d = [c EXCEPT !.asked = FALSE]
      /\ d.phase = c.phase /\ d.asked = c.asked /\ ~d.held /\ d.tries = c.tries
         => d = [c EXCEPT !.held = FALSE]
  BY <1>1, <1>2
<1> QED
  BY <1>3, <1>4, <1>5

(* The steps of the contract. *)
LEMMA Forms ==
  ASSUME NEW c, NEW d,
         \/ d = c \/ d = [c EXCEPT !.held = FALSE]
         \/ c.phase = "none" /\ d = [c EXCEPT !.phase = "booked"]
         \/ c.phase \in {"none", "booked"} /\ d = [c EXCEPT !.phase = "open", !.asked = TRUE]
         \/ /\ c.phase = "open" /\ ~c.asked /\ c.tries < MaxRetries
            /\ d = [c EXCEPT !.asked = TRUE, !.tries = @ + 1]
         \/ c.phase = "open" /\ ~c.asked /\ d = [c EXCEPT !.tries = 0]
         \/ c.asked /\ ~c.held /\ d = [c EXCEPT !.asked = FALSE, !.held = TRUE]
         \/ c.asked /\ d = [c EXCEPT !.asked = FALSE]
         \/ c.phase \in {"booked", "open"} /\ d = [c EXCEPT !.phase = "closed"]
  PROVE  d \in Contract!Steps(c)
<1>1. d = c \/ d = [c EXCEPT !.held = FALSE] => d \in Contract!Steps(c)
  BY DEF Contract!Steps, Contract!Release
<1>2. c.phase = "none" /\ d = [c EXCEPT !.phase = "booked"] => d \in Contract!Steps(c)
  BY DEF Contract!Steps, Contract!Book
<1>3. c.phase \in {"none", "booked"} /\ d = [c EXCEPT !.phase = "open", !.asked = TRUE]
      => d \in Contract!Steps(c)
  BY DEF Contract!Steps, Contract!Book, Contract!Ask
<1>4. /\ c.phase = "open" /\ ~c.asked /\ c.tries < MaxRetries
      /\ d = [c EXCEPT !.asked = TRUE, !.tries = @ + 1]
      => d \in Contract!Steps(c)
  BY DEF Contract!Steps, Contract!Retry
<1>5. c.phase = "open" /\ ~c.asked /\ d = [c EXCEPT !.tries = 0] => d \in Contract!Steps(c)
  BY DEF Contract!Steps, Contract!Serve
<1>6. c.asked /\ ~c.held /\ d = [c EXCEPT !.asked = FALSE, !.held = TRUE]
      => d \in Contract!Steps(c)
  BY DEF Contract!Steps, Contract!Accept
<1>7. c.asked /\ d = [c EXCEPT !.asked = FALSE] => d \in Contract!Steps(c)
  BY DEF Contract!Steps, Contract!Refuse
<1>8. c.phase \in {"booked", "open"} /\ d = [c EXCEPT !.phase = "closed"]
      => d \in Contract!Steps(c)
  BY DEF Contract!Steps, Contract!Close
<1> QED
  BY <1>1, <1>2, <1>3, <1>4, <1>5, <1>6, <1>7, <1>8

(* Each of the moves is a step of the contract. *)
LEMMA ChangesAreSteps ==
  ASSUME TypeOK, TypeOK', RetriesAreBounded, RetriesAreBounded', NEW l \in Leases, Change(l)
  PROVE  View(l)' \in Contract!Contracts /\ View(l)' \in Contract!Steps(View(l))
<1> DEFINE c == View(l)
           d == View(l)'
<1>1. c \in Contract!Contracts
  BY ViewType
<1>2. d \in Contract!Contracts
  <2>1. lease'[l].retries \in 0..MaxRetries
    BY Bounds, RetryConstants DEF TypeOK, StoreTypeOK, LeaseRow, RetriesAreBounded
  <2>2. Phase(l)' \in Contract!Phases
    BY DEF Phase, Contract!Phases
  <2>3. Asked(l)' \in BOOLEAN /\ Occupied(l)' \in BOOLEAN
    BY DEF Asked, Occupied
  <2> QED
    BY <2>1, <2>2, <2>3 DEF View, Contract!Contracts
<1>3. c.phase = Phase(l) /\ c.asked = Asked(l) /\ c.held = Occupied(l) /\ c.tries = lease[l].retries
  BY DEF View
<1>4. /\ d.phase = Phase(l)' /\ d.asked = Asked(l)' /\ d.held = Occupied(l)'
      /\ d.tries = lease'[l].retries
  BY DEF View
<1> HIDE DEF c, d
<1>5. {Asked(l), Asked(l)', Occupied(l), Occupied(l)'} \subseteq BOOLEAN
  BY DEF Asked, Occupied
<1>6. ASSUME Rests(l) PROVE d = c \/ d = [c EXCEPT !.held = FALSE]
  <2>1. d.phase = c.phase /\ d.asked = c.asked /\ d.tries = c.tries
    BY <1>3, <1>4, <1>5, <1>6 DEF Rests, SameTries
  <2>2. d.held = c.held \/ ~d.held
    BY <1>3, <1>4, <1>5, <1>6 DEF Rests
  <2> QED
    BY <1>1, <1>2, <2>1, <2>2, Fields
<1>7. ASSUME Accepted(l)
      PROVE  c.asked /\ ~c.held /\ d = [c EXCEPT !.asked = FALSE, !.held = TRUE]
  <2>1. d.phase = c.phase /\ c.asked /\ ~d.asked /\ ~c.held /\ d.held /\ d.tries = c.tries
    BY <1>3, <1>4, <1>7 DEF Accepted, Refused, SameTries
  <2> QED
    BY <1>1, <1>2, <2>1, Fields
<1>8. ASSUME Occupied(l)' <=> Occupied(l) PROVE d.held = c.held
  BY <1>3, <1>4, <1>5, <1>8
<1>9. ASSUME d.held = c.held, Books(l)
      PROVE  c.phase = "none" /\ d = [c EXCEPT !.phase = "booked"]
  <2>1. c.phase = "none" /\ d.phase = "booked" /\ d.asked = c.asked /\ d.tries = c.tries
    BY <1>3, <1>4, <1>5, <1>9 DEF Books, SameTries
  <2> QED
    BY <1>1, <1>2, <1>9, <2>1, Fields
<1>10. ASSUME d.held = c.held, Asks(l)
      PROVE  c.phase \in {"none", "booked"} /\ d = [c EXCEPT !.phase = "open", !.asked = TRUE]
  <2>1. c.phase \in {"none", "booked"} /\ d.phase = "open" /\ d.asked /\ d.tries = c.tries
    BY <1>3, <1>4, <1>5, <1>10 DEF Asks, SameTries
  <2> QED
    BY <1>1, <1>2, <1>10, <2>1, Fields
<1>11. ASSUME d.held = c.held, Retries(l)
      PROVE  /\ c.phase = "open" /\ ~c.asked /\ c.tries < MaxRetries
             /\ d = [c EXCEPT !.asked = TRUE, !.tries = @ + 1]
  <2>1. /\ c.phase = "open" /\ d.phase = c.phase /\ ~c.asked /\ d.asked
        /\ c.tries < MaxRetries /\ d.tries = c.tries + 1
    BY <1>3, <1>4, <1>5, <1>11 DEF Retries
  <2> QED
    BY <1>1, <1>2, <1>11, <2>1, Fields
<1>12. ASSUME d.held = c.held, Serves(l)
      PROVE  c.phase = "open" /\ ~c.asked /\ d = [c EXCEPT !.tries = 0]
  <2>1. c.phase = "open" /\ d.phase = c.phase /\ ~c.asked /\ d.asked = c.asked /\ d.tries = 0
    BY <1>3, <1>4, <1>5, <1>12 DEF Serves
  <2> QED
    BY <1>1, <1>2, <1>12, <2>1, Fields
<1>13. ASSUME d.held = c.held, Refused(l)
      PROVE  c.asked /\ d = [c EXCEPT !.asked = FALSE]
  <2>1. d.phase = c.phase /\ c.asked /\ ~d.asked /\ d.tries = c.tries
    BY <1>3, <1>4, <1>5, <1>13 DEF Refused, SameTries
  <2> QED
    BY <1>1, <1>2, <1>13, <2>1, Fields
<1>14. ASSUME d.held = c.held, Closes(l)
      PROVE  c.phase \in {"booked", "open"} /\ d = [c EXCEPT !.phase = "closed"]
  <2>1. /\ c.phase \in {"booked", "open"} /\ d.phase = "closed" /\ d.asked = c.asked
        /\ d.tries = c.tries
    BY <1>3, <1>4, <1>5, <1>14 DEF Closes, SameTries
  <2> QED
    BY <1>1, <1>2, <1>14, <2>1, Fields
<1>15. d \in Contract!Steps(c)
  BY <1>6, <1>7, <1>8, <1>9, <1>10, <1>11, <1>12, <1>13, <1>14, Forms DEF Change
<1> QED
  BY <1>2, <1>15 DEF c, d

-------------------------------------------------------------------------------
(* Steps of the others: they do not touch what is asked for                 *)

LEMMA RowTries ==
  ASSUME NEW r \in LeaseRow
  PROVE  /\ \A at : Fail(r, at).retries = r.retries
         /\ \A s : [r EXCEPT !.state = s].retries = r.retries
         /\ \A b, e : [r EXCEPT !.begin = b, !.end = e].retries = r.retries
<1>1. \A at : Fail(r, at).retries = r.retries
  BY DEF LeaseRow, Fail
<1>2. \A s : [r EXCEPT !.state = s].retries = r.retries
  BY DEF LeaseRow
<1>3. \A b, e : [r EXCEPT !.begin = b, !.end = e].retries = r.retries
  BY DEF LeaseRow
<1> QED
  BY <1>1, <1>2, <1>3

(* What a step of theirs may do to the row of a booking, or to its jobs. *)
SameRow(l) == lease'[l].state = lease[l].state /\ SameTries(l)
Turns(l) ==
  \/ /\ lease[l].state \in OpenStates /\ lease'[l].state \in OpenStates
     /\ SameTries(l) \/ (~Held(l) /\ lease'[l].retries = 0)
  \/ /\ lease[l].state \in OpenStates \cup {"PLANNED"}
     /\ lease'[l].state \in Finished /\ SameTries(l)
  \/ lease[l].state = "NONE" /\ lease'[l].state = "PLANNED" /\ SameTries(l)

LEMMA OthersChange ==
  ASSUME NEW l \in Leases, Sound(l), SameView(l),
         \/ SameRow(l) /\ LiveJobs(l)' \subseteq LiveJobs(l)
         \/ Turns(l) /\ LiveJobs(l)' = LiveJobs(l)
  PROVE  Change(l)
<1>1. Asked(l)' <=> Asked(l)
  BY DEF SameView, Asked
<1>2. l \in submitter'.todo <=> l \in submitter.todo
  BY DEF SameView
<1>3. CASE SameRow(l) /\ LiveJobs(l)' \subseteq LiveJobs(l)
  <2>1. Phase(l)' = Phase(l)
    BY <1>2, <1>3 DEF SameRow, Phase
  <2> QED
    BY <1>1, <1>3, <2>1 DEF Change, Rests, SameRow, Occupied
<1>4. CASE Turns(l) /\ LiveJobs(l)' = LiveJobs(l)
  <2>1. Occupied(l)' <=> Occupied(l)
    BY <1>4 DEF Occupied
  <2>2. CASE lease[l].state \in OpenStates /\ lease'[l].state \in OpenStates
    <3>1. Phase(l) = "open" /\ Phase(l)' = "open"
      BY <2>2 DEF OpenStates, Active, Finished, Phase
    <3>2. ~Held(l) => ~Asked(l)
      BY DEF Sound, SubmitterShape, Held, Creating, Submitting, Retrying, Asked
    <3>3. SameTries(l) \/ (~Held(l) /\ lease'[l].retries = 0)
      BY <1>4, <2>2 DEF Turns, OpenStates, Active, Finished
    <3> QED
      BY <1>1, <2>1, <3>1, <3>2, <3>3 DEF Change, Rests, Serves
  <2>3. CASE /\ lease[l].state \in OpenStates \cup {"PLANNED"}
             /\ lease'[l].state \in Finished /\ SameTries(l)
    <3>1. Phase(l) \in {"booked", "open"} /\ Phase(l)' = "closed"
      BY <2>3 DEF OpenStates, Active, Finished, Phase
    <3> QED
      BY <1>1, <2>1, <2>3, <3>1 DEF Change, Closes
  <2>4. CASE lease[l].state = "NONE" /\ lease'[l].state = "PLANNED" /\ SameTries(l)
    <3>1. l \notin submitter'.todo
      BY <1>2, <2>4 DEF Sound, SubmitterShape, Submitting
    <3>2. Phase(l) = "none" /\ Phase(l)' = "booked"
      BY <2>4, <3>1 DEF Finished, Phase
    <3> QED
      BY <1>1, <2>1, <2>4, <3>2 DEF Change, Books
  <2> QED
    BY <1>4, <2>2, <2>3, <2>4 DEF Turns
<1> QED
  BY <1>3, <1>4

LEMMA RowTurns ==
  ASSUME NEW l \in Leases,
         \/ lease'[l] = lease[l]
         \/ /\ lease[l].state \in OpenStates /\ lease'[l].state \in OpenStates
            /\ SameTries(l) \/ (~Held(l) /\ lease'[l].retries = 0)
         \/ /\ lease[l].state \in OpenStates \cup {"PLANNED"}
            /\ lease'[l].state \in Finished /\ SameTries(l)
  PROVE  SameRow(l) \/ Turns(l)
  BY DEF SameRow, SameTries, Turns

LEMMA BystandersChange ==
  ASSUME NEW l \in Leases, Sound(l), UNCHANGED <<submitter, retrier, creating>>,
         \/ SameRow(l) /\ JobsQuiet
         \/ Turns(l) /\ UNCHANGED job
  PROVE  Change(l)
<1>1. SameView(l)
  BY DEF SameView
<1>2. UNCHANGED job => LiveJobs(l)' = LiveJobs(l)
  BY DEF LiveJobs
<1> QED
  BY <1>1, <1>2, QuietLive, OthersChange

LEMMA CleanerChanges ==
  ASSUME TypeOK, Cleaner, NEW l \in Leases, Sound(l)
  PROVE  Change(l)
<1>1. lease \in [Leases -> LeaseRow] /\ lease[l] \in LeaseRow /\ JobTypeOK
  BY DEF TypeOK, StoreTypeOK, JobTypeOK
<1>2. UNCHANGED <<submitter, retrier, creating>>
  BY DEF Cleaner, handlers
<1>3. ASSUME NEW a \in cleaner.pend, CleanupCancel(a) PROVE SameRow(l) /\ JobsQuiet
  <2>1. a.job \in Jobs \cup {NoJob}
    BY DEF TypeOK, CleanerTypeOK, CleanupAction
  <2> QED
    BY <1>1, <1>3, <2>1, ScancelQuiet DEF CleanupCancel, SameRow, SameTries
<1>4. ASSUME CleanupScan PROVE SameRow(l) /\ JobsQuiet
  BY <1>4, SameJobs DEF CleanupScan, storeVars, SameRow, SameTries
<1>5. ASSUME CleanupWrite PROVE SameRow(l) \/ Turns(l)
  <2>1. \/ lease'[l] = lease[l]
        \/ /\ lease[l].state \in {"RUNNING", "FAILED"}
           /\ lease'[l] = [lease[l] EXCEPT !.state = "ENDED"]
    BY <1>5 DEF CleanupWrite
  <2>2. [lease[l] EXCEPT !.state = "ENDED"].state = "ENDED"
        /\ [lease[l] EXCEPT !.state = "ENDED"].retries = lease[l].retries
    BY <1>1, RowFields, RowTries
  <2> QED
    BY <2>1, <2>2 DEF SameRow, Turns, SameTries, OpenStates, Active, Finished
<1> QED
  BY <1>2, <1>3, <1>4, <1>5, SameJobs, BystandersChange
  DEF Cleaner, CleanupNext, CleanupStep, CleanupWrite

LEMMA ReconcilerChanges ==
  ASSUME TypeOK, Reconciler, NEW l \in Leases, Sound(l)
  PROVE  Change(l)
<1>1. lease \in [Leases -> LeaseRow] /\ lease[l] \in LeaseRow
  BY DEF TypeOK, StoreTypeOK
<1>2. UNCHANGED <<submitter, retrier, creating>>
  BY DEF Reconciler, handlers
<1>3. UNCHANGED job
  BY DEF Reconciler, ReconcileNext, ReconcileScan, ReconcileStep, ReconcileQuery,
         ReconcileUnavailable, ReconcileApply, storeVars
<1>4. ASSUME NEW checks, NEW expiry, NEW gone, NEW at,
             ReconcileWrite(checks, expiry, gone, at)
      PROVE  SameRow(l) \/ Turns(l)
  <2>1. \/ lease'[l] = lease[l]
        \/ lease[l].state = "FAILED" /\ lease'[l] = [lease[l] EXCEPT !.state = "ENDED"]
        \/ lease[l].state \in Active /\ lease'[l] = Fail(lease[l], at)
    BY <1>4 DEF ReconcileWrite, Lost
  <2>2. /\ [lease[l] EXCEPT !.state = "ENDED"].state = "ENDED"
        /\ [lease[l] EXCEPT !.state = "ENDED"].retries = lease[l].retries
        /\ Fail(lease[l], at).state = "FAILED" /\ Fail(lease[l], at).retries = lease[l].retries
    BY <1>1, RowFields, RowTries
  <2>3. \/ lease'[l] = lease[l]
        \/ lease[l].state = "FAILED" /\ lease'[l].state = "ENDED" /\ SameTries(l)
        \/ lease[l].state \in Active /\ lease'[l].state = "FAILED" /\ SameTries(l)
    BY <2>1, <2>2 DEF SameTries
  <2> QED
    BY <2>3, RowTurns DEF OpenStates, Finished
<1>5. ASSUME UNCHANGED lease PROVE SameRow(l)
  BY <1>5 DEF SameRow, SameTries
<1>6. SameRow(l) \/ Turns(l)
  BY <1>4, <1>5
  DEF Reconciler, ReconcileNext, ReconcileScan, ReconcileStep, ReconcileQuery,
      ReconcileUnavailable, ReconcileApply, storeVars
<1> QED
  BY <1>2, <1>3, <1>6, SameJobs, BystandersChange

(* A booking whose model answers has a job: nobody is asking for one. *)
LEMMA ProberChanges ==
  ASSUME TypeOK, Prober, NEW l \in Leases, Sound(l)
  PROVE  Change(l)
<1>1. lease[l] \in LeaseRow
  BY DEF TypeOK, StoreTypeOK
<1>2. UNCHANGED <<submitter, retrier, creating, job>>
  BY DEF Prober, HealthNext, HealthProbe, HealthApply, storeVars, handlers
<1>3. \/ CheckedLease(l) = lease[l]
      \/ /\ lease[l].job # NoJob /\ lease[l].state \in {"SUBMITTED", "STARTING"}
         /\ CheckedLease(l) = [lease[l] EXCEPT !.state = "RUNNING", !.retries = 0]
      \/ /\ lease[l].state \in {"SUBMITTED", "STARTING", "RUNNING"}
         /\ CheckedLease(l) = Fail(lease[l], prober.now)
  BY DEF CheckedLease
<1>4. lease'[l] \in {lease[l], CheckedLease(l)}
  BY DEF Prober, HealthNext, HealthProbe, HealthApply, storeVars
<1>5. /\ [lease[l] EXCEPT !.state = "RUNNING", !.retries = 0].state = "RUNNING"
      /\ [lease[l] EXCEPT !.state = "RUNNING", !.retries = 0].retries = 0
  BY <1>1 DEF LeaseRow
<1>6. /\ Fail(lease[l], prober.now).state = "FAILED"
      /\ Fail(lease[l], prober.now).retries = lease[l].retries
  BY <1>1, RowFields, RowTries
<1>7. lease[l].job # NoJob /\ lease[l].state \in {"SUBMITTED", "STARTING"} => ~Held(l)
  BY DEF Sound, CreatorShape, SubmitterShape, RetrierShape, Held
<1>8. \/ lease'[l] = lease[l]
      \/ /\ ~Held(l) /\ lease[l].state \in {"SUBMITTED", "STARTING"}
         /\ lease'[l].state = "RUNNING" /\ lease'[l].retries = 0
      \/ /\ lease[l].state \in {"SUBMITTED", "STARTING", "RUNNING"}
         /\ lease'[l].state = "FAILED" /\ SameTries(l)
  BY <1>3, <1>4, <1>5, <1>6, <1>7 DEF SameTries
<1>9. SameRow(l) \/ Turns(l)
  BY <1>8, RowTurns DEF OpenStates, Active
<1> QED
  BY <1>2, <1>9, SameJobs, BystandersChange

LEMMA ClusterChanges ==
  ASSUME TypeOK, Cluster \/ Clock \/ UNCHANGED vars, NEW l \in Leases, Sound(l)
  PROVE  Change(l)
<1>1. UNCHANGED <<submitter, retrier, creating, lease>>
  BY DEF Cluster, Clock, Tick, ClusterNext, JobStarts, GivesUpRegistering, ModelLoads,
         JobExits, workerVars, handlers, vars, storeVars
<1>2. JobsQuiet
  BY ClusterQuiet
<1> QED
  BY <1>1, <1>2, BystandersChange DEF SameRow, SameTries

(* A registration that is handled does not end a job. *)
LEMMA RegistrationChanges ==
  ASSUME TypeOK, NEW j \in Jobs, Registration(j), NEW l \in Leases, Sound(l)
  PROVE  Change(l)
<1>1. lease[l] \in LeaseRow /\ JobTypeOK
  BY DEF TypeOK, StoreTypeOK, JobTypeOK
<1>2. UNCHANGED <<submitter, retrier, creating>>
  BY DEF Registration
<1>3. ASSUME RegisterEndpoint(j) PROVE SameRow(l) /\ UNCHANGED job
  BY <1>3 DEF RegisterEndpoint, SameRow, SameTries
<1>4. ASSUME RegisterLease(j) PROVE SameRow(l) \/ Turns(l)
  <2>1. \/ lease'[l] = lease[l]
        \/ /\ lease[l].job = j /\ lease[l].state \in {"SUBMITTED", "PLANNED"}
           /\ lease'[l] = [lease[l] EXCEPT !.state = "STARTING"]
    BY <1>4 DEF RegisterLease, LeasesOf
  <2>2. /\ [lease[l] EXCEPT !.state = "STARTING"].state = "STARTING"
        /\ [lease[l] EXCEPT !.state = "STARTING"].retries = lease[l].retries
    BY <1>1, RowFields, RowTries
  <2>3. lease[l].job = j => lease[l].state # "PLANNED"
    BY JobNumbers DEF Sound, RowShape
  <2>4. \/ lease'[l] = lease[l]
        \/ lease[l].state = "SUBMITTED" /\ lease'[l].state = "STARTING" /\ SameTries(l)
    BY <2>1, <2>2, <2>3 DEF SameTries
  <2> QED
    BY <2>4, RowTurns DEF OpenStates, Active
<1>5. ASSUME RegisterLease(j) PROVE LiveJobs(l)' = LiveJobs(l)
  <2>1. ASSUME NEW i \in Jobs
        PROVE  job'[i].for = job[i].for /\ (job'[i].st \in Live <=> job[i].st \in Live)
    BY <1>1, <1>5, <2>1 DEF RegisterLease, JobTypeOK, Live, Left, JobState
  <2> QED
    BY <2>1 DEF LiveJobs
<1>6. SameView(l)
  BY <1>2 DEF SameView
<1> QED
  BY <1>2, <1>3, <1>4, <1>5, <1>6, SameJobs, BystandersChange, OthersChange DEF Registration

-------------------------------------------------------------------------------
(* Steps of users and handlers                                              *)

(* A row that is not there yet has not been retried. *)
NoneAreRetried == \A l \in Leases : lease[l].state = "NONE" => lease[l].retries = 0

LEMMA SameRowChanges ==
  ASSUME NEW l \in Leases, Sound(l), UNCHANGED <<submitter, retrier, creating, job>>,
         SameRow(l)
  PROVE  Change(l)
  BY SameJobs, BystandersChange

LEMMA UsersChange ==
  ASSUME TypeOK, Orderly, {"cancel", "stop"} \cap Ops = {}, NoneAreRetried, Users,
         NEW l \in Leases, Sound(l)
  PROVE  Change(l)
<1>1. lease \in [Leases -> LeaseRow] /\ lease[l] \in LeaseRow
  BY DEF TypeOK, StoreTypeOK
<1>2. UNCHANGED <<submitter, retrier>>
  BY DEF Users
<1>3. ASSUME NEW m \in Leases, CreatePlanned(m) PROVE Change(l)
  <2>1. SameRow(l) \/ Turns(l)
    <3>1. CASE m = l
      <4>1. lease'[l].state = "PLANNED" /\ lease'[l].retries = 0
        BY <1>1, <1>3, <3>1 DEF CreatePlanned, NoRow
      <4>2. lease[l].state = "NONE" /\ lease[l].retries = 0
        BY <1>3, <3>1 DEF CreatePlanned, IsNextLease, NoneAreRetried
      <4> QED
        BY <4>1, <4>2 DEF Turns, SameTries
    <3>2. CASE m # l
      BY <1>1, <1>3, <3>2 DEF CreatePlanned, SameRow, SameTries
    <3> QED
      BY <3>1, <3>2
  <2> QED
    BY <1>2, <1>3, <2>1, SameJobs, BystandersChange DEF CreatePlanned
<1>4. ASSUME NEW m \in Leases, UpdateLease(m) \/ UnlockLease(m) PROVE SameRow(l)
  <2>1. ASSUME UpdateLease(m) PROVE SameRow(l)
    BY <1>1, <2>1 DEF UpdateLease, SameRow, SameTries, LeaseRow
  <2>2. ASSUME UnlockLease(m) PROVE SameRow(l)
    BY <1>1, <2>2 DEF UnlockLease, SameRow, SameTries, LeaseRow
  <2> QED
    BY <1>4, <2>1, <2>2
<1>5. ASSUME NEW m \in Leases, ExtendLease(m) \/ ShortenLease(m) PROVE SameRow(l)
  <2>1. ASSUME NEW e, SetEnd(m, e) PROVE SameRow(l)
    BY <1>1, <2>1 DEF SetEnd, SameRow, SameTries, LeaseRow
  <2> QED
    BY <1>5, <2>1 DEF ExtendLease, ShortenLease
<1>6. \A m \in Leases : ~CancelLease(m) /\ ~LockLease(m)
  BY DEF CancelLease, LockLease, Orderly, NoServices
<1>7. ASSUME NEW m \in Leases, CreateNow(m), m # l PROVE Change(l)
  <2>1. creating'[l] = creating[l] /\ lease'[l] = lease[l] /\ UNCHANGED job
    BY <1>1, <1>7 DEF CreateNow, TypeOK, RequestTypeOK
  <2>2. SameView(l) /\ SameRow(l)
    BY <1>2, <2>1 DEF SameView, SameRow, SameTries
  <2> QED
    BY <2>1, <2>2, SameJobs, QuietLive, OthersChange
<1>8. CASE CreateNow(l)
  <2>1. lease[l].state = "NONE" /\ lease[l].retries = 0
    BY <1>8 DEF CreateNow, IsNextLease, NoneAreRetried
  <2>2. lease'[l].state = "SUBMITTED" /\ lease'[l].retries = 0
    BY <1>1, <1>8 DEF CreateNow, NoRow
  <2>3. Phase(l) = "none" /\ Phase(l)' = "open"
    BY <2>1, <2>2 DEF Phase, Finished
  <2>4. Asked(l)'
    BY <1>8 DEF CreateNow, Asked, TypeOK, RequestTypeOK
  <2>5. Occupied(l)' <=> Occupied(l)
    BY <1>8 DEF CreateNow, Occupied, LiveJobs
  <2> QED
    BY <2>1, <2>2, <2>3, <2>4, <2>5 DEF Change, Asks, SameTries
<1> QED
  BY <1>2, <1>3, <1>4, <1>5, <1>6, <1>7, <1>8, SameRowChanges
  DEF Users, RequestArrives, UpdateLease, UnlockLease, ExtendLease, ShortenLease

LEMMA CommitEndChanges ==
  ASSUME TypeOK, NEW m \in Leases, CommitEnd(m), UNCHANGED <<submitter, retrier>>,
         NEW l \in Leases, Sound(l)
  PROVE  Change(l)
<1>1. SameRow(l)
  BY DEF CommitEnd, SameRow, SameTries, TypeOK, StoreTypeOK, LeaseRow
<1> QED
  BY <1>1, SameRowChanges DEF CommitEnd

(* Slurm takes a job: there was none. *)
LEMMA FirstAccepted ==
  ASSUME JobTypeOK, NEW j \in Jobs, NEW l \in Leases, Sbatch(j, l)
  PROVE  Occupied(l)'
<1>1. job'[j].st = "PENDING" /\ job'[j].for = l
  BY DEF Sbatch, JobTypeOK
<1>2. "PENDING" \in Live
  BY DEF Live, JobState, Left
<1> QED
  BY <1>1, <1>2 DEF Occupied, LiveJobs

LEMMA CreatorChanges ==
  ASSUME TypeOK, Orderly, NEW m \in Leases, CreateSbatch(m) \/ CreateRecord(m) \/ CreateFails(m),
         UNCHANGED <<submitter, retrier>>, NEW l \in Leases, Sound(l),
         lease[l].state # "CANCELED"
  PROVE  Change(l)
<1>1. lease \in [Leases -> LeaseRow] /\ lease[l] \in LeaseRow /\ JobTypeOK
  BY DEF TypeOK, StoreTypeOK, JobTypeOK
<1>2. CASE m # l
  <2>1. creating'[l] = creating[l] /\ lease'[l] = lease[l]
    BY <1>1, <1>2 DEF CreateSbatch, CreateRecord, CreateFails, TypeOK, RequestTypeOK
  <2>2. SameView(l) /\ SameRow(l)
    BY <2>1 DEF SameView, SameRow, SameTries
  <2>3. LiveJobs(l)' \subseteq LiveJobs(l)
    BY <1>1, <1>2, SbatchLive, RefusalsAddNothing, SameJobs, QuietLive
    DEF CreateSbatch, CreateRecord, CreateFails
  <2> QED
    BY <2>2, <2>3, OthersChange
<1>3. CASE m = l
  <2>1. /\ Creating(l) /\ lease[l].state = "SUBMITTED" /\ ~Submitting(l) /\ ~Retrying(l)
        /\ submitter.cur # l /\ LiveJobs(l) \subseteq {creating[l].job}
    <3>1. Creating(l)
      BY <1>3 DEF CreateSbatch, CreateRecord, CreateFails, Creating
    <3> QED
      BY <3>1 DEF Sound, CreatorShape, SubmitterShape, Accounted, Abandoned, Held, Claim
  <2>2. Asked(l) <=> creating[l].step = "submit"
    BY <2>1 DEF Asked, Submitting, Retrying
  <2>3. Asked(l)' <=> creating'[l].step = "submit"
    BY <2>1 DEF Asked, Submitting, Retrying
  <2>4. Phase(l) = "open"
    BY <2>1 DEF Phase, Finished
  <2>5. CASE CreateSbatch(l)
    <3>1. PICK j \in Jobs : Sbatch(j, l) /\ creating' = [creating EXCEPT ![l] =
                                                          [step |-> "record", job |-> j]]
      BY <2>5 DEF CreateSbatch
    <3>2. Asked(l) /\ ~Asked(l)'
      BY <2>2, <2>3, <2>5, <3>1 DEF CreateSbatch, TypeOK, RequestTypeOK
    <3>3. ~Occupied(l)
      BY <2>1, <2>5, FirstJob DEF CreateSbatch, Sound, CreatorShape, Occupied
    <3>4. Occupied(l)'
      BY <1>1, <3>1, FirstAccepted
    <3>5. Phase(l)' = Phase(l) /\ SameTries(l)
      BY <2>5 DEF CreateSbatch, Phase, SameTries
    <3> QED
      BY <3>2, <3>3, <3>4, <3>5 DEF Change, Accepted, Refused
  <2>6. CASE CreateRecord(l)
    <3>1. ~Asked(l) /\ ~Asked(l)'
      BY <2>2, <2>3, <2>6 DEF CreateRecord, NotCreating, TypeOK, RequestTypeOK
    <3>2. SameRow(l) /\ Phase(l)' = Phase(l)
      BY <1>1, <2>6 DEF CreateRecord, LeaseRow, SameRow, SameTries, Phase
    <3>3. Occupied(l)' => Occupied(l)
      BY <2>6 DEF CreateRecord, Occupied, LiveJobs
    <3> QED
      BY <3>1, <3>2, <3>3 DEF Change, Rests, SameRow
  <2>7. CASE CreateFails(l)
    <3>1. Asked(l) /\ ~Asked(l)'
      BY <2>2, <2>3, <2>7 DEF CreateFails, NotCreating, TypeOK, RequestTypeOK
    <3>2. lease'[l].state = "FAILED" /\ SameTries(l)
      BY <1>1, <2>7, RowFields, RowTries DEF CreateFails, SameTries
    <3>3. Phase(l)' = Phase(l)
      BY <2>4, <3>2 DEF Phase, Finished
    <3>4. Occupied(l)' <=> Occupied(l)
      BY <2>7, RefusalsAddNothing DEF CreateFails, Occupied, LiveJobs
    <3> QED
      BY <3>1, <3>2, <3>3, <3>4 DEF Change, Refused
  <2> QED
    BY <1>3, <2>5, <2>6, <2>7
<1> QED
  BY <1>2, <1>3

-------------------------------------------------------------------------------
(* Steps of planned_submit_worker and retry_worker                          *)

LEMMA SubmitterChanges ==
  ASSUME TypeOK, Orderly, Submitter, NEW l \in Leases, Sound(l), lease[l].state # "CANCELED"
  PROVE  Change(l)
<1>1. lease \in [Leases -> LeaseRow] /\ lease[l] \in LeaseRow /\ JobTypeOK /\ l # NoLease
  BY DEF TypeOK, StoreTypeOK, JobTypeOK, Leases, NoLease
<1>2. UNCHANGED <<retrier, creating>>
  BY DEF Submitter, handlers
<1>3. CASE SubmitScan
  <2>1. submitter.todo = {} /\ submitter.cur = NoLease /\ UNCHANGED job /\ submitter'.cur = NoLease
    BY <1>3 DEF SubmitScan, SubmitterIdle
  <2>2. LiveJobs(l)' = LiveJobs(l)
    BY <2>1 DEF LiveJobs
  <2>3. CASE l \in submitter'.todo
    <3>1. lease[l].state = "PLANNED" /\ lease'[l] = lease[l]
      BY <1>3, <2>3 DEF SubmitScan, SubmitterIdle, Planned
    <3>2. Phase(l) = "booked" /\ Phase(l)' = "open"
      BY <2>1, <2>3, <3>1 DEF Phase, Finished
    <3>3. Asked(l)'
      BY <1>1, <2>1, <2>3 DEF Asked
    <3> QED
      BY <2>2, <3>1, <3>2, <3>3 DEF Change, Asks, SameTries, Occupied
  <2>4. CASE l \notin submitter'.todo
    <3>1. SameView(l)
      BY <1>1, <1>2, <2>1, <2>4 DEF SameView
    <3>2. \/ lease'[l] = lease[l]
          \/ /\ lease[l].state = "PLANNED"
             /\ lease'[l] = [lease[l] EXCEPT !.state = "ENDED"]
      BY <1>3 DEF SubmitScan, Planned
    <3>3. /\ [lease[l] EXCEPT !.state = "ENDED"].state = "ENDED"
          /\ [lease[l] EXCEPT !.state = "ENDED"].retries = lease[l].retries
      BY <1>1, RowFields, RowTries
    <3>4. SameRow(l) \/ Turns(l)
      BY <3>2, <3>3, RowTurns DEF SameTries, Finished
    <3> QED
      BY <2>2, <3>1, <3>4, OthersChange
  <2> QED
    BY <2>3, <2>4
<1>4. ASSUME NEW m \in Leases, m # l, SubmitSbatch(m) \/ SubmitRecord(m) \/ SubmitFails(m)
      PROVE  Change(l)
  <2>1. lease'[l] = lease[l]
    BY <1>1, <1>4 DEF SubmitSbatch, SubmitRecord, SubmitFails
  <2>2. submitter.cur # l /\ submitter'.cur # l /\ (l \in submitter'.todo <=> l \in submitter.todo)
    BY <1>1, <1>4, SubmitterElsewhere
  <2>3. LiveJobs(l)' \subseteq LiveJobs(l)
    BY <1>1, <1>4, SbatchLive, RefusalsAddNothing, SameJobs, QuietLive
    DEF SubmitSbatch, SubmitRecord, SubmitFails
  <2>4. SameView(l) /\ SameRow(l)
    BY <1>2, <2>1, <2>2 DEF SameView, SameRow, SameTries
  <2> QED
    BY <2>3, <2>4, OthersChange
<1>5. ASSUME SubmitSbatch(l) \/ SubmitRecord(l) \/ SubmitFails(l)
      PROVE  /\ l \in submitter.todo /\ lease[l].state = "PLANNED" /\ Phase(l) = "open"
             /\ (Asked(l) <=> submitter.cur # l)
             /\ (Asked(l)' <=> l \in submitter'.todo /\ submitter'.cur # l)
             /\ LiveJobs(l) \subseteq {IF submitter.cur = l THEN submitter.job ELSE NoJob}
  <2>1. Submitting(l)
    BY <1>5
    DEF SubmitSbatch, SubmitRecord, SubmitFails, IsNextSnapshot, Submitting, Sound, SubmitterShape
  <2>2. lease[l].state = "PLANNED" /\ ~Creating(l) /\ ~Retrying(l)
    BY <2>1 DEF Sound, SubmitterShape, CreatorShape
  <2>3. LiveJobs(l) \subseteq {IF submitter.cur = l THEN submitter.job ELSE NoJob}
    BY <2>1, <2>2 DEF Sound, Accounted, Abandoned, Held, Claim
  <2>4. Phase(l) = "open"
    BY <2>1, <2>2 DEF Phase, Finished, Submitting
  <2>5. (Asked(l) <=> submitter.cur # l)
        /\ (Asked(l)' <=> l \in submitter'.todo /\ submitter'.cur # l)
    BY <1>2, <2>1, <2>2 DEF Asked, Creating, Submitting, Retrying
  <2> QED
    BY <2>1, <2>2, <2>3, <2>4, <2>5 DEF Submitting
<1>6. CASE SubmitSbatch(l)
  <2>1. PICK j \in Jobs : Sbatch(j, l) /\ submitter' = [submitter EXCEPT !.cur = l, !.job = j]
    BY <1>6 DEF SubmitSbatch
  <2>2. submitter'.cur = l /\ submitter'.todo = submitter.todo
    BY <2>1 DEF TypeOK, SubmitterTypeOK
  <2>3. Asked(l) /\ ~Asked(l)'
    BY <1>1, <1>5, <1>6, <2>2 DEF SubmitSbatch, IsNextSnapshot
  <2>4. ~Occupied(l)
    BY <1>1, <1>5, <1>6, FirstJob DEF SubmitSbatch, IsNextSnapshot, Occupied
  <2>5. Occupied(l)'
    BY <1>1, <2>1, FirstAccepted
  <2>6. Phase(l)' = Phase(l) /\ SameTries(l)
    BY <1>6, <2>2 DEF SubmitSbatch, Phase, SameTries
  <2> QED
    BY <2>3, <2>4, <2>5, <2>6 DEF Change, Accepted, Refused
<1>7. CASE SubmitRecord(l)
  <2>1. ~Asked(l) /\ ~Asked(l)'
    BY <1>1, <1>5, <1>7, SubmitterDone DEF SubmitRecord
  <2>2. lease'[l].state = "SUBMITTED" /\ SameTries(l)
    BY <1>1, <1>5, <1>7 DEF SubmitRecord, SameTries, LeaseRow
  <2>3. Phase(l)' = Phase(l)
    BY <1>5, <1>7, <2>2 DEF Phase, Finished
  <2>4. Occupied(l)' => Occupied(l)
    BY <1>7 DEF SubmitRecord, Occupied, LiveJobs
  <2> QED
    BY <2>1, <2>2, <2>3, <2>4 DEF Change, Rests
<1>8. CASE SubmitFails(l)
  <2>1. Asked(l) /\ ~Asked(l)'
    BY <1>1, <1>5, <1>8, SubmitterDone DEF SubmitFails, IsNextSnapshot
  <2>2. lease'[l].state = "FAILED" /\ SameTries(l)
    BY <1>1, <1>5, <1>8, RowFields, RowTries DEF SubmitFails, SameTries
  <2>3. Phase(l)' = Phase(l)
    BY <1>5, <1>8, <2>2 DEF Phase, Finished
  <2>4. Occupied(l)' <=> Occupied(l)
    BY <1>8, RefusalsAddNothing DEF SubmitFails, Occupied, LiveJobs
  <2> QED
    BY <2>1, <2>2, <2>3, <2>4 DEF Change, Refused
<1> QED
  BY <1>3, <1>4, <1>6, <1>7, <1>8 DEF Submitter, SubmitNext, SubmitStep

LEMMA RetrierChanges ==
  ASSUME TypeOK, Orderly, RetrierAtLease, Unlocked, CandidatesMayRetry, Retrier,
         NEW l \in Leases, Sound(l), lease[l].state # "CANCELED"
  PROVE  Change(l)
<1>1. lease \in [Leases -> LeaseRow] /\ lease[l] \in LeaseRow /\ JobTypeOK /\ l # NoLease
  BY DEF TypeOK, StoreTypeOK, JobTypeOK, Leases, NoLease
<1>2. UNCHANGED <<submitter, creating>>
  BY DEF Retrier, handlers
<1>3. CASE RetryScan
  <2>1. retrier.cur # l /\ retrier'.cur # l /\ UNCHANGED job
    BY <1>1, <1>3 DEF RetryScan, RetrierIdle
  <2>2. PICK b, e : lease'[l] \in {lease[l], [lease[l] EXCEPT !.begin = b, !.end = e]}
    BY <1>3 DEF RetryScan
  <2>3. /\ [lease[l] EXCEPT !.begin = b, !.end = e].state = lease[l].state
        /\ [lease[l] EXCEPT !.begin = b, !.end = e].retries = lease[l].retries
    BY <1>1, RowFields, RowTries
  <2>4. SameView(l) /\ SameRow(l)
    BY <1>2, <2>1, <2>2, <2>3 DEF SameView, SameRow, SameTries
  <2> QED
    BY <2>1, <2>4, SameJobs, QuietLive, OthersChange
<1>4. ASSUME NEW m \in Leases, RetrySkip(m) \/ (RetryClaim(m) /\ m # l) PROVE Change(l)
  <2>1. retrier.cur # l /\ retrier'.cur # l
    BY <1>1, <1>4, RetrierDone DEF RetrySkip, RetryClaim, TypeOK, RetrierTypeOK
  <2>2. lease'[l] = lease[l] /\ UNCHANGED job
    BY <1>1, <1>4 DEF RetrySkip, RetryClaim, storeVars
  <2>3. SameView(l) /\ SameRow(l)
    BY <1>2, <2>1, <2>2 DEF SameView, SameRow, SameTries
  <2> QED
    BY <2>2, <2>3, SameJobs, QuietLive, OthersChange
<1>5. CASE RetryClaim(l)
  <2>1. lease[l].state = "FAILED" /\ retrier.cur = NoLease /\ l \in retrier.todo
    BY <1>5 DEF RetryClaim
  <2>2. ~Asked(l)
    BY <1>1, <2>1 DEF Sound, CreatorShape, SubmitterShape, Creating, Submitting, Asked
  <2>3. retrier'.cur = l /\ retrier'.step \in {"submit", "cancel"}
    BY <1>5 DEF RetryClaim, TypeOK, RetrierTypeOK
  <2>4. lease'[l].state = "RETRYING" /\ lease'[l].retries = lease[l].retries + 1
    BY <1>1, <1>5 DEF RetryClaim, LeaseRow
  <2>5. lease[l].retries < MaxRetries
    BY <1>1, <2>1 DEF CandidatesMayRetry
  <2>6. Asked(l)'
    BY <2>3 DEF Asked
  <2>7. Phase(l) = "open" /\ Phase(l)' = "open"
    BY <2>1, <2>4 DEF Phase, Finished
  <2>8. Occupied(l)' <=> Occupied(l)
    BY <1>5 DEF RetryClaim, Occupied, LiveJobs
  <2> QED
    BY <2>2, <2>4, <2>5, <2>6, <2>7, <2>8 DEF Change, Retries
<1>6. ASSUME RetryCancel \/ RetrySbatch \/ RetryRecord \/ RetryFails, retrier.cur # l
      PROVE  Change(l)
  <2>1. retrier.cur \in Leases
    BY <1>6 DEF RetryCancel, RetrySbatch, RetryRecord, RetryFails, RetrierAtLease
  <2>2. lease'[l] = lease[l]
    BY <1>1, <1>6, <2>1 DEF RetryCancel, RetrySbatch, RetryRecord, RetryFails
  <2>3. retrier'.cur # l
    <3>1. CASE RetryCancel \/ RetrySbatch
      BY <1>6, <3>1 DEF RetryCancel, RetrySbatch, TypeOK, RetrierTypeOK
    <3>2. CASE RetryRecord \/ RetryFails
      BY <1>1, <3>2, RetrierDone DEF RetryRecord, RetryFails
    <3> QED
      BY <1>6, <3>1, <3>2
  <2>4. LiveJobs(l)' \subseteq LiveJobs(l)
    <3>1. retrier.job \in Jobs \cup {NoJob}
      BY DEF TypeOK, RetrierTypeOK
    <3> QED
      BY <1>1, <1>6, <2>1, <3>1, ScancelQuiet, SbatchLive, RefusalsAddNothing, SameJobs, QuietLive
      DEF RetryCancel, RetrySbatch, RetryRecord, RetryFails
  <2>5. SameView(l) /\ SameRow(l)
    BY <1>2, <1>6, <2>2, <2>3 DEF SameView, SameRow, SameTries
  <2> QED
    BY <2>4, <2>5, OthersChange
<1>7. ASSUME retrier.cur = l
      PROVE  /\ lease[l].state = "RETRYING" /\ Phase(l) = "open"
             /\ (Asked(l) <=> retrier.step \in {"cancel", "submit"})
             /\ (Asked(l)' <=> retrier'.cur = l /\ retrier'.step \in {"cancel", "submit"})
             /\ LiveJobs(l) \subseteq {retrier.job}
  <2>1. Retrying(l) /\ ~Creating(l) /\ ~Submitting(l)
    BY <1>7 DEF Retrying, Sound, CreatorShape, SubmitterShape
  <2>2. LiveJobs(l) \subseteq {retrier.job}
    BY <2>1 DEF Sound, Accounted, Abandoned, Held, Claim
  <2>3. lease[l].state = "RETRYING" /\ Phase(l) = "open"
    BY <2>1 DEF Sound, RetrierShape, Phase, Finished
  <2>4. /\ Asked(l) <=> retrier.step \in {"cancel", "submit"}
        /\ Asked(l)' <=> retrier'.cur = l /\ retrier'.step \in {"cancel", "submit"}
    BY <1>2, <1>7, <2>1 DEF Asked, Creating, Submitting
  <2> QED
    BY <2>2, <2>3, <2>4
<1>8. CASE RetryCancel /\ retrier.cur = l
  <2>1. retrier'.cur = l /\ retrier'.step = "submit"
    BY <1>8 DEF RetryCancel, TypeOK, RetrierTypeOK
  <2>2. LiveJobs(l)' \subseteq LiveJobs(l)
    <3>1. retrier.job \in Jobs \cup {NoJob}
      BY DEF TypeOK, RetrierTypeOK
    <3> QED
      BY <1>1, <1>8, <3>1, ScancelQuiet, QuietLive DEF RetryCancel
  <2>3. Phase(l)' = Phase(l) /\ SameTries(l)
    BY <1>2, <1>8 DEF RetryCancel, Phase, SameTries
  <2>4. Asked(l) /\ Asked(l)'
    BY <1>7, <1>8, <2>1 DEF RetryCancel
  <2> QED
    BY <2>2, <2>3, <2>4 DEF Change, Rests, Occupied
<1>9. CASE RetrySbatch /\ retrier.cur = l
  <2>1. PICK j \in Jobs :
          Sbatch(j, l) /\ retrier' = [retrier EXCEPT !.step = "record", !.job = j]
    BY <1>9 DEF RetrySbatch
  <2>2. retrier'.step = "record"
    BY <2>1 DEF TypeOK, RetrierTypeOK
  <2>3. Asked(l) /\ ~Asked(l)'
    BY <1>7, <1>9, <2>2 DEF RetrySbatch
  <2>4. ~Occupied(l)
    BY <1>7, <1>9, FirstJob DEF RetrySbatch, Sound, RetrierShape, Retrying, Occupied
  <2>5. Occupied(l)'
    BY <1>1, <2>1, FirstAccepted
  <2>6. Phase(l)' = Phase(l) /\ SameTries(l)
    BY <1>2, <1>9 DEF RetrySbatch, Phase, SameTries
  <2> QED
    BY <2>3, <2>4, <2>5, <2>6 DEF Change, Accepted, Refused
<1>10. CASE RetryRecord /\ retrier.cur = l
  <2>1. ~Asked(l) /\ ~Asked(l)'
    BY <1>1, <1>7, <1>10, RetrierDone DEF RetryRecord
  <2>2. lease'[l].state = "SUBMITTED" /\ SameTries(l)
    BY <1>1, <1>10 DEF RetryRecord, SameTries, LeaseRow
  <2>3. Phase(l)' = Phase(l)
    BY <1>7, <1>10, <2>2 DEF Phase, Finished
  <2>4. Occupied(l)' => Occupied(l)
    BY <1>10 DEF RetryRecord, Occupied, LiveJobs
  <2> QED
    BY <2>1, <2>2, <2>3, <2>4 DEF Change, Rests
<1>11. CASE RetryFails /\ retrier.cur = l
  <2>1. Asked(l) /\ ~Asked(l)'
    BY <1>1, <1>7, <1>11, RetrierDone DEF RetryFails
  <2>2. lease'[l].state = "FAILED" /\ SameTries(l)
    BY <1>1, <1>7, <1>11, RowFields, RowTries DEF RetryFails, SameTries
  <2>3. Phase(l)' = Phase(l)
    BY <1>7, <1>11, <2>2 DEF Phase, Finished
  <2>4. Occupied(l)' <=> Occupied(l)
    BY <1>11, RefusalsAddNothing DEF RetryFails, Occupied, LiveJobs
  <2> QED
    BY <2>1, <2>2, <2>3, <2>4 DEF Change, Refused
<1> QED
  BY <1>3, <1>4, <1>5, <1>6, <1>8, <1>9, <1>10, <1>11 DEF Retrier, RetryNext, RetryStep

-------------------------------------------------------------------------------
(* The refinement                                                           *)

LEMMA NextChange ==
  ASSUME TypeOK, Orderly, {"cancel", "stop"} \cap Ops = {}, OneAnswers, NoCancellations,
         Unlocked, CandidatesMayRetry, NoneAreRetried, [Next]_vars, NEW l \in Leases
  PROVE  Change(l)
<1>1. Sound(l) /\ lease[l].state # "CANCELED"
  BY DEF OneAnswers, NoCancellations
<1>2. ~Renewer /\ ~Crash /\ ~ReconcileOnStartup /\ ~TakeOver
  BY NextOnlySessions DEF OneAnswers
<1>3. ASSUME NEW m \in Leases, Handler(m) PROVE Change(l)
  <2>1. ~CommitCancel(m)
    BY DEF CommitCancel, NoCancellations
  <2> QED
    BY <1>1, <1>3, <2>1, CreatorChanges, CommitEndChanges DEF Handler, RequestStep
<1> QED
  BY <1>1, <1>2, <1>3, SubmitterChanges, RetrierChanges, CleanerChanges, ReconcilerChanges,
     ProberChanges, ClusterChanges, RegistrationChanges, UsersChange
  DEF Next, OneAnswers

LEMMA ChangeKeepsRetries ==
  ASSUME TypeOK, NoneAreRetried, \A l \in Leases : Change(l)
  PROVE  NoneAreRetried'
<1> SUFFICES ASSUME NEW l \in Leases, lease'[l].state = "NONE" PROVE lease'[l].retries = 0
  BY DEF NoneAreRetried
<1>1. Phase(l)' = "none"
  BY DEF Phase, Finished
<1>2. Phase(l) = "none" /\ SameTries(l)
  BY <1>1
  DEF Change, Rests, Books, Asks, Retries, Serves, Refused, Accepted, Closes
<1>3. lease[l].state = "NONE"
  BY <1>2 DEF Phase
<1> QED
  BY <1>2, <1>3 DEF NoneAreRetried, SameTries

(* With a Slurm that answers and obeys, and users who neither cancel nor   *)
(* make permanent, the seven coroutines deal with Slurm as if one of them  *)
(* at a time did: every booking is asked for once, retried within its      *)
(* budget, and never asked for again after its end.                        *)
THEOREM WorkersKeepContract ==
  ASSUME Orderly, {"cancel", "stop"} \cap Ops = {}
  PROVE  Spec => KeepsContract
<1> DEFINE IInv == /\ TypeOK /\ OneAnswers /\ NoCancellations /\ NoneAreRetried
                   /\ Unlocked /\ CandidatesMayRetry /\ RetriesAreBounded
<1>1. Init => IInv
  <2>1. Init => NoCancellations /\ NoneAreRetried /\ Unlocked /\ CandidatesMayRetry
    BY DEF Init, StoreInit, AllIdle, NoRow, NoRequest, RetrierIdle, NoCancellations,
           NoneAreRetried, Unlocked, CandidatesMayRetry
  <2>2. Init => RetriesAreBounded
    BY RetryConstants DEF Init, StoreInit, NoRow, RetriesAreBounded
  <2> QED
    BY <2>1, <2>2, InitTypes, InitOneAnswers
<1>2. ASSUME IInv, [Next]_vars PROVE IInv'
  <2>1. "lock" \notin Ops
    BY DEF Orderly, NoServices
  <2>2. NoneAreRetried'
    BY <1>2, NextChange, ChangeKeepsRetries
  <2> QED
    BY <1>2, <2>1, <2>2, NextTypes, NextOneAnswers, NextNoCancellations, NextBounded
<1>3. Init => Contract!Init
  <2> SUFFICES ASSUME Init PROVE Contract!Init
    OBVIOUS
  <2>1. ASSUME NEW l \in Leases PROVE View(l) = Contract!NoContract
    <3>1. lease[l].state = "NONE" /\ lease[l].retries = 0
      BY DEF Init, StoreInit, NoRow
    <3>2. Phase(l) = "none"
      BY <3>1 DEF Phase, Finished
    <3>3. Asked(l) = FALSE
      BY DEF Init, AllIdle, SubmitterIdle, RetrierIdle, NotCreating, Asked, Leases, NoLease
    <3>4. Occupied(l) = FALSE
      BY DEF Init, StoreInit, Occupied, LiveJobs, Live
    <3> QED
      BY <3>1, <3>2, <3>3, <3>4 DEF View, Contract!NoContract
  <2> QED
    BY <2>1 DEF Contract!Init, View, Occupied
<1>4. ASSUME IInv, IInv', [Next]_vars PROVE [Contract!Next]_([l \in Leases |-> View(l)])
  <2>1. ASSUME NEW l \in Leases
        PROVE  View(l)' \in Contract!Contracts /\ View(l)' \in Contract!Steps(View(l))
    BY <1>4, NextChange, ChangesAreSteps
  <2>2. Contract!Next
    BY <2>1 DEF Contract!Next, View, Occupied
  <2> QED
    BY <2>2
<1>5. IInv /\ IInv' /\ [Next]_vars => [Contract!Next]_([l \in Leases |-> View(l)])
  BY <1>4
<1> QED
  BY <1>1, <1>2, <1>3, <1>5, PTL DEF Spec, KeepsContract, Contract!Spec, View, Occupied
===============================================================================
