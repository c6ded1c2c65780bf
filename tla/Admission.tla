----------------------------- MODULE Admission -----------------------------
(***************************************************************************)
(* How a booking gets on the calendar: create_lease with its quota, its    *)
(* conflict check, its merge into an adjacent booking and the booking lock,*)
(* and update_lease and extend_lease, which validate without that lock     *)
(* (admin.py). Several replicas on one Postgres serve the requests, each   *)
(* with its own snapshot of the cluster. A request has one action per      *)
(* transaction: others may come in between.                                *)
(*                                                                         *)
(* What the workers do to a booking later is the subject of Scheduler;     *)
(* here they may take any of the steps that the calendar notices.          *)
(***************************************************************************)
EXTENDS Placement

CONSTANTS
  Requests,   \* create requests; each makes one booking at most
  Wanted,     \* request -> [model, gpus, class, pool, node, user, colocate,
              \*             asap, begins, length, service]
  ReplicaOf,  \* request -> the replica that serves it
  Leader,     \* the replica that runs inventory_worker
  Clusters,   \* the states in which Slurm may find the cluster
  Touch,      \* five minutes
  Horizon,    \* 48 hours
  Grid,       \* 15 minutes
  Nobody,
  Ops,        \* booking -> what may happen to it after its creation
  MaxTime     \* the last instant

ASSUME RequestsAssumption == IsFiniteSet(Requests) /\ Nobody \notin Requests
ASSUME TimesAssumption == MaxTime \in Nat /\ Horizon \in Nat /\ Grid \in Nat \ {0}
ASSUME WantedAssumption ==
  \A q \in Requests : /\ Wanted[q].begins \subseteq Nat /\ Wanted[q].length \in Nat
                      /\ Wanted[q].gpus \in Nat /\ Wanted[q].node \in Nat \cup {NoNode}
ASSUME QuotasAssumption ==
  \A q \in Requests : \A p \in DOMAIN Pool \cup {NoPool} :
    QuotaFor(Wanted[q].user, p).gpus \in Nat \cup {Unlimited}
ASSUME ClustersAssumption ==
  \A slurm \in Clusters :
    /\ slurm = [nodes |-> slurm.nodes, foreign |-> slurm.foreign]
    /\ DOMAIN slurm.nodes \subseteq Nat
    /\ \A n \in DOMAIN slurm.nodes : /\ DOMAIN slurm.nodes[n].gpus \subseteq Nat
                                     /\ IsFiniteSet(DOMAIN slurm.nodes[n].gpus)
    /\ \A job \in slurm.foreign : {job.begin, job.end} \subseteq Int \cup {Unknown}

VARIABLES
  now,
  snapshot,   \* replica -> inventory._cache
  lease,      \* request -> the row it made
  lastId,     \* the last Lease.id
  sentinel,   \* the row of the booking lock exists
  lock,       \* the request whose transaction holds that row
  request,    \* request -> [pc, row, into]
  edit        \* an update or an extension between validation and commit

vars == <<now, snapshot, lease, lastId, sentinel, lock, request, edit>>

Replicas == {ReplicaOf[q] : q \in Requests} \cup {Leader}
NoRow == [id |-> 0, state |-> "NONE", begin |-> 0, end |-> 0, gpus |-> 1, class |-> NoClass,
          pool |-> NoPool, pin |-> NoNode, model |-> "", asBooked |-> TRUE]
NoEdit == [of |-> Nobody, begin |-> Unknown, end |-> Unknown]
NoWork == [pc |-> "idle", row |-> NoRow, into |-> NoEdit]

Init ==
  /\ now = 0
  /\ snapshot = [r \in Replicas |-> EmptySnapshot]
  /\ lease = [q \in Requests |-> NoRow]
  /\ lastId = 0
  /\ sentinel = FALSE
  /\ lock = Nobody
  /\ request = [q \in Requests |-> NoWork]
  /\ edit = NoEdit

-----------------------------------------------------------------------------
(* The calendar as a request reads it. SUBMITTED stands for STARTING and   *)
(* RUNNING as well.                                                        *)

ActiveStates == {"PLANNED", "SUBMITTED"}
Active(rows) == {row \in rows : row.state \in ActiveStates}
Rows == {lease[q] : q \in Requests} \ {NoRow}
ActiveLeases == Active(Rows) \cup {row \in Rows : row.state = "FAILED" /\ row.end > now}

(* Without opt-in pools there is no restriction, and an empty set is none. *)
AllowedNodes(inv, p) == IF HasScaleOut THEN CandidateNodes(inv, p) ELSE {}

Demand(inv, row) ==
  [id |-> row.id, gpus |-> row.gpus, begin |-> row.begin, end |-> row.end,
   class |-> row.class, nodes |-> AllowedNodes(inv, row.pool), pin |-> row.pin]

Plan(inv, rows) ==
  Only({ComputePlacements(demands, slots, inv.foreign) :
          demands \in {{Demand(inv, row) : row \in rows}}, slots \in {EffectiveNodes(inv)}})

Managed(row) == \A pool \in PoolOf(row.pool) : pool.managed
Others(row) == {other \in ActiveLeases : other.id # row.id}

(* _validate_no_conflicts: the candidate has a place in the plan of all.   *)
Conflicts(inv, row) ==
  Managed(row) /\ Plan(inv, Others(row) \cup {row})[row.id] = NoPlace

(* A row without an identity yet cannot be sorted beside one with the same *)
(* window: None is not comparable with a number.                           *)
Unsortable(row) == Managed(row) /\ \E other \in ActiveLeases : Ties(row, other)

-----------------------------------------------------------------------------
(* Quotas. GPUs are counted as pairs of a booking and a number.            *)

GpusAt(rows, t) ==
  Cardinality(UNION {{row.id} \X (1 .. row.gpus) :
                       row \in {r \in rows : r.begin <= t /\ t < r.end}})

Mine(u) == {lease[q] : q \in {p \in Requests : /\ Wanted[p].user = u
                                               /\ lease[p].state \in ActiveStates
                                               /\ lease[p].end > now}}
HoursLeft(rows) ==
  FoldSet(LAMBDA row, sum : sum + row.gpus * (row.end - Max({now, row.begin})), 0, rows)

(* _enforce_quota                                                          *)
WithinQuota(q, row) ==
  LET u == Wanted[q].user
      quota == QuotaFor(u, row.pool)
      length == row.end - row.begin
  IN /\ ~Wanted[q].service => Within(length, quota.length)
     /\ Within(row.begin - now, quota.ahead)
     /\ \A t \in {r.begin : r \in Mine(u) \cup {row}} :
          Within(GpusAt(Mine(u) \cup {row}, t), quota.gpus)
     /\ Within(HoursLeft(Mine(u)) + row.gpus * length, quota.gpuHours)

-----------------------------------------------------------------------------
(* create_lease, up to its first transaction: what hardware, and when.     *)

Continue(q, pc) == request' = [request EXCEPT ![q].pc = pc]
Answer(q, outcome) == request' = [request EXCEPT ![q] = [NoWork EXCEPT !.pc = outcome]]
Serving(q) == snapshot[ReplicaOf[q]]

(* A process serves its requests on one event loop. From the quota check to*)
(* the commit nothing is awaited, so only other processes come in between. *)
Running(q) == request[q].pc \in {"merge", "lock", "first", "locking", "check", "insert"}
LoopIsFree(q) == \A o \in Requests : ReplicaOf[o] = ReplicaOf[q] => ~Running(o)

RequestedPool(q) ==
  LET want == Wanted[q]
      inv == Serving(q)
  IN IF want.pool = NoPool /\ want.node \in DOMAIN inv.nodes
     THEN PoolForNode(inv, want.node) ELSE want.pool

RequestedClass(q) ==
  IF DOMAIN GpuClass # {} /\ ~IsEmpty(Serving(q))
  THEN ChooseGpuClass(Serving(q), Wanted[q].model, RequestedPool(q), Wanted[q].class)
  ELSE NoClass

RequestedGpus(q) ==
  IF Wanted[q].gpus > 0 THEN Wanted[q].gpus ELSE GpusFor(Wanted[q].model, RequestedClass(q))

(* The checks that answer 403, 404 or 409 at once.                         *)
Acceptable(q) ==
  LET want == Wanted[q]
      inv == Serving(q)
      class == RequestedClass(q)
  IN /\ want.user.admin \/ want.user.isUser
     /\ want.pool \in DOMAIN Pool \cup {NoPool}
     /\ {want.model} \cup ToSet(want.colocate) \subseteq DOMAIN Model
     /\ DOMAIN GpuClass # {} /\ ~IsEmpty(inv) => class # NoClass
     /\ want.node # NoNode =>
          /\ want.node \in UsableNodes(inv)
          /\ class # NoClass => CountOf(inv, want.node, class) >=
                                  IF want.gpus > 0 THEN want.gpus ELSE Model[want.model].gpus
          /\ \A pool \in PoolOf(RequestedPool(q)) : AcceptsNode(pool, want.node)
     /\ want.colocate # <<>> => Colocatable(<<want.model>> \o want.colocate, class)
     /\ class # NoClass => FitsOn(Model[want.model].requires, class, RequestedGpus(q))

RequestedRow(q, begin) ==
  [NoRow EXCEPT !.begin = begin, !.end = begin + Wanted[q].length, !.gpus = RequestedGpus(q),
                !.class = RequestedClass(q), !.pool = RequestedPool(q), !.pin = Wanted[q].node,
                !.model = Wanted[q].model]

(* scheduling.earliest_start, for a throwaway row that carries the class   *)
(* but no pin. Only active bookings are looked at, not those that failed.  *)
\* mutant
ProbeWithoutClass(q) ==
  [Demand(Serving(q), RequestedRow(q, now)) EXCEPT !.id = -1, !.pin = NoNode, !.class = NoClass]
Probe(q) == [Demand(Serving(q), RequestedRow(q, now)) EXCEPT !.id = -1, !.pin = NoNode]

EarliestStart(q) ==
  LET inv == Serving(q)
      named == UNION {pool.nodes : pool \in PoolOf(RequestedPool(q))}
      all == EffectiveNodes(inv)
      slots == IF named = {} THEN all ELSE [n \in DOMAIN all \cap named |-> all[n]]
      probe == IF named = {} THEN Probe(q) ELSE [Probe(q) EXCEPT !.nodes = named]
  IN IF DOMAIN slots = {} THEN Unknown
     ELSE FindEarliestSlot(probe, slots, {Demand(inv, row) : row \in Active(Rows)},
                           inv.foreign, now + Horizon, Grid)

(* No begin means now; a begin that has passed is left out.                *)
Begins(q) ==
  CASE Wanted[q].asap -> {EarliestStart(q)}
    [] ~Wanted[q].asap /\ Wanted[q].begins = {} -> {now}
    [] OTHER -> {begin \in Wanted[q].begins : begin >= now}

Arrive(q) ==
  /\ request[q].pc = "idle" /\ LoopIsFree(q)
  /\ IF Acceptable(q)
     THEN \E begin \in Begins(q) :
            IF begin = Unknown THEN Answer(q, "refused")
            ELSE request' = [request EXCEPT ![q].pc = "merge", ![q].row = RequestedRow(q, begin)]
     ELSE Answer(q, "refused")
  /\ UNCHANGED <<now, snapshot, lease, lastId, sentinel, lock, edit>>

-----------------------------------------------------------------------------
(* create_lease, the merge: into the latest active booking of the model if *)
(* the windows touch.                                                      *)

SameModel(q) == {p \in Requests : /\ lease[p].state \in ActiveStates
                                  /\ lease[p].model = Wanted[q].model}
Latest(q, p) == p \in SameModel(q) /\ \A o \in SameModel(q) : lease[o].id <= lease[p].id
Touches(row, other) == ~(row.end < other.begin - Touch \/ row.begin > other.end + Touch)
MergedRow(row, other) ==
  [other EXCEPT !.end = Max({@, row.end}),
                !.begin = IF other.state = "PLANNED" THEN Min({@, row.begin}) ELSE @]
MergesInto(q, p) == Latest(q, p) /\ Touches(request[q].row, lease[p])

(* An ORM commit writes the columns that were changed, and no others.      *)
Changed(old, new) == IF new = old THEN Unknown ELSE new
Written(row, change) ==
  [row EXCEPT !.begin = IF change.begin = Unknown THEN @ ELSE change.begin,
              !.end = IF change.end = Unknown THEN @ ELSE change.end,
              !.asBooked = FALSE]

(* Validated; then the Slurm job's limit is extended, which is awaited.    *)
Merge(q) ==
  /\ request[q].pc = "merge"
  /\ \E p \in Requests :
       /\ MergesInto(q, p)
       /\ LET merged == MergedRow(request[q].row, lease[p])
          IN IF Conflicts(Serving(q), merged) THEN Answer(q, "refused")
             ELSE request' = [request EXCEPT ![q].pc = "merging",
                    ![q].into = [of |-> p, begin |-> Changed(lease[p].begin, merged.begin),
                                           end |-> Changed(lease[p].end, merged.end)]]
  /\ UNCHANGED <<now, snapshot, lease, lastId, sentinel, lock, edit>>

CommitMerge(q) ==
  /\ request[q].pc = "merging" /\ LoopIsFree(q)
  /\ lease' = [lease EXCEPT ![request[q].into.of] = Written(@, request[q].into)]
  /\ Answer(q, "merged")
  /\ UNCHANGED <<now, snapshot, lastId, sentinel, lock, edit>>

(* No merge: the row is filled in.                                         *)
Prepare(q) ==
  /\ request[q].pc = "merge"
  /\ ~\E p \in Requests : MergesInto(q, p)
  /\ request' = [request EXCEPT ![q].pc = "lock",
       ![q].row.state = IF request[q].row.begin > now THEN "PLANNED" ELSE "SUBMITTED"]
  /\ UNCHANGED <<now, snapshot, lease, lastId, sentinel, lock, edit>>

-----------------------------------------------------------------------------
(* create_lease, under the booking lock (leader.booking_lock).             *)

(* SELECT ... FOR UPDATE: it waits for the transaction that has the row. If*)
(* there is no row, the first booking makes it.                            *)
Take(q) ==
  /\ request[q].pc \in {"lock", "locking"}
  /\ sentinel /\ lock = Nobody
  /\ lock' = q
  /\ Continue(q, "check")
  /\ UNCHANGED <<now, snapshot, lease, lastId, sentinel, edit>>

FindsNoRow(q) ==
  /\ request[q].pc = "lock"
  /\ ~sentinel
  /\ Continue(q, "first")
  /\ UNCHANGED <<now, snapshot, lease, lastId, sentinel, lock, edit>>

\* mutant
CreateRowAndGo(q) ==
  /\ request[q].pc = "first"
  /\ sentinel' = TRUE
  /\ IF sentinel THEN Answer(q, "error") ELSE Continue(q, "check")
  /\ UNCHANGED <<now, snapshot, lease, lastId, lock, edit>>
\* mutant
CreateRowAgain(q) ==
  /\ request[q].pc = "first"
  /\ sentinel' = TRUE
  /\ IF sentinel THEN Continue(q, "first") ELSE Continue(q, "locking")
  /\ UNCHANGED <<now, snapshot, lease, lastId, lock, edit>>
(* Two first bookings collide on the primary key, and one fails.           *)
CreateRow(q) ==
  /\ request[q].pc = "first"
  /\ sentinel' = TRUE
  /\ IF sentinel THEN Answer(q, "error") ELSE Continue(q, "locking")
  /\ UNCHANGED <<now, snapshot, lease, lastId, lock, edit>>

\* mutant
UnlockNever(q) == lock' = lock
Unlock(q) == lock' = IF lock = q THEN Nobody ELSE lock

Verdict(q) ==
  LET row == request[q].row
  IN IF ~WithinQuota(q, row) THEN "refused"
     ELSE IF Unsortable(row) THEN "error"
     ELSE IF Conflicts(Serving(q), row) THEN "refused" ELSE "fits"

Check(q) ==
  /\ request[q].pc = "check"
  /\ \E verdict \in {Verdict(q)} :
       IF verdict = "fits" THEN Continue(q, "insert") /\ UNCHANGED lock
       ELSE Answer(q, verdict) /\ Unlock(q)
  /\ UNCHANGED <<now, snapshot, lease, lastId, sentinel, edit>>

Insert(q) ==
  /\ request[q].pc = "insert"
  /\ lease' = [lease EXCEPT ![q] = [request[q].row EXCEPT !.id = lastId + 1]]
  /\ lastId' = lastId + 1
  /\ Unlock(q)
  /\ Answer(q, "booked")
  /\ UNCHANGED <<now, snapshot, sentinel, edit>>

Proceed(q) ==
  \/ Merge(q) \/ CommitMerge(q) \/ Prepare(q) \/ Take(q)
  \/ FindsNoRow(q) \/ CreateRow(q) \/ Check(q) \/ Insert(q)
Create(q) == Arrive(q) \/ Proceed(q)

-----------------------------------------------------------------------------
(* update_lease and extend_lease: validated without the lock. update_lease *)
(* runs in a thread; extend_lease awaits Slurm before it commits.          *)

Validated(p, row) ==
  /\ edit = NoEdit
  /\ \E r \in Replicas : ~Conflicts(snapshot[r], row)
  /\ edit' = [of |-> p, begin |-> Changed(lease[p].begin, row.begin),
                        end |-> Changed(lease[p].end, row.end)]
  /\ UNCHANGED <<now, snapshot, lease, lastId, sentinel, lock, request>>

UpdateLease(p) ==
  /\ "update" \in Ops[p]
  /\ lease[p].state = "PLANNED"
  /\ lease[p].gpus <= TotalGpus
  /\ \E begin \in Wanted[p].begins :
       Validated(p, [lease[p] EXCEPT !.begin = begin, !.end = begin + Wanted[p].length])

ExtendLease(p) ==
  /\ "extend" \in Ops[p]
  /\ lease[p] # NoRow /\ lease[p].end < MaxTime
  /\ Validated(p, [lease[p] EXCEPT !.end = @ + 1])

CommitEdit ==
  /\ edit # NoEdit
  /\ lease' = [lease EXCEPT ![edit.of] = Written(@, edit)]
  /\ edit' = NoEdit
  /\ UNCHANGED <<now, snapshot, lastId, sentinel, lock, request>>

-----------------------------------------------------------------------------
(* What the workers and other handlers make of a booking.                  *)

Moves(p, from, to, asBooked) ==
  /\ lease[p].state \in from
  /\ lease' = [lease EXCEPT ![p].state = to, ![p].asBooked = asBooked]
  /\ UNCHANGED <<now, snapshot, lastId, sentinel, lock, request, edit>>

Submit(p) == lease[p].begin <= now /\ Moves(p, {"PLANNED"}, "SUBMITTED", lease[p].asBooked)
Fail(p) == "fail" \in Ops[p] /\ Moves(p, {"SUBMITTED"}, "FAILED", lease[p].asBooked)
Claim(p) == "retry" \in Ops[p] /\ Moves(p, {"FAILED"}, "RETRYING", lease[p].asBooked)
Resubmit(p) == Moves(p, {"RETRYING"}, "SUBMITTED", FALSE)
Finish(p) ==
  /\ "cancel" \in Ops[p] \/ lease[p].end <= now
  /\ Moves(p, ActiveStates \cup {"FAILED"}, "ENDED", lease[p].asBooked)

(* inventory.refresh, in whatever state Slurm is: a failure keeps the      *)
(* snapshot, but the loss of the scan for foreign jobs is taken as there   *)
(* being none.                                                             *)
Refresh ==
  /\ \E slurm \in Clusters : \E foreign \in {slurm.foreign, {}} :
       snapshot' = [snapshot EXCEPT ![Leader] = [slurm EXCEPT !.foreign = foreign]]
  /\ UNCHANGED <<now, lease, lastId, sentinel, lock, request, edit>>

(* From its arrival to its row, a request does not await anything: no time *)
(* passes.                                                                 *)
Tick ==
  /\ now < MaxTime
  /\ \A q \in Requests : request[q].pc # "merge"
  /\ now' = now + 1
  /\ UNCHANGED <<snapshot, lease, lastId, sentinel, lock, request, edit>>

Worker(p) == Submit(p) \/ Fail(p) \/ Claim(p) \/ Resubmit(p) \/ Finish(p)

Next ==
  \/ \E q \in Requests : Create(q)
  \/ \E p \in Requests : UpdateLease(p) \/ ExtendLease(p) \/ Worker(p)
  \/ CommitEdit \/ Refresh \/ Tick

Spec == Init /\ [][Next]_vars
=============================================================================
