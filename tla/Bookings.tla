------------------------------- MODULE Bookings -------------------------------
(***************************************************************************)
(* The request handlers of admin.py that change a booking: create, move,   *)
(* extend, shorten, lock, unlock, cancel and stop.  Those that call Slurm  *)
(* await it in the middle; what they do afterwards rests on the row as     *)
(* they loaded it.  Whether a booking fits the calendar is decided before  *)
(* anything modelled here.                                                 *)
(*                                                                         *)
(* creating[l] is the create handler of booking l, request[l] any other    *)
(* handler that is at work on it; registering holds the jobs whose         *)
(* registration is between its two commits.                                *)
(*                                                                         *)
(* Each transaction of a handler is one step.  The handlers declared with  *)
(* `def` run in FastAPI's thread pool, beside the event loop.              *)
(***************************************************************************)
EXTENDS LeaseStore

CONSTANTS
  Ops,          \* the requests users make, see OpKinds
  Modes,        \* the modes bookings are created with
  Durations     \* the lengths of windows and of extensions

OpKinds == {"create_now", "create_planned", "update", "extend", "shorten",
            "lock", "unlock", "cancel", "stop"}

ASSUME BookingConstants ==
  /\ Ops \subseteq OpKinds
  /\ Modes \subseteq {"session", "service"}
  /\ Durations \subseteq Nat

VARIABLES creating, request, registering

NotCreating == [step |-> "none", job |-> NoJob]

(* Bound: one handler at a time per booking, beside the one creating it.   *)
(* job: the job number of the loaded row; end: the value to be written;    *)
(* from: the state of the loaded row.                                      *)
NoRequest == [op |-> "none", job |-> NoJob, end |-> 0, from |-> "NONE"]

RequestTypeOK ==
  /\ creating \in [Leases -> [step : {"none", "submit", "record"}, job : Jobs \cup {NoJob}]]
  /\ request \in [Leases -> [op : {"none", "extend", "cancel", "stop"},
                             job : Jobs \cup {NoJob}, end : 0..MaxEnd, from : LeaseState]]
  /\ registering \subseteq Jobs

Exists(l) == lease[l].state # "NONE"
Free(l) == Exists(l) /\ request[l] = NoRequest
Done(l) == request' = [request EXCEPT ![l] = NoRequest]

(* create_lease for a later start: the row is inserted PLANNED. *)
CreatePlanned(l) ==
  /\ "create_planned" \in Ops
  /\ IsNextLease(l)
  /\ \E begin \in Time, d \in Durations, m \in Modes :
       /\ begin > now /\ begin + d <= MaxEnd
       /\ lease' = [lease EXCEPT ![l] =
                      [NoRow EXCEPT !.state = "PLANNED", !.begin = begin,
                                    !.end = begin + d, !.mode = m]]
  /\ UNCHANGED <<now, job, ep, creating, request>>

(* create_lease for now: the row is committed as SUBMITTED before sbatch.  *)
CreateNow(l) ==
  /\ "create_now" \in Ops
  /\ IsNextLease(l)
  /\ \E d \in Durations, m \in Modes :
       /\ now + d <= MaxEnd
       /\ lease' = [lease EXCEPT ![l] =
                      [NoRow EXCEPT !.state = "SUBMITTED", !.begin = now,
                                    !.end = now + d, !.mode = m]]
  /\ creating' = [creating EXCEPT ![l].step = "submit"]
  /\ UNCHANGED <<now, job, ep, request>>

CreateSbatch(l) ==
  /\ creating[l].step = "submit"
  /\ \E j \in Jobs :
       /\ Sbatch(j, l)
       /\ creating' = [creating EXCEPT ![l] = [step |-> "record", job |-> j]]
  /\ UNCHANGED <<now, lease, ep, request>>

CreateRecord(l) ==
  /\ creating[l].step = "record"
  /\ lease' = [lease EXCEPT ![l].job = creating[l].job]
  /\ creating' = [creating EXCEPT ![l] = NotCreating]
  /\ UNCHANGED <<now, job, ep, request>>

CreateGivesUp(l) ==                                        \* mutant: row left SUBMITTED
  /\ creating[l].step = "submit"
  /\ SbatchRaises(l)
  /\ creating' = [creating EXCEPT ![l] = NotCreating]
  /\ UNCHANGED <<now, lease, ep, request>>

(* Written whatever has become of the booking meanwhile. *)
CreateFails(l) ==
  /\ creating[l].step = "submit"
  /\ SbatchRaises(l)
  /\ lease' = [lease EXCEPT ![l] = Fail(@, now)]
  /\ creating' = [creating EXCEPT ![l] = NotCreating]
  /\ UNCHANGED <<now, ep, request>>

(* update_lease: only a planned booking can be moved or resized. *)
UpdateLease(l) ==
  /\ "update" \in Ops
  /\ Free(l) /\ lease[l].state = "PLANNED"
  /\ \E begin \in Time, d \in Durations :
       /\ d > 0 /\ begin + d <= MaxEnd
       /\ lease' = [lease EXCEPT ![l].begin = begin, ![l].end = begin + d]
  /\ UNCHANGED <<now, job, ep, creating, request>>

(* extend_lease and shorten_lease commit the new end after awaiting the    *)
(* update of the job's time limit, if there is a job to update.            *)
SetEnd(l, end) ==
  IF lease[l].job # NoJob /\ lease[l].state \in Active
  THEN /\ request' = [request EXCEPT ![l] = [NoRequest EXCEPT !.op = "extend", !.end = end]]
       /\ UNCHANGED lease
  ELSE /\ lease' = [lease EXCEPT ![l].end = end]
       /\ UNCHANGED request

ExtendLease(l) ==
  /\ "extend" \in Ops
  /\ Free(l)
  /\ \E d \in Durations : lease[l].end + d <= MaxEnd /\ SetEnd(l, lease[l].end + d)
  /\ UNCHANGED <<now, job, ep, creating>>

ShortenLease(l) ==
  /\ "shorten" \in Ops
  /\ Free(l) /\ lease[l].state \in Active \cup {"PLANNED"}
  /\ \E end \in 0..MaxEnd :
       /\ now < end /\ lease[l].begin < end /\ end < lease[l].end
       /\ SetEnd(l, end)
  /\ UNCHANGED <<now, job, ep, creating>>

CommitEnd(l) ==
  /\ request[l].op = "extend"
  /\ lease' = [lease EXCEPT ![l].end = request[l].end]
  /\ Done(l)
  /\ UNCHANGED <<now, job, ep, creating>>

LockLease(l) ==
  /\ "lock" \in Ops
  /\ Exists(l)
  /\ \E permanent \in BOOLEAN :
       lease' = [lease EXCEPT ![l].locked = TRUE,
                              ![l].mode = IF permanent THEN "service" ELSE @,
                              ![l].retries = IF permanent THEN 0 ELSE @]
  /\ UNCHANGED <<now, job, ep, creating, request>>

UnlockLease(l) ==
  /\ "unlock" \in Ops
  /\ Exists(l)
  /\ lease' = [lease EXCEPT ![l].locked = FALSE, ![l].mode = "session"]
  /\ UNCHANGED <<now, job, ep, creating, request>>

(* cancel_lease works on a booking in any state, stop_lease_now on an      *)
(* active or planned one; a booking with a job awaits its scancel.         *)
MayCancel(l, op) ==
  \/ op = "cancel"
  \/ op = "stop" /\ lease[l].state \in Active \cup {"PLANNED"}

CancelLease(l) ==
  /\ Free(l)
  /\ \E op \in {"cancel", "stop"} \cap Ops :
       /\ MayCancel(l, op)
       /\ IF lease[l].job = NoJob
          THEN /\ lease' = [lease EXCEPT ![l].state = "CANCELED",
                                         ![l].end = IF op = "stop" THEN now ELSE @]
               /\ UNCHANGED <<job, request>>
          ELSE /\ Scancel(lease[l].job)
               /\ request' = [request EXCEPT ![l] =
                                [op |-> op, job |-> lease[l].job, end |-> 0,
                                 from |-> lease[l].state]]
               /\ UNCHANGED lease
  /\ UNCHANGED <<now, ep, creating>>

(* After the await.  A column whose value is the one loaded is not part of *)
(* the UPDATE, so cancelling a booking loaded CANCELED writes no state.    *)
CommitCancel(l) ==
  LET r == request[l]
  IN  /\ r.op \in {"cancel", "stop"}
      /\ lease' = [lease EXCEPT ![l].state = IF r.from = "CANCELED" THEN @ ELSE "CANCELED",
                                ![l].end = IF r.op = "stop" THEN now ELSE @]
      /\ ep' = [ep EXCEPT ![r.job].state = IF @ = "NONE" THEN @ ELSE "STOPPED"]
      /\ Done(l)
      /\ UNCHANGED <<now, job, creating>>

RequestArrives ==
  \E l \in Leases : CreatePlanned(l) \/ CreateNow(l) \/ UpdateLease(l) \/ ExtendLease(l)
                    \/ ShortenLease(l) \/ LockLease(l) \/ UnlockLease(l) \/ CancelLease(l)
RequestStep(l) ==
  CreateSbatch(l) \/ CreateRecord(l) \/ CreateFails(l) \/ CommitEnd(l) \/ CommitCancel(l)

-------------------------------------------------------------------------------
(* POST /admin/endpoints/register, sent by the job's own script: the       *)
(* endpoint is committed first, then the booking.                          *)
RegisterEndpoint(j) ==
  /\ job[j].st \in {"CALLING", "LOST"} /\ j \notin registering
  /\ ep' = [ep EXCEPT ![j] =
              IF @.state = "NONE" THEN [state |-> "STARTING", fails |-> 0, born |-> now]
              ELSE IF @.state = "READY" THEN @
              ELSE [@ EXCEPT !.state = "STARTING"]]
  /\ registering' = registering \cup {j}
  /\ UNCHANGED <<now, lease, job>>

RegisterLease(j) ==
  /\ j \in registering
  /\ lease' = [l \in Leases |->
                 IF l \in LeasesOf(j) /\ lease[l].state \in {"SUBMITTED", "PLANNED"}
                 THEN [lease[l] EXCEPT !.state = "STARTING"]
                 ELSE lease[l]]
  /\ job' = [job EXCEPT ![j].st = IF @ = "CALLING" THEN "LOADING"
                                  ELSE IF @ = "LOST" THEN "GONE" ELSE @]
  /\ registering' = registering \ {j}
  /\ UNCHANGED <<now, ep>>
===============================================================================
