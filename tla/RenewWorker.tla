------------------------------ MODULE RenewWorker ------------------------------
(***************************************************************************)
(* renew_worker and renew.py: a service deployment is a chain of bookings; *)
(* each one nearing its end gets a replacement, and is drained and retired *)
(* once the replacement is READY.                                          *)
(*                                                                         *)
(* renewer.todo: replacements of this cycle still to be submitted;         *)
(* renewer.subs: <<replacement, job>> pairs already answered;              *)
(* renewer.retire: bookings to retire; renewer.pend: those of them whose   *)
(* scancel has not been awaited yet.                                       *)
(***************************************************************************)
EXTENDS LeaseStore

CONSTANTS
  RenewLead,      \* RENEW_LEAD
  DrainTimeout    \* DRAIN_TIMEOUT

ASSUME RenewConstants == RenewLead \in Nat /\ DrainTimeout \in Nat \ {0}

VARIABLE renewer

RenewerIdle == [todo |-> {}, subs |-> {}, retire |-> {}, pend |-> {}, now |-> 0]

RenewerTypeOK ==
  renewer \in [todo : SUBSET Leases, subs : SUBSET (Leases \X Jobs),
               retire : SUBSET Leases, pend : SUBSET Leases, now : Time]

DueForRenewal(l) ==
  /\ lease[l].mode = "service"
  /\ lease[l].state \in Active
  /\ lease[l].end - now <= RenewLead

(* Only an active booking counts as a replacement that is under way. *)
PlanRenewals ==
  {l \in Leases :
     /\ DueForRenewal(l)
     /\ ~\E r \in Leases : lease[r].state \in Active /\ lease[r].supersedes = l}

Later(s, t) == IF s < t THEN t ELSE s

(* A due booking ends within RenewLead of now, so begin is now. *)
BuildAfter(l) ==                     \* mutant: the window of the one it replaces
  [NoRow EXCEPT !.state = "PLANNED", !.mode = "service",
                !.begin = lease[l].end, !.end = lease[l].end + RenewWindow,
                !.locked = lease[l].locked, !.supersedes = l]
BuildCopy(l) ==                                            \* mutant: keeps the job
  [lease[l] EXCEPT !.state = "PLANNED", !.begin = now, !.end = now + RenewWindow,
                   !.supersedes = l]
BuildReplacement(l) ==
  LET begin == Later(now, lease[l].end - RenewLead)
  IN  [NoRow EXCEPT !.state = "PLANNED", !.mode = "service",
                    !.begin = begin, !.end = begin + RenewWindow,
                    !.locked = lease[l].locked, !.supersedes = l]

(* The handover: bookings whose replacement has an endpoint that is READY. *)
SupersededEarly ==                   \* mutant: does not wait for the endpoint
  {l \in Leases :
     /\ lease[l].state \in Active
     /\ \E r \in Leases : lease[r].state \in Active /\ lease[r].supersedes = l}
Superseded ==
  {l \in Leases :
     /\ lease[l].state \in Active
     /\ \E r \in Leases : /\ lease[r].state \in Active
                          /\ lease[r].supersedes = l
                          /\ lease[r].job # NoJob
                          /\ ep[lease[r].job].state = "READY"}

(* drain_complete.  The number of requests in flight is the proxy's state: *)
(* `quiet` stands for the bookings it says have none.                      *)
DrainTimedOut(l) ==
  lease[l].drainingSince # Never /\ now - lease[l].drainingSince >= DrainTimeout
HasEndpoint(l) == lease[l].job # NoJob /\ ep[lease[l].job].state # "NONE"
DrainComplete(l, quiet) == DrainTimedOut(l) \/ ~HasEndpoint(l) \/ l \in quiet

Rows == Cardinality({l \in Leases : lease[l].state # "NONE"})

(* Phase 1: insert the replacements (as many as the bound on rows admits), *)
(* start draining the superseded bookings, and choose those to retire.     *)
RenewScan ==
  LET due == IF Rows + Cardinality(PlanRenewals) <= MaxLeases THEN PlanRenewals ELSE {}
      row == [l \in due |-> Rows + Cardinality({k \in due : k <= l})]
      Replacing(r) == {l \in due : row[l] = r}
  IN  /\ renewer = RenewerIdle
      /\ due # {} \/ Superseded # {}
      /\ \E quiet \in SUBSET Superseded :
           LET retire == {l \in Superseded : DrainComplete(l, quiet)}
           IN  renewer' = [todo |-> {row[l] : l \in due}, subs |-> {},
                           retire |-> retire, pend |-> retire, now |-> now]
      /\ lease' = [r \in Leases |->
                     IF Replacing(r) # {}
                     THEN BuildReplacement(CHOOSE l \in Replacing(r) : TRUE)
                     ELSE IF r \in Superseded /\ lease[r].drainingSince = Never
                     THEN [lease[r] EXCEPT !.drainingSince = now]
                     ELSE lease[r]]
      /\ UNCHANGED <<now, job, ep>>

(* Phase 2: the submissions, then the cancellations. *)
RenewSbatch(l) ==
  /\ l \in renewer.todo
  /\ \E j \in Jobs :
       /\ Sbatch(j, l)
       /\ renewer' = [renewer EXCEPT !.todo = @ \ {l}, !.subs = @ \cup {<<l, j>>}]
  /\ UNCHANGED <<now, lease, ep>>

(* A replacement that could not be submitted stays PLANNED. *)
RenewSbatchFails(l) ==
  /\ l \in renewer.todo
  /\ SbatchRaises(l)
  /\ renewer' = [renewer EXCEPT !.todo = @ \ {l}]
  /\ UNCHANGED <<now, lease, ep>>

RenewCancel(l) ==
  /\ renewer.todo = {} /\ l \in renewer.pend
  /\ IF lease[l].job = NoJob THEN UNCHANGED job ELSE Scancel(lease[l].job)
  /\ renewer' = [renewer EXCEPT !.pend = @ \ {l}]
  /\ UNCHANGED <<now, lease, ep>>

(* Phase 3, unconditional on both sides. *)
RenewWrite ==
  /\ renewer # RenewerIdle /\ renewer.todo = {} /\ renewer.pend = {}
  /\ lease' = [l \in Leases |->
                 IF l \in renewer.retire
                 THEN [lease[l] EXCEPT !.state = "ENDED", !.end = renewer.now]
                 ELSE IF \E s \in renewer.subs : s[1] = l
                 THEN [lease[l] EXCEPT !.state = "SUBMITTED",
                                       !.job = (CHOOSE s \in renewer.subs : s[1] = l)[2]]
                 ELSE lease[l]]
  /\ ep' = [j \in Jobs |->
              IF ep[j].state # "NONE" /\ \E l \in renewer.retire : lease[l].job = j
              THEN [ep[j] EXCEPT !.state = "STOPPED"]
              ELSE ep[j]]
  /\ renewer' = RenewerIdle
  /\ UNCHANGED <<now, job>>

RenewStep ==
  \/ \E l \in Leases : RenewSbatch(l) \/ RenewSbatchFails(l) \/ RenewCancel(l)
  \/ RenewWrite
RenewNext == RenewScan \/ RenewStep
===============================================================================
