------------------------ MODULE AdmissionProperties ------------------------
(* What the calendar promises, and the fairness its requests are served with. *)
EXTENDS Admission

LeaseStates == {"NONE", "PLANNED", "SUBMITTED", "FAILED", "RETRYING", "ENDED"}
Stages == {"idle", "merge", "merging", "lock", "first", "locking", "check", "insert",
           "booked", "merged", "refused", "error"}
RowType == [id : Nat, state : LeaseStates, begin : Nat, end : Nat, gpus : Nat \ {0},
            class : DOMAIN GpuClass \cup {NoClass}, pool : DOMAIN Pool \cup {NoPool},
            pin : Nat \cup {NoNode}, model : DOMAIN Model \cup {""}, asBooked : BOOLEAN]

(* Rows, requests and snapshots stay in their ranges; the lock is held by  *)
(* a request inside its transaction, and a row exists under one identity.  *)
TypeOK ==
  /\ now \in 0 .. MaxTime
  /\ snapshot \in [Replicas -> {EmptySnapshot} \cup Clusters \cup
                                 {[c EXCEPT !.foreign = {}] : c \in Clusters}]
  /\ lease \in [Requests -> RowType]
  /\ \A p, q \in Requests : lease[p].id = lease[q].id /\ lease[p] # NoRow => p = q
  /\ \A q \in Requests : request[q].pc \in Stages /\ request[q].row \in RowType
  /\ lock # Nobody => sentinel /\ request[lock].pc \in {"check", "insert"}

(* The plan never gives a GPU away twice: two bookings with a place share  *)
(* no GPU unless the guard gap of the later one lies between them, no      *)
(* booking is on a GPU of a foreign job or of another class, and a pin and *)
(* the nodes of a pool are respected. The later one has to end after it    *)
(* begins: one that was moved while a merge extended it may not, since each*)
(* commit writes its own column. (placement.compute_placements)            *)
PlacementsAreSound ==
  \A r \in Replicas :
    LET inv == snapshot[r]
        slots == EffectiveNodes(inv)
        plan == Plan(inv, ActiveLeases)
        demands == {d \in {Demand(inv, row) : row \in ActiveLeases} : plan[d.id] # NoPlace}
        gpus(d) == {<<plan[d.id].node, i>> :
                      i \in plan[d.id].start .. plan[d.id].start + d.gpus - 1}
    IN /\ \A d, e \in demands :
            Before(d, e) /\ e.begin < e.end /\ gpus(d) \cap gpus(e) # {}
              => d.end + Gap(e.class) <= e.begin
       /\ \A d \in demands :
            /\ \A g \in gpus(d) : /\ g[1] \in DOMAIN slots /\ g[2] \in DOMAIN slots[g[1]]
                                  /\ d.class # NoClass => slots[g[1]][g[2]] = d.class
            /\ \A b \in ForeignBusy(slots, inv.foreign) :
                 <<b.node, b.index>> \in gpus(d) => b.end <= d.begin \/ d.end <= b.begin
            /\ d.pin = NoNode /\ d.nodes # {} => plan[d.id].node \in d.nodes
            /\ d.pin # NoNode => plan[d.id].node = d.pin

(* However requests of one user interleave, on one replica or several: what*)
(* he has booked never exceeds his quota of concurrent GPUs from now on.   *)
(* Bookings that were moved, extended, merged into or retried since are not*)
(* counted: those steps do not look at quotas. (admin._enforce_quota under *)
(* leader.booking_lock)                                                    *)
BookedBy(u) == {lease[q] : q \in {p \in Requests : /\ Wanted[p].user = u
                                                   /\ lease[p].state \in ActiveStates
                                                   /\ lease[p].asBooked}}
QuotaIsKept ==
  \A u \in {Wanted[q].user : q \in Requests} :
    \A t \in now .. MaxTime :
      \E p \in DOMAIN Pool \cup {NoPool} : Within(GpusAt(BookedBy(u), t), QuotaFor(u, p).gpus)

(* A request never moves a booking that begins before everything it        *)
(* touches: those keep their GPUs in the plan, on any replica whose        *)
(* snapshot stays. (the order of compute_placements)                       *)
MovesNoEarlierBooking ==
  \A r \in Replicas : snapshot'[r] = snapshot[r] /\ now' = now =>
    LET inv == snapshot[r]
        demands(rows) == {Demand(inv, row) : row \in rows}
        kept == demands(ActiveLeases) \cap demands(ActiveLeases')
        changed == (demands(ActiveLeases) \cup demands(ActiveLeases')) \ kept
        standing == {d \in kept : \A e \in changed : d.begin < e.begin}
        before == Plan(inv, ActiveLeases)
        after == Plan(inv, ActiveLeases')
    IN changed # {} => \A d \in standing : before[d.id] = after[d.id]
EarlierBookingsStand == [][MovesNoEarlierBooking]_vars

(* A slot that the search for the earliest start returns passes the        *)
(* conflict check, if it is made at once, no failed booking still holds    *)
(* GPUs, none has the same window, and no node was named, by the request or*)
(* by its pool: the search looks at none of the first three, and on the    *)
(* nodes of a pool it places every other booking too.                      *)
(* (admin.create_lease, asap; scheduling.earliest_start)                   *)
FindsABookableSlot ==
  \A q \in Requests :
    /\ Wanted[q].asap /\ request[q].pc = "idle" /\ request'[q].pc = "merge"
    /\ Active(Rows) = ActiveLeases /\ Wanted[q].node = NoNode
    /\ \A pool \in PoolOf(RequestedPool(q)) : pool.nodes = {}
    /\ ~Unsortable(request'[q].row)
    => ~Conflicts(Serving(q), request'[q].row)
AsapIsBookable == [][FindsABookableSlot]_vars

(* No request waits for ever: not for the lock, not for the first booking  *)
(* of all to make its row.                                                 *)
Answered(q) == request[q].pc \in {"idle", "booked", "merged", "refused", "error"}
RequestsAreAnswered == \A q \in Requests : []<>Answered(q)

(* README.md:177: "the scheduler refuses overlapping bookings on the same  *)
(* GPUs". Every booking of a managed pool has a place of its own.          *)
NoDoubleBooking ==
  \A row \in ActiveLeases : Managed(row) => Plan(snapshot[Leader], ActiveLeases)[row.id] # NoPlace

(* A request is served to its end; Postgres queues those that wait for a   *)
(* row lock, and each comes once.                                          *)
Fairness == \A q \in Requests : WF_vars(Proceed(q))
FairSpec == Spec /\ Fairness
=============================================================================
