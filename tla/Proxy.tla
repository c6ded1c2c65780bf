-------------------------------- MODULE Proxy --------------------------------
(***************************************************************************)
(* The requests for one model through the proxy (main.py's routes,         *)
(* proxy.py and track_proxy), while renew_worker replaces the job that     *)
(* serves it (renew.py): a request is given to an endpoint, counted, sent  *)
(* upstream, answered, and ends by success, failure, timeout or the        *)
(* departure of its client; the old job is drained and cancelled.          *)
(*                                                                         *)
(* The handover is seen from the proxy: renew_worker's part in the         *)
(* bookings is RenewWorker.                                                *)
(***************************************************************************)
EXTENDS LoadBalancer

CONSTANTS
  Requests,
  Uploads,    \* requests whose files are read after the endpoint is chosen
  Leader,     \* the router process that runs renew_worker
  Nowhere

ASSUME ProxyConstants ==
  /\ Uploads \subseteq Requests /\ IsFiniteSet(Requests)
  /\ Leader \in Routers
  /\ Nowhere \notin Endpoints

VARIABLES
  ready,      \* the endpoints whose row is READY
  server,     \* the endpoints at which a job serves
  old, new,   \* the endpoints of the booking that serves and of its replacement
  drain,      \* draining_since of the old booking: none, begun, DRAIN_TIMEOUT ago
  renewer,    \* what renew_worker has decided and not yet done
  pc,         \* the point a request is at
  via, at,    \* the router that has it, the endpoint that was chosen for it
  conn,       \* its connection to the endpoint
  connected,  \* the requests whose client is still there
  starts, status, \* how often the client got http.response.start, and whether
                  \* by an answer (of the upstream or an error) or an empty one
  marked,     \* the requests whose _response_started is set
  forced      \* history: requests for which every READY endpoint was draining

handover == <<ready, server, old, new, drain, renewer>>
answer == <<starts, status, marked>>
request == <<pc, via, at, conn>>
vars == <<registry, handover, answer, request, connected, forced>>

Sent == {"sent", "buffer", "relay"}
Counted == Sent \cup {"closing"}
InFlight(r, e) == {q \in Requests : pc[q] \in Counted /\ via[q] = r /\ at[q] = e}

TypeOK ==
  /\ RegistryType
  /\ ready \subseteq Endpoints /\ server \subseteq Endpoints
  /\ old \in Endpoints \cup {Nowhere} /\ new \in Endpoints \cup {Nowhere}
  /\ drain \in {"none", "begun", "overdue"}
  /\ renewer \in {"idle", "drained", "timedout", "write"}
  /\ pc \in [Requests -> Counted \cup {"idle", "parse", "done"}]
  /\ via \in [Requests -> Routers]
  /\ at \in [Requests -> Endpoints \cup {Nowhere}]
  /\ conn \in [Requests -> {"pending", "open", "broken", "closed"}]
  /\ connected \subseteq Requests
  /\ starts \in [Requests -> Nat]
  /\ status \in [Requests -> {"none", "told", "empty"}]
  /\ marked \subseteq Requests /\ forced \subseteq Requests

Init ==
  /\ RegistryInit
  /\ old \in Endpoints /\ new = Nowhere
  /\ ready = {old} /\ server = {old}
  /\ drain = "none" /\ renewer = "idle"
  /\ pc = [q \in Requests |-> "idle"]
  /\ via = [q \in Requests |-> Leader] /\ at = [q \in Requests |-> Nowhere]
  /\ conn = [q \in Requests |-> "closed"]
  /\ connected = {}
  /\ starts = [q \in Requests |-> 0] /\ status = [q \in Requests |-> "none"]
  /\ marked = {} /\ forced = {}

-------------------------------------------------------------------------------
(* What is sent to a client that is gone reaches nobody; the send fails or *)
(* does not, and the request goes on as below either way.                  *)
Start(q, s) ==
  /\ marked' = marked \cup {q}
  /\ IF q \in connected
     THEN starts' = [starts EXCEPT ![q] = @ + 1] /\ status' = [status EXCEPT ![q] = s]
     ELSE UNCHANGED <<starts, status>>

(* _safe_empty_response *)
EmptyNever(q) == UNCHANGED answer                                   \* mutant
Empty(q) == IF q \in marked THEN UNCHANGED answer ELSE Start(q, "empty")

-------------------------------------------------------------------------------
Fresh(q) ==
  /\ pc[q] \in {"idle", "done"}
  /\ connected' = connected \cup {q}
  /\ UNCHANGED handover

(* A request arrives at a router, which chooses an endpoint.  Unless there *)
(* are files to read, nothing happens between the choice and the count.    *)
Arrive(q, r) ==
  /\ Fresh(q)
  /\ starts' = [starts EXCEPT ![q] = 0] /\ status' = [status EXCEPT ![q] = "none"]
  /\ marked' = marked \ {q}
  /\ \E e \in LeastLoaded(r, ready) :
       /\ via' = [via EXCEPT ![q] = r]
       /\ at' = [at EXCEPT ![q] = e]
       /\ forced' = IF ready \subseteq draining[r] THEN forced \cup {q} ELSE forced
       /\ IF q \in Uploads
          THEN /\ pc' = [pc EXCEPT ![q] = "parse"]
               /\ UNCHANGED <<registry, conn>>
          ELSE /\ pc' = [pc EXCEPT ![q] = "sent"]
               /\ conn' = [conn EXCEPT ![q] = "pending"]
               /\ Acquire(r, e)

(* No endpoint is READY: 503. *)
Refuse(q) ==
  /\ Fresh(q)
  /\ ready = {}
  /\ starts' = [starts EXCEPT ![q] = 1] /\ status' = [status EXCEPT ![q] = "told"]
  /\ pc' = [pc EXCEPT ![q] = "done"]
  /\ UNCHANGED <<registry, marked, via, at, conn, forced>>

Dispatch(q) ==
  /\ pc[q] = "parse"
  /\ pc' = [pc EXCEPT ![q] = "sent"]
  /\ conn' = [conn EXCEPT ![q] = "pending"]
  /\ Acquire(via[q], at[q])
  /\ UNCHANGED <<handover, answer, via, at, connected, forced>>

Moves(q, p) ==
  /\ pc' = [pc EXCEPT ![q] = p]
  /\ forced' = IF p = "closing" THEN forced \ {q} ELSE forced
  /\ UNCHANGED <<registry, handover, via, at, connected>>

(* Until the response is there, an abandoned attempt is cancelled, or its  *)
(* response taken and closed.                                              *)
LeftPending(q) == UNCHANGED conn                                    \* mutant
Abandoned(q) ==
  conn' = [conn EXCEPT ![q] = IF @ = "pending" THEN "closed" ELSE @]

(* The response arrives.  It is streamed, or (a request that is no stream, *)
(* a status of 400 or more) read to its end first.                         *)
Respond(q) ==
  /\ pc[q] = "sent" /\ conn[q] = "pending" /\ at[q] \in server
  /\ conn' = [conn EXCEPT ![q] = "open"]
  /\ \/ Moves(q, "buffer") /\ UNCHANGED answer
     \/ Moves(q, "relay") /\ Start(q, "told")
     \/ q \notin connected /\ Moves(q, "closing") /\ Empty(q)

Complete(q) ==
  /\ conn[q] = "open"
  /\ \/ pc[q] = "buffer" /\ Start(q, "told")
     \/ pc[q] = "relay" /\ UNCHANGED answer
  /\ Moves(q, "closing")
  /\ UNCHANGED conn

UpstreamFails(q) ==
  /\ pc[q] \in Sent
  /\ IF q \in marked THEN UNCHANGED answer ELSE Start(q, "told")
  /\ Abandoned(q)
  /\ Moves(q, "closing")

Disconnected(q) ==
  /\ pc[q] \in Sent /\ q \notin connected
  /\ Empty(q)
  /\ Abandoned(q)
  /\ Moves(q, "closing")

(* The deadline raises asyncio.TimeoutError, an OSError since Python 3.11: *)
(* it is handled as a client that is gone.                                 *)
TimesOut(q) ==
  /\ pc[q] \in Sent
  /\ Empty(q)
  /\ Abandoned(q)
  /\ Moves(q, "closing")

(* finally: close the response; and track_proxy counts the request off,    *)
(* whatever became of it.                                                  *)
Closes(q) ==
  /\ pc[q] = "closing"
  /\ pc' = [pc EXCEPT ![q] = "done"]
  /\ at' = [at EXCEPT ![q] = Nowhere]
  /\ conn' = [conn EXCEPT ![q] = IF @ \in {"open", "broken"} THEN "closed" ELSE @]
  /\ UNCHANGED <<handover, answer, via, connected, forced>>
FinishAnswered(q) ==                                                \* mutant
  Closes(q) /\ IF status[q] = "told" THEN Release(via[q], at[q]) ELSE UNCHANGED registry
Finish(q) == Closes(q) /\ Release(via[q], at[q])

(* A client that leaves while its files are read is noticed in "sent". *)
Leave(q) ==
  /\ q \in connected /\ pc[q] \in Sent
  /\ connected' = connected \ {q}
  /\ UNCHANGED <<registry, handover, answer, request, forced>>

-------------------------------------------------------------------------------
(* A job ends, by itself or cancelled, and its connections with it. *)
Ends(e) ==
  /\ server' = server \ {e}
  /\ conn' = [q \in Requests |->
                IF at[q] = e /\ conn[q] \in {"pending", "open"} THEN "broken" ELSE conn[q]]

Undisturbed == UNCHANGED <<answer, pc, via, at, connected, forced>>

(* A job of the old booking (retried) or of its replacement has loaded the *)
(* model and is READY.  Its host:port is free: requests to an ended job    *)
(* break off at once, and a model takes minutes to load.                   *)
Register(e) ==
  /\ e \notin ready \cup server \cup {old, new}
  /\ \A r \in Routers : InFlight(r, e) = {}
  /\ \/ old = Nowhere /\ old' = e /\ UNCHANGED new
     \/ new = Nowhere /\ new' = e /\ UNCHANGED old
  /\ ready' = ready \cup {e} /\ server' = server \cup {e}
  /\ UNCHANGED <<drain, renewer, registry, conn>> /\ Undisturbed

(* A job dies; then its endpoint is taken out by health_worker, or by      *)
(* whoever ended the booking.  Nothing forgets its load.                   *)
Die(e) ==
  /\ e \in server
  /\ Ends(e)
  /\ UNCHANGED <<ready, old, new, drain, renewer, registry>> /\ Undisturbed

Withdraw(e) ==
  /\ e \in ready \ server
  /\ ready' = ready \ {e}
  /\ old' = IF e = old /\ renewer = "idle" THEN Nowhere ELSE old
  /\ new' = IF e = new THEN Nowhere ELSE new
  /\ UNCHANGED <<server, drain, renewer, registry, conn>> /\ Undisturbed

(* renew_worker, phase 1, once the replacement is READY: begin the drain,  *)
(* and decide to retire the old job when it is complete.                   *)
DrainPatient ==                                                     \* mutant
  IF inFlight[Leader][old] = 0 THEN renewer' = "drained" ELSE UNCHANGED renewer
DrainComplete ==
  IF drain = "overdue" THEN renewer' = "timedout"
  ELSE IF inFlight[Leader][old] = 0 THEN renewer' = "drained"
  ELSE UNCHANGED renewer

Drain ==
  /\ renewer = "idle" /\ new \in ready /\ old # Nowhere
  /\ SetDraining(Leader, old)
  /\ drain' = IF drain = "none" THEN "begun" ELSE drain
  /\ DrainComplete
  /\ UNCHANGED <<ready, server, old, new, conn>> /\ Undisturbed

DrainTimeout ==
  /\ drain = "begun"
  /\ drain' = "overdue"
  /\ UNCHANGED <<ready, server, old, new, renewer, registry, conn>> /\ Undisturbed

(* Phase 2, the scancel is awaited (one that fails is logged and that is   *)
(* all); phase 3, the bookkeeping.                                         *)
Cancel ==
  /\ renewer \in {"drained", "timedout"}
  /\ renewer' = "write"
  /\ Ends(old) \/ UNCHANGED <<server, conn>>
  /\ UNCHANGED <<ready, old, new, drain, registry>> /\ Undisturbed

Retire ==
  /\ renewer = "write"
  /\ renewer' = "idle" /\ drain' = "none"
  /\ Forget(Leader, old)
  /\ ready' = ready \ {old}
  /\ old' = new /\ new' = Nowhere
  /\ UNCHANGED <<server, conn>> /\ Undisturbed

(* An old booking with no endpoint has nothing to drain. *)
RetireUnregistered ==
  /\ renewer = "idle" /\ new \in ready /\ old = Nowhere
  /\ drain' = "none"
  /\ old' = new /\ new' = Nowhere
  /\ UNCHANGED <<ready, server, renewer, registry, conn>> /\ Undisturbed

Next ==
  \/ \E q \in Requests :
       \/ \E r \in Routers : Arrive(q, r)
       \/ Refuse(q) \/ Dispatch(q) \/ Respond(q) \/ Complete(q) \/ UpstreamFails(q)
       \/ Disconnected(q) \/ TimesOut(q) \/ Finish(q) \/ Leave(q)
  \/ \E e \in Endpoints : Register(e) \/ Die(e) \/ Withdraw(e)
  \/ Drain \/ DrainTimeout \/ Cancel \/ Retire \/ RetireUnregistered

Spec == Init /\ [][Next]_vars

(* renew_worker comes round again, its scancel returns, and time passes.   *)
(* Nothing is asked of the requests: they may hang for ever.               *)
Fairness == WF_vars(Drain) /\ WF_vars(DrainTimeout) /\ WF_vars(Cancel) /\ WF_vars(Retire)
FairSpec == Spec /\ Fairness

-------------------------------------------------------------------------------
(* "It cannot drift out of sync with the request": a router's count for an *)
(* endpoint in use is the number of its requests there, on every path a    *)
(* request can take, or a drain would never end or end too early.          *)
CountsAreExact ==
  \A r \in Routers, e \in Endpoints :
    e \in ready => inFlight[r][e] = Cardinality(InFlight(r, e))

(* The ASGI contract: no response starts twice, and none ends without one  *)
(* unless its client is gone.                                              *)
OneAnswer ==
  \A q \in Requests :
    /\ starts[q] <= 1
    /\ pc[q] = "done" /\ q \in connected => starts[q] = 1

(* A request that is over, however it ended, holds no connection to its    *)
(* endpoint: "downstream disconnect aborts upstream request".              *)
NothingIsLeftOpen ==
  \A q \in Requests : pc[q] = "done" => conn[q] = "closed"

(* "Once its in-flight requests finish, cancel it": a drain that was not   *)
(* cut short cancels no request, but those that had nowhere else to go and *)
(* the uploads that were on their way when it was decided.                 *)
DrainKillsNothing ==
  [][renewer = "drained" /\ renewer' = "write"
     => \A q \in Requests :
          pc[q] \in Sent /\ at[q] = old => q \in forced \cup Uploads]_vars

(* "A hung stream would otherwise keep a GPU forever": two jobs do not     *)
(* serve the model side by side for ever, whatever their requests do.      *)
HandoverEnds == []<>~({old, new} \subseteq ready)
===============================================================================
