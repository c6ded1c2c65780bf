----------------------------- MODULE ProxyProofs -----------------------------
(***************************************************************************)
(* What holds of the proxy and the load registry for any number of         *)
(* requests, routers and endpoints.                                        *)
(***************************************************************************)
EXTENDS Proxy, FiniteSetTheorems, TLAPS

(* What is known of a request by the point it is at. *)
RequestInv ==
  \A q \in Requests :
    /\ pc[q] \in Counted \cup {"parse"} => at[q] \in Endpoints
    /\ pc[q] = "parse" => q \in Uploads
    /\ pc[q] \in {"buffer", "relay", "closing"} => conn[q] # "pending"
    /\ pc[q] \in {"idle", "done"} => conn[q] = "closed"

AnswerInv ==
  \A q \in Requests :
    /\ pc[q] \in {"parse", "sent", "buffer"} => q \notin marked /\ starts[q] = 0
    /\ pc[q] = "relay" => q \in marked
    /\ pc[q] \in {"relay", "closing", "done"} /\ q \in connected => starts[q] = 1
    /\ starts[q] <= 1

(* A count may have been forgotten, but only for an endpoint out of use.   *)
CountInv ==
  \A r \in Routers, e \in Endpoints :
    /\ inFlight[r][e] <= Cardinality(InFlight(r, e))
    /\ e \in ready => inFlight[r][e] = Cardinality(InFlight(r, e))

(* The two bookings serve at endpoints of their own, until the old one is  *)
(* to be retired.                                                          *)
RoleInv ==
  /\ new # Nowhere => new \in ready /\ new # old
  /\ old # Nowhere /\ renewer = "idle" => old \in ready
  /\ renewer # "idle" => old # Nowhere

(* Between the decision to retire and the scancel, only requests that had  *)
(* no other endpoint, and uploads, are given to the old one.               *)
DrainInv ==
  renewer = "drained" =>
    /\ old \in draining[Leader]
    /\ \A q \in Requests :
         pc[q] \in Sent /\ at[q] = old /\ via[q] = Leader => q \in forced \cup Uploads

-------------------------------------------------------------------------------
(* The steps that leave everything of the requests but their connections. *)
HandoverStep ==
  \/ \E e \in Endpoints : Register(e) \/ Die(e) \/ Withdraw(e)
  \/ Drain \/ DrainTimeout \/ Cancel \/ Retire \/ RetireUnregistered

(* The steps within a request that is counted. *)
Inner(q) == Respond(q) \/ Complete(q) \/ UpstreamFails(q) \/ Disconnected(q) \/ TimesOut(q)

LEMMA HandoverTypes == TypeOK /\ HandoverStep => TypeOK'
<1> SUFFICES ASSUME TypeOK, HandoverStep PROVE TypeOK'
  OBVIOUS
<1> USE ProxyConstants DEF TypeOK, RegistryType, Undisturbed, answer
<1>1. ASSUME NEW e \in Endpoints, Register(e) PROVE TypeOK'
  BY <1>1 DEF Register, registry
<1>2. ASSUME NEW e \in Endpoints, Die(e) PROVE TypeOK'
  BY <1>2 DEF Die, Ends, registry
<1>3. ASSUME NEW e \in Endpoints, Withdraw(e) PROVE TypeOK'
  BY <1>3 DEF Withdraw, registry
<1>4. CASE Drain
  BY <1>4 DEF Drain, SetDraining, DrainComplete
<1>5. CASE DrainTimeout
  BY <1>5 DEF DrainTimeout, registry
<1>6. CASE Cancel
  BY <1>6 DEF Cancel, Ends, registry
<1>7. CASE Retire
  BY <1>7 DEF Retire, Forget
<1>8. CASE RetireUnregistered
  BY <1>8 DEF RetireUnregistered, registry
<1> QED
  BY <1>1, <1>2, <1>3, <1>4, <1>5, <1>6, <1>7, <1>8 DEF HandoverStep

(* Such a step moves the request on, sends at most one start, and may      *)
(* change its connection.                                                  *)
InnerShape(q) ==
  /\ pc[q] \in Sent
  /\ \E p \in Counted \ {"sent"} : Moves(q, p)
  /\ UNCHANGED answer \/ \E s \in {"told", "empty"} : Start(q, s)
  /\ \E c \in {"pending", "open", "broken", "closed"} : conn' = [conn EXCEPT ![q] = c]

LEMMA InnerSteps ==
  ASSUME TypeOK, NEW q \in Requests, Inner(q)
  PROVE  InnerShape(q)
<1>1. CASE Respond(q)
  <2>1. pc[q] \in Sent
    BY <1>1 DEF Respond, Sent
  <2>2. \E p \in Counted \ {"sent"} : Moves(q, p)
    BY <1>1 DEF Respond, Counted, Sent
  <2>3. UNCHANGED answer \/ \E s \in {"told", "empty"} : Start(q, s)
    BY <1>1 DEF Respond, Empty
  <2> QED
    BY <1>1, <2>1, <2>2, <2>3 DEF Respond, InnerShape
<1>2. CASE Complete(q)
  <2>1. conn' = [conn EXCEPT ![q] = conn[q]]
    BY <1>2 DEF Complete, TypeOK
  <2>2. \E p \in Counted \ {"sent"} : Moves(q, p)
    BY <1>2 DEF Complete, Counted
  <2> QED
    BY <1>2, <2>1, <2>2 DEF Complete, InnerShape, Sent, TypeOK
<1>3. CASE pc[q] \in Sent /\ Abandoned(q) /\ Moves(q, "closing")
           /\ (UNCHANGED answer \/ \E s \in {"told", "empty"} : Start(q, s))
  <2>1. PICK c \in {"pending", "open", "broken", "closed"} : conn' = [conn EXCEPT ![q] = c]
    BY <1>3 DEF Abandoned, TypeOK
  <2>2. \E p \in Counted \ {"sent"} : Moves(q, p)
    BY <1>3 DEF Counted
  <2> QED
    BY <1>3, <2>1, <2>2 DEF InnerShape
<1>4. CASE UpstreamFails(q)
  BY <1>3, <1>4 DEF UpstreamFails
<1>5. CASE Disconnected(q)
  BY <1>3, <1>5 DEF Disconnected, Empty
<1>6. CASE TimesOut(q)
  BY <1>3, <1>6 DEF TimesOut, Empty
<1> QED
  BY <1>1, <1>2, <1>4, <1>5, <1>6 DEF Inner

LEMMA InnerTypes ==
  ASSUME TypeOK, NEW q \in Requests, InnerShape(q)
  PROVE  TypeOK'
<1>1. PICK p \in Counted \ {"sent"} : Moves(q, p)
  BY DEF InnerShape
<1>2. PICK c \in {"pending", "open", "broken", "closed"} : conn' = [conn EXCEPT ![q] = c]
  BY DEF InnerShape
<1>3. /\ starts' \in [Requests -> Nat]
      /\ status' \in [Requests -> {"none", "told", "empty"}]
      /\ marked' \subseteq Requests
  BY DEF InnerShape, answer, Start, TypeOK
<1>4. /\ pc' \in [Requests -> Counted \cup {"idle", "parse", "done"}]
      /\ conn' \in [Requests -> {"pending", "open", "broken", "closed"}]
      /\ forced' \subseteq Requests
  BY <1>1, <1>2 DEF Moves, TypeOK
<1>5. UNCHANGED <<registry, handover, via, at, connected>>
  BY <1>1 DEF Moves
<1> QED
  BY <1>3, <1>4, <1>5 DEF TypeOK, RegistryType, registry, handover

(* What an arrival does with the endpoint it was given. *)
Chosen(q, r, e) ==
  /\ via' = [via EXCEPT ![q] = r]
  /\ at' = [at EXCEPT ![q] = e]
  /\ forced' = forced \/ forced' = forced \cup {q}
  /\ ready \subseteq draining[r] => q \in forced'
  /\ \/ /\ q \in Uploads
        /\ pc' = [pc EXCEPT ![q] = "parse"]
        /\ UNCHANGED <<registry, conn>>
     \/ /\ pc' = [pc EXCEPT ![q] = "sent"]
        /\ conn' = [conn EXCEPT ![q] = "pending"]
        /\ Acquire(r, e)

LEMMA ArriveChooses ==
  ASSUME NEW q \in Requests, NEW r \in Routers, Arrive(q, r)
  PROVE  \E e \in LeastLoaded(r, ready) : Chosen(q, r, e)
<1>1. PICK e \in LeastLoaded(r, ready) :
        /\ via' = [via EXCEPT ![q] = r]
        /\ at' = [at EXCEPT ![q] = e]
        /\ forced' = IF ready \subseteq draining[r] THEN forced \cup {q} ELSE forced
        /\ IF q \in Uploads
           THEN /\ pc' = [pc EXCEPT ![q] = "parse"]
                /\ UNCHANGED <<registry, conn>>
           ELSE /\ pc' = [pc EXCEPT ![q] = "sent"]
                /\ conn' = [conn EXCEPT ![q] = "pending"]
                /\ Acquire(r, e)
  BY DEF Arrive
<1>2. /\ forced' = forced \/ forced' = forced \cup {q}
      /\ ready \subseteq draining[r] => q \in forced'
  BY <1>1
<1>3. Chosen(q, r, e)
  BY <1>1, <1>2 DEF Chosen
<1> QED
  BY <1>3

LEMMA RequestTypes ==
  ASSUME TypeOK, RequestInv, NEW q \in Requests,
         \/ \E r \in Routers : Arrive(q, r)
         \/ Refuse(q) \/ Dispatch(q) \/ Finish(q) \/ Leave(q)
  PROVE  TypeOK'
<1> USE DEF TypeOK, RegistryType
<1>1. ASSUME NEW r \in Routers, Arrive(q, r) PROVE TypeOK'
  <2>1. PICK e \in LeastLoaded(r, ready) : Chosen(q, r, e)
    BY <1>1, ArriveChooses
  <2>2. e \in ready
    BY DEF LeastLoaded, Candidates, Live
  <2>3. RegistryType'
    <3>1. CASE UNCHANGED registry
      BY <3>1 DEF registry
    <3>2. CASE Acquire(r, e)
      BY <2>2, <3>2 DEF Acquire
    <3> QED
      BY <2>1, <3>1, <3>2 DEF Chosen
  <2>4. /\ pc' \in [Requests -> Counted \cup {"idle", "parse", "done"}]
        /\ conn' \in [Requests -> {"pending", "open", "broken", "closed"}]
    BY <2>1 DEF Chosen, Counted, Sent
  <2> QED
    BY <1>1, <2>1, <2>2, <2>3, <2>4 DEF Chosen, Arrive, Fresh, handover
<1>2. CASE Refuse(q)
  BY <1>2 DEF Refuse, Fresh, registry, handover
<1>3. CASE Dispatch(q)
  <2>1. at[q] \in Endpoints
    BY <1>3 DEF Dispatch, RequestInv
  <2>2. /\ pc' \in [Requests -> Counted \cup {"idle", "parse", "done"}]
        /\ conn' \in [Requests -> {"pending", "open", "broken", "closed"}]
    BY <1>3 DEF Dispatch, Counted, Sent
  <2> QED
    BY <1>3, <2>1, <2>2 DEF Dispatch, Acquire, handover, answer
<1>4. CASE Finish(q)
  <2>1. at[q] \in Endpoints
    BY <1>4 DEF Finish, Closes, RequestInv, Counted
  <2> QED
    BY <1>4, <2>1 DEF Finish, Closes, Release, handover, answer
<1>5. CASE Leave(q)
  BY <1>5 DEF Leave, registry, handover, answer, request
<1> QED
  BY <1>1, <1>2, <1>3, <1>4, <1>5

-------------------------------------------------------------------------------
LEMMA HandoverRequests == TypeOK /\ RequestInv /\ HandoverStep => RequestInv'
<1> SUFFICES ASSUME TypeOK, RequestInv, HandoverStep,
                    NEW q \in Requests
             PROVE  /\ pc'[q] \in Counted \cup {"parse"} => at'[q] \in Endpoints
                    /\ pc'[q] = "parse" => q \in Uploads
                    /\ pc'[q] \in {"buffer", "relay", "closing"} => conn'[q] # "pending"
                    /\ pc'[q] \in {"idle", "done"} => conn'[q] = "closed"
  BY DEF RequestInv
<1>1. pc' = pc /\ at' = at
  BY DEF HandoverStep, Undisturbed, Register, Die, Withdraw, Drain, DrainTimeout, Cancel,
         Retire, RetireUnregistered
<1>2. conn'[q] = conn[q] \/ (conn[q] \in {"pending", "open"} /\ conn'[q] = "broken")
  BY DEF HandoverStep, Register, Die, Withdraw, Drain, DrainTimeout, Cancel, Ends,
         Retire, RetireUnregistered, TypeOK
<1> QED
  BY <1>1, <1>2 DEF RequestInv

LEMMA InnerRequests ==
  ASSUME TypeOK, RequestInv, NEW q \in Requests, Inner(q)
  PROVE  RequestInv'
<1>1. InnerShape(q)
  BY InnerSteps
<1>2. PICK p \in Counted \ {"sent"} : Moves(q, p)
  BY <1>1 DEF InnerShape
<1>3. PICK c \in {"pending", "open", "broken", "closed"} : conn' = [conn EXCEPT ![q] = c]
  BY <1>1 DEF InnerShape
<1>4. conn'[q] # "pending"
  BY DEF Inner, Respond, Complete, UpstreamFails, Disconnected, TimesOut, Abandoned, TypeOK
<1>5. pc' = [pc EXCEPT ![q] = p] /\ at' = at
  BY <1>2 DEF Moves
<1>6. pc[q] \in Counted
  BY <1>1 DEF InnerShape, Counted
<1> QED
  BY <1>3, <1>4, <1>5, <1>6 DEF RequestInv, TypeOK, Counted, Sent

LEMMA RequestRequests ==
  ASSUME TypeOK, RequestInv, NEW q \in Requests,
         \/ \E r \in Routers : Arrive(q, r)
         \/ Refuse(q) \/ Dispatch(q) \/ Finish(q) \/ Leave(q)
  PROVE  RequestInv'
<1>1. ASSUME NEW r \in Routers, Arrive(q, r) PROVE RequestInv'
  <2>1. PICK e \in LeastLoaded(r, ready) : Chosen(q, r, e)
    BY <1>1, ArriveChooses
  <2>2. e \in Endpoints
    BY DEF LeastLoaded, Candidates, Live, TypeOK
  <2> QED
    BY <2>1, <2>2 DEF Chosen, RequestInv, TypeOK, Counted, Sent
<1>2. CASE Refuse(q)
  <2>1. pc[q] \in {"idle", "done"} /\ pc' = [pc EXCEPT ![q] = "done"] /\ UNCHANGED <<at, conn>>
    BY <1>2 DEF Refuse, Fresh
  <2> QED
    BY <2>1 DEF RequestInv, TypeOK, Counted, Sent
<1>3. CASE Dispatch(q)
  BY <1>3 DEF Dispatch, RequestInv, TypeOK, Counted, Sent
<1>4. CASE Finish(q)
  BY <1>4 DEF Finish, Closes, RequestInv, TypeOK, Counted, Sent
<1>5. CASE Leave(q)
  BY <1>5 DEF Leave, request, RequestInv
<1> QED
  BY <1>1, <1>2, <1>3, <1>4, <1>5

-------------------------------------------------------------------------------
LEMMA HandoverAnswers == AnswerInv /\ HandoverStep => AnswerInv'
<1> SUFFICES ASSUME AnswerInv, HandoverStep PROVE AnswerInv'
  OBVIOUS
<1>1. UNCHANGED <<pc, starts, marked, connected>>
  BY DEF HandoverStep, Undisturbed, answer, Register, Die, Withdraw, Drain, DrainTimeout,
         Cancel, Retire, RetireUnregistered
<1> QED
  BY <1>1 DEF AnswerInv

(* A start is only sent by a request whose _response_started is not set,   *)
(* and none moves on without it.                                           *)
LEMMA InnerAnswers ==
  ASSUME TypeOK, AnswerInv, NEW q \in Requests, Inner(q)
  PROVE  AnswerInv'
<1>1. connected' = connected
  BY InnerSteps DEF InnerShape, Moves
<1>2. CASE Respond(q) /\ pc' = [pc EXCEPT ![q] = "buffer"] /\ UNCHANGED answer
  BY <1>1, <1>2 DEF Respond, AnswerInv, TypeOK, answer
<1>3. ASSUME NEW s, NEW p \in {"relay", "closing"},
             pc[q] \in Sent, q \notin marked, pc' = [pc EXCEPT ![q] = p], Start(q, s)
      PROVE  AnswerInv'
  <2>1. starts[q] = 0
    BY <1>3 DEF AnswerInv, Sent
  <2>2. marked' = marked \cup {q}
    BY <1>3 DEF Start
  <2>3. CASE q \in connected
    <3>1. starts' = [starts EXCEPT ![q] = 1]
      BY <1>3, <2>1, <2>3 DEF Start, TypeOK
    <3> QED
      BY <1>1, <1>3, <2>2, <3>1 DEF AnswerInv, TypeOK
  <2>4. CASE q \notin connected
    <3>1. starts' = starts
      BY <1>3, <2>4 DEF Start
    <3> QED
      BY <1>1, <1>3, <2>2, <2>4, <3>1 DEF AnswerInv, TypeOK
  <2> QED
    BY <2>3, <2>4
<1>4. CASE pc[q] = "relay" /\ pc' = [pc EXCEPT ![q] = "closing"] /\ UNCHANGED answer
  BY <1>1, <1>4 DEF AnswerInv, TypeOK, answer
<1>5. pc[q] = "relay" <=> pc[q] \in Sent /\ q \in marked
  BY DEF AnswerInv, Sent
<1>6. CASE Respond(q)
  <2>1. q \notin marked /\ pc[q] \in Sent
    BY <1>6, <1>5 DEF Respond, Sent
  <2> QED
    BY <1>2, <1>3, <1>6, <2>1 DEF Respond, Moves, Empty
<1>7. CASE Complete(q)
  <2>1. pc[q] = "buffer" => q \notin marked /\ pc[q] \in Sent
    BY <1>5 DEF Sent
  <2> QED
    BY <1>3, <1>4, <1>7, <2>1 DEF Complete, Moves
<1>8. CASE pc[q] \in Sent /\ Moves(q, "closing") /\ q \in marked /\ UNCHANGED answer
  BY <1>4, <1>5, <1>8 DEF Moves
<1>9. CASE UpstreamFails(q)
  BY <1>3, <1>8, <1>9 DEF UpstreamFails, Moves
<1>10. CASE Disconnected(q)
  BY <1>3, <1>8, <1>10 DEF Disconnected, Empty, Moves
<1>11. CASE TimesOut(q)
  BY <1>3, <1>8, <1>11 DEF TimesOut, Empty, Moves
<1> QED
  BY <1>6, <1>7, <1>9, <1>10, <1>11 DEF Inner

LEMMA RequestAnswers ==
  ASSUME TypeOK, AnswerInv, NEW q \in Requests,
         \/ \E r \in Routers : Arrive(q, r)
         \/ Refuse(q) \/ Dispatch(q) \/ Finish(q) \/ Leave(q)
  PROVE  AnswerInv'
<1>1. ASSUME NEW r \in Routers, Arrive(q, r) PROVE AnswerInv'
  <2>1. /\ starts' = [starts EXCEPT ![q] = 0]
        /\ marked' = marked \ {q}
        /\ connected' = connected \cup {q}
    BY <1>1 DEF Arrive, Fresh
  <2>2. pc' = [pc EXCEPT ![q] = "parse"] \/ pc' = [pc EXCEPT ![q] = "sent"]
    BY <1>1, ArriveChooses DEF Chosen
  <2> QED
    BY <2>1, <2>2 DEF AnswerInv, TypeOK
<1>2. CASE Refuse(q)
  <2>1. /\ starts' = [starts EXCEPT ![q] = 1]
        /\ marked' = marked
        /\ connected' = connected \cup {q}
        /\ pc' = [pc EXCEPT ![q] = "done"]
    BY <1>2 DEF Refuse, Fresh
  <2> QED
    BY <2>1 DEF AnswerInv, TypeOK
<1>3. CASE Dispatch(q)
  BY <1>3 DEF Dispatch, AnswerInv, TypeOK, answer
<1>4. CASE Finish(q)
  BY <1>4 DEF Finish, Closes, AnswerInv, TypeOK, answer
<1>5. CASE Leave(q)
  BY <1>5 DEF Leave, AnswerInv, TypeOK, answer, request
<1> QED
  BY <1>1, <1>2, <1>3, <1>4, <1>5

-------------------------------------------------------------------------------
LEMMA HandoverRoles == TypeOK /\ RoleInv /\ HandoverStep => RoleInv'
<1> SUFFICES ASSUME TypeOK, RoleInv, HandoverStep PROVE RoleInv'
  OBVIOUS
<1> USE ProxyConstants DEF RoleInv, TypeOK
<1>1. ASSUME NEW e \in Endpoints, Register(e) PROVE RoleInv'
  BY <1>1 DEF Register
<1>2. ASSUME NEW e \in Endpoints, Die(e) PROVE RoleInv'
  BY <1>2 DEF Die
<1>3. ASSUME NEW e \in Endpoints, Withdraw(e) PROVE RoleInv'
  BY <1>3 DEF Withdraw
<1>4. CASE Drain
  BY <1>4 DEF Drain, DrainComplete
<1>5. CASE DrainTimeout
  BY <1>5 DEF DrainTimeout
<1>6. CASE Cancel
  BY <1>6 DEF Cancel
<1>7. CASE Retire
  BY <1>7 DEF Retire
<1>8. CASE RetireUnregistered
  BY <1>8 DEF RetireUnregistered
<1> QED
  BY <1>1, <1>2, <1>3, <1>4, <1>5, <1>6, <1>7, <1>8 DEF HandoverStep

-------------------------------------------------------------------------------
(* A request is counted once, at one router, for one endpoint. *)
LEMMA Counting ==
  ASSUME TypeOK, NEW r \in Routers, NEW e \in Endpoints
  PROVE  /\ IsFiniteSet(InFlight(r, e))
         /\ Cardinality(InFlight(r, e)) \in Nat
         /\ InFlight(r, e) = {} <=> Cardinality(InFlight(r, e)) = 0
<1>1. InFlight(r, e) \subseteq Requests
  BY DEF InFlight
<1>2. IsFiniteSet(InFlight(r, e))
  BY <1>1, ProxyConstants, FS_Subset
<1> QED
  BY <1>2, FS_CardinalityType, FS_EmptySet

(* The counts follow the requests when nothing is forgotten. *)
LEMMA CountsFollow ==
  ASSUME TypeOK, CountInv, ready' = ready,
         \A r \in Routers, e \in Endpoints :
           \/ inFlight'[r][e] = inFlight[r][e] /\ InFlight(r, e)' = InFlight(r, e)
           \/ /\ inFlight'[r][e] = inFlight[r][e] + 1
              /\ \E q \in Requests \ InFlight(r, e) : InFlight(r, e)' = InFlight(r, e) \cup {q}
           \/ /\ inFlight'[r][e] = IF inFlight[r][e] > 0 THEN inFlight[r][e] - 1 ELSE 0
              /\ \E q \in InFlight(r, e) : InFlight(r, e)' = InFlight(r, e) \ {q}
  PROVE  CountInv'
<1> SUFFICES ASSUME NEW r \in Routers, NEW e \in Endpoints
             PROVE  /\ inFlight'[r][e] <= Cardinality(InFlight(r, e)')
                    /\ e \in ready => inFlight'[r][e] = Cardinality(InFlight(r, e)')
  BY DEF CountInv
<1> DEFINE n == inFlight[r][e]
           c == Cardinality(InFlight(r, e))
<1>1. n \in Nat /\ c \in Nat /\ IsFiniteSet(InFlight(r, e))
  BY Counting DEF TypeOK, RegistryType
<1>2. n <= c /\ (e \in ready => n = c)
  BY DEF CountInv
<1>3. CASE inFlight'[r][e] = n /\ InFlight(r, e)' = InFlight(r, e)
  BY <1>2, <1>3
<1>4. ASSUME inFlight'[r][e] = n + 1,
             NEW q \in Requests \ InFlight(r, e), InFlight(r, e)' = InFlight(r, e) \cup {q}
      PROVE  /\ inFlight'[r][e] <= Cardinality(InFlight(r, e)')
             /\ e \in ready => inFlight'[r][e] = Cardinality(InFlight(r, e)')
  <2>1. Cardinality(InFlight(r, e) \cup {q}) = c + 1
    BY <1>1, <1>4, FS_AddElement
  <2> QED
    BY <1>1, <1>2, <1>4, <2>1
<1>5. ASSUME inFlight'[r][e] = IF n > 0 THEN n - 1 ELSE 0,
             NEW q \in InFlight(r, e), InFlight(r, e)' = InFlight(r, e) \ {q}
      PROVE  /\ inFlight'[r][e] <= Cardinality(InFlight(r, e)')
             /\ e \in ready => inFlight'[r][e] = Cardinality(InFlight(r, e)')
  <2>1. Cardinality(InFlight(r, e) \ {q}) = c - 1
    BY <1>1, <1>5, FS_RemoveElement
  <2>2. c > 0
    BY <1>1, <1>5, Counting
  <2> QED
    BY <1>1, <1>2, <1>5, <2>1, <2>2
<1> QED
  BY <1>3, <1>4, <1>5

LEMMA HandoverCounts == TypeOK /\ CountInv /\ RoleInv /\ HandoverStep => CountInv'
<1> SUFFICES ASSUME TypeOK, CountInv, RoleInv, HandoverStep PROVE CountInv'
  OBVIOUS
<1>1. ASSUME NEW r \in Routers, NEW e \in Endpoints PROVE InFlight(r, e)' = InFlight(r, e)
  BY DEF HandoverStep, Undisturbed, InFlight, Register, Die, Withdraw, Drain, DrainTimeout,
         Cancel, Retire, RetireUnregistered
<1>2. CASE UNCHANGED inFlight /\ ready' \subseteq ready
  BY <1>1, <1>2 DEF CountInv
<1>3. ASSUME NEW f \in Endpoints, Register(f) PROVE CountInv'
  <2> SUFFICES ASSUME NEW r \in Routers, NEW e \in Endpoints
               PROVE  /\ inFlight'[r][e] <= Cardinality(InFlight(r, e)')
                      /\ e \in ready' => inFlight'[r][e] = Cardinality(InFlight(r, e)')
    BY DEF CountInv
  <2>1. inFlight'[r][e] = inFlight[r][e] /\ ready' = ready \cup {f}
    BY <1>3 DEF Register, registry
  <2>2. CASE e = f
    <3>1. Cardinality(InFlight(r, e)) = 0
      BY <1>3, <2>2, Counting DEF Register
    <3>2. inFlight[r][e] \in Nat
      BY DEF TypeOK, RegistryType
    <3>3. inFlight[r][e] <= Cardinality(InFlight(r, e))
      BY DEF CountInv
    <3> QED
      BY <1>1, <2>1, <3>1, <3>2, <3>3
  <2> QED
    BY <1>1, <2>1, <2>2 DEF CountInv
<1>4. CASE Retire
  <2> SUFFICES ASSUME NEW r \in Routers, NEW e \in Endpoints
               PROVE  /\ inFlight'[r][e] <= Cardinality(InFlight(r, e)')
                      /\ e \in ready' => inFlight'[r][e] = Cardinality(InFlight(r, e)')
    BY DEF CountInv
  <2>1. ready' = ready \ {old} /\ inFlight' = [inFlight EXCEPT ![Leader][old] = 0]
    BY <1>4 DEF Retire, Forget
  <2>2. inFlight'[r][e] = inFlight[r][e] \/ (inFlight'[r][e] = 0 /\ e = old)
    BY <2>1 DEF TypeOK, RegistryType
  <2>3. Cardinality(InFlight(r, e)) \in Nat
    BY Counting
  <2> QED
    BY <1>1, <2>1, <2>2, <2>3 DEF CountInv
<1>5. CASE Drain
  BY <1>2, <1>5 DEF Drain, SetDraining
<1>6. CASE \/ DrainTimeout \/ Cancel \/ RetireUnregistered
           \/ \E e \in Endpoints : Die(e) \/ Withdraw(e)
  BY <1>2, <1>6 DEF DrainTimeout, Cancel, RetireUnregistered, Die, Withdraw, registry
<1> QED
  BY <1>3, <1>4, <1>5, <1>6 DEF HandoverStep

LEMMA InnerCounts ==
  ASSUME TypeOK, CountInv, NEW q \in Requests, Inner(q)
  PROVE  CountInv'
<1>1. InnerShape(q)
  BY InnerSteps
<1>2. PICK p \in Counted \ {"sent"} : Moves(q, p)
  BY <1>1 DEF InnerShape
<1>3. pc[q] \in Counted
  BY <1>1 DEF InnerShape, Counted
<1>4. UNCHANGED <<inFlight, ready, via, at>> /\ pc' = [pc EXCEPT ![q] = p]
  BY <1>2 DEF Moves, registry, handover
<1>5. ASSUME NEW r \in Routers, NEW e \in Endpoints PROVE InFlight(r, e)' = InFlight(r, e)
  BY <1>3, <1>4 DEF InFlight, TypeOK
<1> QED
  BY <1>4, <1>5, CountsFollow

LEMMA RequestCounts ==
  ASSUME TypeOK, RequestInv, CountInv, NEW q \in Requests,
         \/ \E r \in Routers : Arrive(q, r)
         \/ Refuse(q) \/ Dispatch(q) \/ Finish(q) \/ Leave(q)
  PROVE  CountInv'
<1>1. ready' = ready
  BY DEF Arrive, Refuse, Fresh, Dispatch, Finish, Closes, Leave, handover
<1>2. ASSUME UNCHANGED inFlight,
             \A r \in Routers, e \in Endpoints : InFlight(r, e)' = InFlight(r, e)
      PROVE  CountInv'
  BY <1>1, <1>2, CountsFollow
<1>3. ASSUME NEW s \in Routers, NEW f \in Endpoints, Acquire(s, f), pc[q] \notin Counted,
             pc' = [pc EXCEPT ![q] = "sent"], via'[q] = s, at'[q] = f,
             \A p \in Requests \ {q} : via'[p] = via[p] /\ at'[p] = at[p]
      PROVE  CountInv'
  <2> SUFFICES ASSUME NEW r \in Routers, NEW e \in Endpoints
               PROVE  \/ inFlight'[r][e] = inFlight[r][e] /\ InFlight(r, e)' = InFlight(r, e)
                      \/ /\ inFlight'[r][e] = inFlight[r][e] + 1
                         /\ \E p \in Requests \ InFlight(r, e) :
                              InFlight(r, e)' = InFlight(r, e) \cup {p}
    BY <1>1, CountsFollow
  <2>1. q \notin InFlight(r, e)
    BY <1>3 DEF InFlight
  <2>2. InFlight(r, e)' = IF r = s /\ e = f THEN InFlight(r, e) \cup {q} ELSE InFlight(r, e)
    BY <1>3 DEF InFlight, TypeOK, Counted, Sent
  <2>3. inFlight'[r][e] = IF r = s /\ e = f THEN inFlight[r][e] + 1 ELSE inFlight[r][e]
    BY <1>3 DEF Acquire, TypeOK, RegistryType
  <2> QED
    BY <2>1, <2>2, <2>3
<1>4. ASSUME NEW r \in Routers, Arrive(q, r) PROVE CountInv'
  <2>1. PICK e \in LeastLoaded(r, ready) : Chosen(q, r, e)
    BY <1>4, ArriveChooses
  <2>2. e \in Endpoints
    BY DEF LeastLoaded, Candidates, Live, TypeOK
  <2>3. pc[q] \notin Counted
    BY <1>4 DEF Arrive, Fresh, Counted, Sent
  <2>4. CASE pc' = [pc EXCEPT ![q] = "parse"] /\ UNCHANGED registry
    <3>1. ASSUME NEW s \in Routers, NEW f \in Endpoints PROVE InFlight(s, f)' = InFlight(s, f)
      BY <2>1, <2>3, <2>4 DEF Chosen, InFlight, TypeOK, Counted, Sent
    <3> QED
      BY <1>2, <2>4, <3>1 DEF registry
  <2>5. /\ via'[q] = r /\ at'[q] = e
        /\ \A p \in Requests \ {q} : via'[p] = via[p] /\ at'[p] = at[p]
    BY <2>1 DEF Chosen, TypeOK
  <2> QED
    BY <1>3, <2>1, <2>2, <2>3, <2>4, <2>5 DEF Chosen
<1>5. CASE Refuse(q)
  <2>1. /\ pc[q] \in {"idle", "done"} /\ pc' = [pc EXCEPT ![q] = "done"]
        /\ UNCHANGED <<inFlight, via, at>>
    BY <1>5 DEF Refuse, Fresh, registry
  <2>2. ASSUME NEW s \in Routers, NEW f \in Endpoints PROVE InFlight(s, f)' = InFlight(s, f)
    BY <2>1 DEF InFlight, TypeOK, Counted, Sent
  <2> QED
    BY <1>2, <2>1, <2>2
<1>6. CASE Dispatch(q)
  <2>1. at[q] \in Endpoints /\ via[q] \in Routers
    BY <1>6 DEF Dispatch, RequestInv, TypeOK
  <2>2. pc[q] \notin Counted
    BY <1>6 DEF Dispatch, Counted, Sent
  <2> QED
    BY <1>3, <1>6, <2>1, <2>2 DEF Dispatch
<1>7. CASE Finish(q)
  <2> DEFINE s == via[q]
             f == at[q]
  <2>1. s \in Routers /\ f \in Endpoints
    BY <1>7 DEF Finish, Closes, RequestInv, TypeOK, Counted
  <2> SUFFICES ASSUME NEW r \in Routers, NEW e \in Endpoints
               PROVE  \/ inFlight'[r][e] = inFlight[r][e] /\ InFlight(r, e)' = InFlight(r, e)
                      \/ /\ inFlight'[r][e] = IF inFlight[r][e] > 0 THEN inFlight[r][e] - 1 ELSE 0
                         /\ \E p \in InFlight(r, e) : InFlight(r, e)' = InFlight(r, e) \ {p}
    BY <1>1, CountsFollow
  <2>2. InFlight(r, e)' = IF r = s /\ e = f THEN InFlight(r, e) \ {q} ELSE InFlight(r, e)
    BY <1>7 DEF Finish, Closes, InFlight, TypeOK, Counted, Sent
  <2>3. r = s /\ e = f => q \in InFlight(r, e)
    BY <1>7 DEF Finish, Closes, InFlight, Counted
  <2>4. inFlight'[r][e] = IF r = s /\ e = f
                          THEN IF inFlight[r][e] > 0 THEN inFlight[r][e] - 1 ELSE 0
                          ELSE inFlight[r][e]
    BY <1>7, <2>1 DEF Finish, Release, TypeOK, RegistryType
  <2> QED
    BY <2>2, <2>3, <2>4
<1>8. CASE Leave(q)
  <2>1. UNCHANGED <<inFlight, pc, via, at>>
    BY <1>8 DEF Leave, registry, request
  <2> QED
    BY <1>2, <2>1 DEF InFlight
<1> QED
  BY <1>4, <1>5, <1>6, <1>7, <1>8

-------------------------------------------------------------------------------
(* A drain is only complete when the count of the old endpoint is zero,    *)
(* and the count is exact.                                                 *)
LEMMA HandoverDrains ==
  TypeOK /\ RoleInv /\ CountInv /\ DrainInv /\ HandoverStep => DrainInv'
<1> SUFFICES ASSUME TypeOK, RoleInv, CountInv, DrainInv, HandoverStep, renewer' = "drained"
             PROVE  /\ old' \in draining'[Leader]
                    /\ \A q \in Requests :
                         pc'[q] \in Sent /\ at'[q] = old' /\ via'[q] = Leader
                         => q \in forced' \cup Uploads
  BY DEF DrainInv
<1>1. UNCHANGED <<pc, via, at, forced>>
  BY DEF HandoverStep, Undisturbed, Register, Die, Withdraw, Drain, DrainTimeout, Cancel,
         Retire, RetireUnregistered
<1>2. CASE renewer = "drained" /\ UNCHANGED <<old, draining>>
  BY <1>1, <1>2 DEF DrainInv
<1>3. CASE Drain
  <2>1. renewer = "idle" /\ old \in ready /\ old \in Endpoints /\ old' = old
    BY <1>3 DEF Drain, RoleInv, TypeOK
  <2>2. inFlight[Leader][old] = 0
    BY <1>3, <2>1 DEF Drain, DrainComplete
  <2>3. InFlight(Leader, old) = {}
    BY <2>1, <2>2, Counting, ProxyConstants DEF CountInv
  <2>4. old' \in draining'[Leader]
    BY <1>3, <2>1, ProxyConstants DEF Drain, SetDraining, TypeOK, RegistryType
  <2> QED
    BY <1>1, <2>1, <2>3, <2>4 DEF InFlight, Counted
<1>4. CASE \E e \in Endpoints : Register(e)
  BY <1>2, <1>4, ProxyConstants DEF Register, RoleInv, registry
<1>5. CASE \E e \in Endpoints : Withdraw(e)
  BY <1>2, <1>5 DEF Withdraw, registry
<1>6. CASE DrainTimeout \/ \E e \in Endpoints : Die(e)
  BY <1>2, <1>6 DEF DrainTimeout, Die, registry
<1>7. CASE Cancel \/ Retire \/ RetireUnregistered
  BY <1>7 DEF Cancel, Retire, RetireUnregistered
<1> QED
  BY <1>3, <1>4, <1>5, <1>6, <1>7 DEF HandoverStep

LEMMA InnerDrains ==
  ASSUME TypeOK, DrainInv, NEW q \in Requests, Inner(q)
  PROVE  DrainInv'
<1>1. InnerShape(q)
  BY InnerSteps
<1>2. PICK p \in Counted \ {"sent"} : Moves(q, p)
  BY <1>1 DEF InnerShape
<1>3. pc[q] \in Sent
  BY <1>1 DEF InnerShape
<1>4. UNCHANGED <<renewer, old, draining, via, at>> /\ pc' = [pc EXCEPT ![q] = p]
  BY <1>2 DEF Moves, registry, handover
<1>5. forced' = IF p = "closing" THEN forced \ {q} ELSE forced
  BY <1>2 DEF Moves
<1>6. "closing" \notin Sent
  BY DEF Sent
<1> QED
  BY <1>3, <1>4, <1>5, <1>6 DEF DrainInv, TypeOK

LEMMA RequestDrains ==
  ASSUME TypeOK, RequestInv, DrainInv, NEW q \in Requests,
         \/ \E r \in Routers : Arrive(q, r)
         \/ Refuse(q) \/ Dispatch(q) \/ Finish(q) \/ Leave(q)
  PROVE  DrainInv'
<1> SUFFICES ASSUME renewer = "drained", UNCHANGED <<renewer, old, draining>>
             PROVE  \A p \in Requests :
                      pc'[p] \in Sent /\ at'[p] = old /\ via'[p] = Leader
                      => p \in forced' \cup Uploads
  <2>1. UNCHANGED <<renewer, old>>
    BY DEF Arrive, Refuse, Fresh, Dispatch, Finish, Closes, Leave, handover
  <2>2. UNCHANGED draining
    BY DEF Arrive, Refuse, Dispatch, Finish, Leave, Acquire, Release, registry
  <2> QED
    BY <2>1, <2>2 DEF DrainInv
<1>1. ASSUME NEW r \in Routers, Arrive(q, r),
             NEW p \in Requests, pc'[p] \in Sent, at'[p] = old, via'[p] = Leader
      PROVE  p \in forced' \cup Uploads
  <2>1. PICK e \in LeastLoaded(r, ready) : Chosen(q, r, e)
    BY <1>1, ArriveChooses
  <2>2. forced \subseteq forced'
    BY <2>1 DEF Chosen
  <2>3. CASE p # q
    <3>1. pc'[p] = pc[p] /\ at'[p] = at[p] /\ via'[p] = via[p]
      BY <2>1, <2>3 DEF Chosen, TypeOK
    <3> QED
      BY <1>1, <2>2, <3>1 DEF DrainInv
  <2>4. CASE p = q
    <3>1. r = Leader /\ e = old
      BY <1>1, <2>1, <2>4 DEF Chosen, TypeOK
    <3>2. e \notin Live(r, ready)
      BY <3>1 DEF DrainInv, Live
    <3>3. Live(r, ready) = {}
      BY <3>2 DEF LeastLoaded, Candidates
    <3>4. ready \subseteq draining[r]
      BY <3>3 DEF Live
    <3> QED
      BY <2>1, <2>4, <3>4 DEF Chosen
  <2> QED
    BY <2>3, <2>4
<1>2. CASE Refuse(q) \/ Finish(q)
  <2>1. PICK d \in {"done"} : pc' = [pc EXCEPT ![q] = d]
    BY <1>2 DEF Refuse, Finish, Closes
  <2>2. UNCHANGED <<via, forced>> /\ \A p \in Requests \ {q} : at'[p] = at[p]
    BY <1>2 DEF Refuse, Finish, Closes, TypeOK
  <2>3. "done" \notin Sent
    BY DEF Sent
  <2> QED
    BY <2>1, <2>2, <2>3 DEF DrainInv, TypeOK
<1>3. CASE Dispatch(q)
  <2>1. q \in Uploads
    BY <1>3 DEF Dispatch, RequestInv
  <2>2. UNCHANGED <<via, at, forced>> /\ pc' = [pc EXCEPT ![q] = "sent"]
    BY <1>3 DEF Dispatch
  <2> QED
    BY <2>1, <2>2 DEF DrainInv, TypeOK
<1>4. CASE Leave(q)
  BY <1>4 DEF Leave, request, DrainInv
<1> QED
  BY <1>1, <1>2, <1>3, <1>4

-------------------------------------------------------------------------------
ProxyInv == TypeOK /\ RequestInv /\ AnswerInv /\ RoleInv /\ CountInv /\ DrainInv

LEMMA ProxyInit == Init => ProxyInv
<1> SUFFICES ASSUME Init PROVE ProxyInv
  OBVIOUS
<1>1. TypeOK
  BY ProxyConstants DEF Init, RegistryInit, TypeOK, RegistryType
<1>2. RequestInv /\ AnswerInv /\ RoleInv /\ DrainInv
  BY ProxyConstants DEF Init, RequestInv, AnswerInv, RoleInv, DrainInv, Counted, Sent
<1>3. CountInv
  <2> SUFFICES ASSUME NEW r \in Routers, NEW e \in Endpoints
               PROVE  inFlight[r][e] = 0 /\ Cardinality(InFlight(r, e)) = 0
    BY DEF CountInv
  <2>1. InFlight(r, e) = {}
    BY DEF Init, InFlight, Counted, Sent
  <2> QED
    BY <2>1, FS_EmptySet DEF Init, RegistryInit
<1> QED
  BY <1>1, <1>2, <1>3 DEF ProxyInv

LEMMA ProxyNext == ProxyInv /\ [Next]_vars => ProxyInv'
<1> SUFFICES ASSUME ProxyInv, [Next]_vars PROVE ProxyInv'
  OBVIOUS
<1> USE DEF ProxyInv
<1>1. CASE HandoverStep
  BY <1>1, HandoverTypes, HandoverRequests, HandoverAnswers, HandoverRoles, HandoverCounts,
     HandoverDrains
<1>2. ASSUME UNCHANGED handover PROVE RoleInv'
  BY <1>2 DEF RoleInv, handover
<1>3. ASSUME NEW q \in Requests, Inner(q) PROVE ProxyInv'
  <2>1. UNCHANGED handover
    BY <1>3, InnerSteps DEF InnerShape, Moves
  <2> QED
    BY <1>2, <1>3, <2>1, InnerSteps, InnerTypes, InnerRequests, InnerAnswers, InnerCounts,
       InnerDrains
<1>4. ASSUME NEW q \in Requests,
             \/ \E r \in Routers : Arrive(q, r)
             \/ Refuse(q) \/ Dispatch(q) \/ Finish(q) \/ Leave(q)
      PROVE  ProxyInv'
  <2>1. UNCHANGED handover
    BY <1>4 DEF Arrive, Refuse, Fresh, Dispatch, Finish, Closes, Leave
  <2> QED
    BY <1>2, <1>4, <2>1, RequestTypes, RequestRequests, RequestAnswers, RequestCounts,
       RequestDrains
<1>5. CASE UNCHANGED vars
  BY <1>5 DEF vars, registry, handover, answer, request, TypeOK, RegistryType, RequestInv,
     AnswerInv, RoleInv, CountInv, InFlight, DrainInv
<1> QED
  BY <1>1, <1>3, <1>4, <1>5 DEF Next, HandoverStep, Inner

(* The registry's counts, the state of every request and of the handover   *)
(* stay in their types on every path through the proxy.                    *)
THEOREM ProxyTypeCorrect == Spec => []TypeOK
<1>1. ProxyInv => TypeOK
  BY DEF ProxyInv
<1> QED
  BY <1>1, ProxyInit, ProxyNext, PTL DEF Spec

(* Whatever becomes of its requests, an endpoint in use has an exact count *)
(* in every router (track_proxy, acquire, release, forget).                *)
THEOREM CountsStayExact == Spec => []CountsAreExact
<1>1. ProxyInv => CountsAreExact
  BY DEF ProxyInv, CountInv, CountsAreExact
<1> QED
  BY <1>1, ProxyInit, ProxyNext, PTL DEF Spec

(* A client that stays gets exactly one start of a response, whichever of  *)
(* the exits of _ProxyResponse.__call__ its request takes.                 *)
THEOREM AnsweredOnce == Spec => []OneAnswer
<1>1. ProxyInv => OneAnswer
  BY DEF ProxyInv, AnswerInv, OneAnswer
<1> QED
  BY <1>1, ProxyInit, ProxyNext, PTL DEF Spec

(* A request that is over has closed its connection, even one that gave up *)
(* while the attempt to send it was pending (_send_upstream_or_abort).     *)
THEOREM NothingStaysOpen == Spec => []NothingIsLeftOpen
<1>1. ProxyInv => NothingIsLeftOpen
  BY DEF ProxyInv, RequestInv, NothingIsLeftOpen
<1> QED
  BY <1>1, ProxyInit, ProxyNext, PTL DEF Spec

(* With one router process, a completed drain cancels a job under none of  *)
(* the requests that could have gone elsewhere (drain_complete).           *)
THEOREM DrainIsClean ==
  ASSUME Routers = {Leader}
  PROVE  Spec => DrainKillsNothing
<1>1. ProxyInv /\ [Next]_vars
      => [renewer = "drained" /\ renewer' = "write"
          => \A q \in Requests :
               pc[q] \in Sent /\ at[q] = old => q \in forced \cup Uploads]_vars
  BY DEF ProxyInv, DrainInv, TypeOK
<1> QED
  BY <1>1, ProxyInit, ProxyNext, PTL DEF Spec, DrainKillsNothing
===============================================================================
