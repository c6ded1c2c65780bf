----------------------------- MODULE LoadBalancer -----------------------------
(***************************************************************************)
(* The load registry of a router process (loadbalancer.py): how many       *)
(* requests it has in flight on each endpoint, and which endpoints it      *)
(* drains.  Every router process has its own.                              *)
(*                                                                         *)
(* An endpoint is its host:port, which a later job may use again.          *)
(***************************************************************************)
EXTENDS Integers, FiniteSets

CONSTANTS Routers, Endpoints

VARIABLES
  inFlight,   \* the count of a router for an endpoint
  draining    \* the endpoints that a router drains

registry == <<inFlight, draining>>

RegistryType ==
  /\ inFlight \in [Routers -> [Endpoints -> Nat]]
  /\ draining \in [Routers -> SUBSET Endpoints]

RegistryInit ==
  /\ inFlight = [r \in Routers |-> [e \in Endpoints |-> 0]]
  /\ draining = [r \in Routers |-> {}]

Acquire(r, e) ==
  /\ inFlight' = [inFlight EXCEPT ![r][e] = @ + 1]
  /\ UNCHANGED draining

Unclamped(r, e) ==                                                  \* mutant
  /\ inFlight' = [inFlight EXCEPT ![r][e] = @ - 1]
  /\ UNCHANGED draining

(* Clamped: the count may have been forgotten since the acquisition. *)
Release(r, e) ==
  /\ inFlight' = [inFlight EXCEPT ![r][e] = IF @ > 0 THEN @ - 1 ELSE 0]
  /\ UNCHANGED draining

SetDraining(r, e) ==
  /\ draining' = [draining EXCEPT ![r] = @ \cup {e}]
  /\ UNCHANGED inFlight

Forget(r, e) ==
  /\ inFlight' = [inFlight EXCEPT ![r][e] = 0]
  /\ draining' = [draining EXCEPT ![r] = @ \ {e}]

(* Endpoints that drain are left out unless they are all there is.  Among  *)
(* the least loaded the scraped queue depth decides, then chance: whatever *)
(* the depth is, it is one of these.                                       *)
LiveBusy(r, es) == es                                               \* mutant
Live(r, es) == es \ draining[r]
Candidates(r, es) == IF Live(r, es) = {} THEN es ELSE Live(r, es)
LeastLoaded(r, es) ==
  {e \in Candidates(r, es) : \A f \in Candidates(r, es) : inFlight[r][e] <= inFlight[r][f]}
===============================================================================
