---------------------------- MODULE LeaseContract ----------------------------
(***************************************************************************)
(* What a booking means to the cluster, without the workers: the Slurm     *)
(* requests and the jobs that may be made on its account. A step may touch *)
(* several bookings, each in one of the ways listed here.                  *)
(***************************************************************************)
EXTENDS Integers

CONSTANTS
  Leases,
  MaxRetries  \* vllm_max_retries

VARIABLE contract  \* booking -> [phase, asked, held, tries]

Phases == {"none", "booked", "open", "closed"}
Contracts == [phase : Phases, asked : BOOLEAN, held : BOOLEAN, tries : 0 .. MaxRetries]
NoContract == [phase |-> "none", asked |-> FALSE, held |-> FALSE, tries |-> 0]

Init == contract = [l \in Leases |-> NoContract]

(* Booked for later, or for now; a booking for later is asked for once.    *)
Book(c) ==
  IF c.phase # "none" THEN {}
  ELSE {[c EXCEPT !.phase = "booked"], [c EXCEPT !.phase = "open", !.asked = TRUE]}
Ask(c) == IF c.phase = "booked" THEN {[c EXCEPT !.phase = "open", !.asked = TRUE]} ELSE {}

(* Each further request costs one of its tries. To have served returns     *)
(* them, also when the job is gone by the time that is known; but not once *)
(* there is a request again.                                               *)
Retry(c) ==
  IF c.phase = "open" /\ ~c.asked /\ c.tries < MaxRetries
  THEN {[c EXCEPT !.asked = TRUE, !.tries = @ + 1]} ELSE {}
Serve(c) == IF c.phase = "open" /\ ~c.asked THEN {[c EXCEPT !.tries = 0]} ELSE {}

(* Slurm takes a request only when it holds no other job of the booking,   *)
(* or refuses it.                                                          *)
Accept(c) ==
  IF c.asked /\ ~c.held THEN {[c EXCEPT !.asked = FALSE, !.held = TRUE]} ELSE {}
Refuse(c) == IF c.asked THEN {[c EXCEPT !.asked = FALSE]} ELSE {}
Release(c) == {[c EXCEPT !.held = FALSE]}

(* Nothing opens a booking again, and nothing more is asked for it.        *)
Close(c) == IF c.phase \in {"booked", "open"} THEN {[c EXCEPT !.phase = "closed"]} ELSE {}

Steps(c) ==
  UNION {{c}, Book(c), Ask(c), Retry(c), Serve(c), Accept(c), Refuse(c), Release(c), Close(c)}
Next ==
  /\ contract' \in [Leases -> Contracts]
  /\ \A l \in Leases : contract'[l] \in Steps(contract[l])

Spec == Init /\ [][Next]_contract
=============================================================================
