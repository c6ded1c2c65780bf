----------------------------- MODULE Placement -----------------------------
(***************************************************************************)
(* The calendar: placement.py and scheduling.py. A demand is a record      *)
(*   [id, gpus, begin, end, class, nodes, pin]                             *)
(* and its place a node and the first of its GPUs, or NoPlace, which the   *)
(* code calls a conflict. The code sorts the demands and places one after  *)
(* the other; here the last one of a set is placed after the rest.         *)
(*                                                                         *)
(* Nodes are numbered in the order of their names.                         *)
(***************************************************************************)
EXTENDS Inventory

CONSTANTS
  NoNode,
  DefaultGap,       \* DEFAULT_GUARD_GAP_SECONDS
  DefaultDuration,  \* of a foreign job that names no end
  Unknown           \* a time a foreign job does not name

ASSUME DefaultsAssumption == DefaultGap \in Nat /\ DefaultDuration \in Nat

NoPlace == [node |-> NoNode, start |-> 0]
SyntheticNode == 0

\* mutant
OverlapsTolerant(a, b, gap) == ~(a.end <= b.begin + gap \/ b.end + gap <= a.begin)
(* True unless the two intervals are a gap apart.                          *)
Overlaps(a, b, gap) == ~(a.end + gap <= b.begin \/ b.end + gap <= a.begin)
Gap(c) == IF c \in DOMAIN GpuClass THEN GpuClass[c].gap ELSE DefaultGap

-----------------------------------------------------------------------------
(* The GPUs of each node, and what occupies them: a set of records         *)
(* [node, index, begin, end].                                              *)

(* The discovered nodes, or one that stands in for TOTAL_GPUS.             *)
EffectiveNodes(inv) ==
  IF UsableNodes(inv) # {}
  THEN [n \in UsableNodes(inv) |-> inv.nodes[n].gpus]
  ELSE [n \in {SyntheticNode} |-> [i \in 0 .. Max({1, TotalGpus}) - 1 |-> NoClass]]

Held(node, indices, span) ==
  {[node |-> node, index |-> i, begin |-> span.begin, end |-> span.end] : i \in indices}

(* When a foreign job holds its GPUs. One that names neither its start nor *)
(* its end is ignored.                                                     *)
ForeignSpan(job) ==
  [begin |-> IF job.begin = Unknown THEN job.end - DefaultDuration ELSE job.begin,
   end   |-> IF job.end = Unknown THEN job.begin + DefaultDuration ELSE job.end]

(* Foreign jobs hold the GPUs they name, else the first ones of the node.  *)
ForeignBusy(slots, foreign) ==
  UNION {UNION {Held(n, IF job.indices # {} THEN DOMAIN slots[n] \cap job.indices
                        ELSE {i \in DOMAIN slots[n] : i < job.gpus}, ForeignSpan(job))
                : n \in job.nodes \cap DOMAIN slots}
         : job \in {j \in foreign : j.gpus > 0 /\ ~(j.begin = Unknown /\ j.end = Unknown)}}

-----------------------------------------------------------------------------
(* One demand. *)

Matching(slots, n, d) == {i \in DOMAIN slots[n] : d.class \in {NoClass, slots[n][i]}}
IsFree(busy, n, i, d) ==
  \A b \in busy : b.node = n /\ b.index = i => ~Overlaps(d, b, Gap(d.class))
FreeCount(slots, busy, n, d) == Cardinality({i \in Matching(slots, n, d) : IsFree(busy, n, i, d)})

(* The first GPUs of the contiguous blocks of a node that are free for d.  *)
Blocks(slots, busy, n, d) ==
  {s \in Matching(slots, n, d) :
     \A i \in s .. s + d.gpus - 1 : i \in Matching(slots, n, d) /\ IsFree(busy, n, i, d)}

NodesFor(slots, d) ==
  CASE d.pin # NoNode -> {d.pin} \cap DOMAIN slots
    [] d.pin = NoNode /\ d.nodes # {} -> d.nodes \cap DOMAIN slots
    [] OTHER -> DOMAIN slots

(* The only element of a set. TLC computes the elements of a set once, but *)
(* a LET each time that it is used, when it evaluates an ENABLED.          *)
Only(S) == CHOOSE x \in S : TRUE

(* Best fit: the node with the fewest free GPUs of the class, and its      *)
(* first block.                                                            *)
PlaceFor(slots, busy, d) ==
  LET options == UNION {{[free |-> FreeCount(slots, busy, n, d), node |-> n, start |-> s] :
                           s \in Blocks(slots, busy, n, d)} : n \in NodesFor(slots, d)}
      better(a, b) == \/ a.free < b.free
                      \/ a.free = b.free /\ a.node < b.node
                      \/ a.free = b.free /\ a.node = b.node /\ a.start <= b.start
      best(among) == IF among = {} THEN NoPlace
                     ELSE CHOOSE a \in among : \A b \in among : better(a, b)
  IN Only({[node |-> place.node, start |-> place.start] : place \in {best(among) : among \in {options}}})

-----------------------------------------------------------------------------
(* A set of demands. *)

(* The order in which they are placed: by begin, then the longest first,   *)
(* then by identity.                                                       *)
\* mutant
BeforeById(a, b) == a.id > b.id
Before(a, b) ==
  \/ a.begin < b.begin
  \/ a.begin = b.begin /\ a.end > b.end
  \/ a.begin = b.begin /\ a.end = b.end /\ a.id < b.id

(* Two demands that only their identities could order.                     *)
Ties(a, b) == a.begin = b.begin /\ a.end = b.end

(* Puts one more demand where it fits.                                     *)
Put(slots, plan, d, place) ==
  [busy |-> IF place = NoPlace THEN plan.busy
            ELSE plan.busy \cup
                   Held(place.node, place.start .. place.start + d.gpus - 1, d),
   at |-> [id \in DOMAIN plan.at \cup {d.id} |-> IF id = d.id THEN place ELSE plan.at[id]]]

ComputePlacements(demands, slots, foreign) ==
  LET last(D) == CHOOSE d \in D : \A e \in D \ {d} : Before(e, d)
      after(plan, d) ==
        Only({Put(slots, plan, d, place) : place \in {PlaceFor(slots, plan.busy, d)}})
      placed[D \in SUBSET demands] ==
        IF D = {} THEN [busy |-> ForeignBusy(slots, foreign), at |-> <<>>]
        ELSE Only({after(plan, last(D)) : plan \in {placed[D \ {last(D)}]}})
  IN placed[demands].at

MovedTo(d, t) == [d EXCEPT !.begin = t, !.end = t + d.end - d.begin]

(* The earliest start at which a demand fits before the horizon, among its *)
(* own, the boundaries of the others, and a grid; Unknown if there is none.*)
FindEarliestSlot(d, slots, others, foreign, horizon, step) ==
  LET bounds == {o.begin : o \in others} \cup {o.end : o \in others}
      grid == {t \in d.begin .. horizon : (t - d.begin) % step = 0}
      fits(t) == ComputePlacements(others \cup {MovedTo(d, t)}, slots, foreign)[d.id] # NoPlace
      starts == {t \in {d.begin} \cup {b \in bounds : d.begin <= b} \cup grid :
                   MovedTo(d, t).end <= horizon /\ fits(t)}
  IN IF starts = {} THEN Unknown ELSE Min(starts)
=============================================================================
