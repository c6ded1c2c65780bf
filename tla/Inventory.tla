----------------------------- MODULE Inventory -----------------------------
(***************************************************************************)
(* What hardware there is and who may use it: cluster.py, inventory.py,    *)
(* catalog.py and colocation.py, as far as a booking's fate depends on     *)
(* them. The configuration is constant; a snapshot is a record of the      *)
(* nodes that Slurm named and of the jobs of others,                       *)
(*   [nodes   |-> [name -> [gpus, partition, usable]],                     *)
(*    foreign |-> set of jobs]                                             *)
(* where gpus is a function from indices 0..k-1 to GPU classes. Memory is  *)
(* counted in whole gigabytes.                                             *)
(***************************************************************************)
EXTENDS Integers, FiniteSets, FiniteSetsExt, SequencesExt

CONSTANTS
  GpuClass,     \* class -> [vram, usable, arch, gap]
  Pool,         \* pool  -> [partition, managed, scaleOut, nodes, classes]
  Model,        \* model -> [gpus, memory, requires, variants]
  TotalGpus,    \* TOTAL_GPUS
  Headroom,     \* COLOCATION_HEADROOM_GB
  DefaultQuota, GroupQuota, PoolQuota,  \* quotas: of cluster.yaml
  NoClass, NoPool, Unlimited

ASSUME ClassesAssumption ==
  \A c \in DOMAIN GpuClass : GpuClass[c].vram \in Nat /\ GpuClass[c].gap \in Nat
ASSUME TotalAssumption == TotalGpus \in Int
ASSUME ModelsAssumption ==
  \A m \in DOMAIN Model : /\ Model[m].gpus \in Nat \ {0}
                          /\ \A c \in DOMAIN Model[m].variants : Model[m].variants[c] \in Nat \ {0}

-----------------------------------------------------------------------------
(* Pools. *)

PoolOf(p) == IF p \in DOMAIN Pool THEN {Pool[p]} ELSE {}
AcceptsNode(pool, n) == pool.nodes # {} => n \in pool.nodes
AcceptsClass(pool, c) == pool.classes # {} => c \in pool.classes
HasScaleOut == \E p \in DOMAIN Pool : Pool[p].scaleOut

(* The pool of a node: an explicit node list wins over a whole partition.  *)
(* The code breaks ties by name; CHOOSE stands for a fixed order.          *)
PoolForNode(inv, n) ==
  LET named == {p \in DOMAIN Pool : /\ Pool[p].partition = inv.nodes[n].partition
                                    /\ AcceptsNode(Pool[p], n)}
      explicit == {p \in named : Pool[p].nodes # {}}
  IN CASE explicit # {} -> CHOOSE p \in explicit : TRUE
       [] named # {} /\ explicit = {} -> CHOOSE p \in named : TRUE
       [] OTHER -> NoPool

-----------------------------------------------------------------------------
(* Nodes of a snapshot. *)

EmptySnapshot == [nodes |-> <<>>, foreign |-> {}]
IsEmpty(inv) == DOMAIN inv.nodes = {}
UsableNodes(inv) == {n \in DOMAIN inv.nodes : inv.nodes[n].usable}
NodesInPool(inv, p) == {n \in UsableNodes(inv) : PoolForNode(inv, n) = p}
ScaleOutNodes(inv) ==
  {n \in DOMAIN inv.nodes : \E pool \in PoolOf(PoolForNode(inv, n)) : pool.scaleOut}

(* Nodes a booking may land on: those of the pool it names or, if it names *)
(* none, all but the opt-in ones.                                          *)
CandidateNodes(inv, p) ==
  IF p # NoPool THEN NodesInPool(inv, p) ELSE UsableNodes(inv) \ ScaleOutNodes(inv)

CountOf(inv, n, c) ==
  Cardinality({i \in DOMAIN inv.nodes[n].gpus : inv.nodes[n].gpus[i] = c})
ClassesOn(inv, N) ==
  UNION {{inv.nodes[n].gpus[i] : i \in DOMAIN inv.nodes[n].gpus} : n \in N} \ {NoClass}

-----------------------------------------------------------------------------
(* Models on GPU classes. *)

GpusFor(m, c) ==
  IF c \in DOMAIN Model[m].variants THEN Model[m].variants[c] ELSE Model[m].gpus

Allows(requires, c) ==
  IF c = NoClass
  THEN requires.classes = {} /\ requires.minVram = 0
  ELSE /\ requires.classes # {} => c \in requires.classes
       /\ GpuClass[c].vram >= requires.minVram
       /\ requires.arch \in {"any", GpuClass[c].arch}

FitsOn(requires, c, gpus) ==
  /\ Allows(requires, c)
  /\ requires.minTotal > 0 =>
       c # NoClass /\ GpuClass[c].usable * Max({1, gpus}) >= requires.minTotal

(* A variant is an explicit statement of support; otherwise the            *)
(* requirements decide, and the memory budget is an implied floor.         *)
SupportsClass(m, c) ==
  \/ c \in DOMAIN Model[m].variants
  \/ /\ Allows(Model[m].requires, c)
     /\ c # NoClass =>
          GpuClass[c].usable >= IF Model[m].requires.minVram > 0
                                THEN Model[m].requires.minVram ELSE Model[m].memory

UsableClass(inv, m, p, c) ==
  /\ c \in DOMAIN GpuClass
  /\ \A pool \in PoolOf(p) : AcceptsClass(pool, c)
  /\ SupportsClass(m, c)
  /\ FitsOn(Model[m].requires, c, GpusFor(m, c))
  /\ \E n \in CandidateNodes(inv, p) : CountOf(inv, n, c) >= GpusFor(m, c)

(* The class a booking gets: the preferred one, or the smallest that will  *)
(* do; NoClass when there is none. Classes of one size stand in the fixed  *)
(* order of CHOOSE.                                                        *)
ChooseGpuClass(inv, m, p, preferred) ==
  LET usable == {c \in ClassesOn(inv, CandidateNodes(inv, p)) : UsableClass(inv, m, p, c)}
  IN CASE preferred # NoClass ->
            IF ClassesOn(inv, CandidateNodes(inv, p)) # {} /\ UsableClass(inv, m, p, preferred)
            THEN preferred ELSE NoClass
       [] preferred = NoClass /\ usable # {} ->
            CHOOSE c \in usable : \A d \in usable : GpuClass[c].vram <= GpuClass[d].vram
       [] OTHER -> NoClass

(* Several models on one GPU (colocation.resolve_group): distinct, each on *)
(* one GPU with a declared budget, together within the card.               *)
Colocatable(models, c) ==
  /\ Len(models) >= 2
  /\ Cardinality(ToSet(models)) = Len(models)
  /\ \A m \in ToSet(models) : GpusFor(m, c) = 1 /\ Model[m].memory > 0
  /\ c # NoClass
  /\ FoldLeft(LAMBDA sum, m : sum + Model[m].memory, 0, models)
       <= Max({0, GpuClass[c].usable - Headroom})

-----------------------------------------------------------------------------
(* Quotas: the default, overridden axis by axis by the user's groups in    *)
(* their order and then by the pool. Administrators have none.             *)

NoQuota == [gpus |-> Unlimited, gpuHours |-> Unlimited, ahead |-> Unlimited, length |-> Unlimited]
Within(amount, limit) == IF limit = Unlimited THEN TRUE ELSE amount <= limit

MergedWith(quota, other) ==
  [axis \in DOMAIN quota |-> IF other[axis] = Unlimited THEN quota[axis] ELSE other[axis]]

QuotaFor(user, p) ==
  LET ofGroups == FoldLeft(LAMBDA quota, g : IF g \in DOMAIN GroupQuota
                                             THEN MergedWith(quota, GroupQuota[g]) ELSE quota,
                           DefaultQuota, user.groups)
  IN CASE user.admin -> NoQuota
       [] ~user.admin /\ p \in DOMAIN PoolQuota -> MergedWith(ofGroups, PoolQuota[p])
       [] OTHER -> ofGroups
=============================================================================
