------------------------------- MODULE PlanFile -------------------------------
(***************************************************************************)
(* The manifest of a plan as load_plan takes it in: what it checks, in its  *)
(* order, and the order it gives the changes.  A manifest is refused with   *)
(* the first problem found, or loaded.                                      *)
(***************************************************************************)
EXTENDS Integers, Sequences, SequencesExt, FiniteSets

CONSTANT Missing   \* the id of an entry that has none

(* The plan's table, reduced to what is checked of it, and an entry of      *)
(* [[changes]].                                                             *)
Plan(known, invokes, limits, delivery, pull) ==
  [known |-> known, invokes |-> invokes, limits |-> limits, delivery |-> delivery, pull |-> pull]
Entry(id, deps, pause, human) ==
  [id |-> id, depends_on |-> deps, pause_before |-> pause, human_only |-> human]

Ids(entries) == {entries[i].id : i \in DOMAIN entries}

(* An adapter without defaults needs all its invokes and a state file.      *)
AdapterUnknown(plan) == ~plan.known /\ plan.invokes # "given"

(* escalate_after_review_fails, finding_recurrence_limit and                *)
(* invalid_output_retries                                                   *)
LimitNegative(plan) == \E limit \in plan.limits : limit < 0

DeliveryInvalid(plan) == plan.pull /\ ~plan.delivery

(* pause_before_human_only: a boolean, and true on a gated change only.     *)
HumanOnlyInvalid(e) == e.human_only = "other" \/ (e.human_only = "true" /\ ~e.pause_before)

EntryInvalid(entries) ==
  \E i \in DOMAIN entries :
    \/ entries[i].id = Missing
    \/ \E j \in 1 .. i - 1 : entries[j].id = entries[i].id
    \/ HumanOnlyInvalid(entries[i])

DependencyUnknown(entries) ==
  \E i \in DOMAIN entries : ToSet(entries[i].depends_on) \ Ids(entries) # {}

(* A known adapter whose invoke the plan sets to nothing.                   *)
InvokeMissing(plan) == plan.invokes = "emptied"

-----------------------------------------------------------------------------
(* Kahn's algorithm.  An entry may name a dependency twice.                 *)

Times(e, id) == Cardinality({k \in DOMAIN e.depends_on : e.depends_on[k] = id})

(* The ids at some positions, in the manifest's order.                      *)
InOrder(S) == [k \in 1 .. Cardinality(S) |-> CHOOSE i \in S : Cardinality({j \in S : j < i}) = k - 1]
Queued(entries, S) == [k \in DOMAIN InOrder(S) |-> entries[InOrder(S)[k]].id]

(* The head of the queue is put in order; what waited for nothing else joins *)
(* the queue.                                                               *)
Pop(entries, s) ==
  LET id == Head(s.queue)
      left == [i \in DOMAIN entries |-> s.indeg[i] - Times(entries[i], id)]
      freed == {i \in DOMAIN entries : Times(entries[i], id) > 0 /\ left[i] = 0}
  IN  [order |-> Append(s.order, id), indeg |-> left, queue |-> Tail(s.queue) \o Queued(entries, freed)]

Waiting(entries) ==
  [order |-> <<>>, indeg |-> [i \in DOMAIN entries |-> Len(entries[i].depends_on)],
   queue |-> Queued(entries, {i \in DOMAIN entries : entries[i].depends_on = <<>>})]

(* An entry is popped at most once, so there are no more passes than entries.*)
Passes(entries) ==
  LET after[n \in 0 .. Len(entries)] ==
        IF n = 0 THEN Waiting(entries)
        ELSE IF after[n - 1].queue = <<>> THEN after[n - 1] ELSE Pop(entries, after[n - 1])
  IN  after

topo_sort(entries) == Passes(entries)[Len(entries)].order

(* Not every change was reached.                                            *)
CycleFound(entries) == Len(topo_sort(entries)) # Len(entries)

(* The checks in the order they are made, and whether each fails.            *)
Checks(plan, entries) ==
  << <<"no changes", entries = <<>> >>, <<"adapter", AdapterUnknown(plan)>>,
     <<"limit", LimitNegative(plan)>>, <<"delivery", DeliveryInvalid(plan)>>,
     <<"entry", EntryInvalid(entries)>>, <<"dependency", DependencyUnknown(entries)>>,
     <<"cycle", CycleFound(entries)>>, <<"invoke", InvokeMissing(plan)>> >>

load_plan(plan, entries) ==
  LET checks == Checks(plan, entries)
      failing == {i \in DOMAIN checks : checks[i][2]}
  IN  IF failing = {} THEN [why |-> "none", order |-> topo_sort(entries)]
      ELSE [why |-> checks[Min(failing)][1], order |-> <<>>]

-----------------------------------------------------------------------------
(* What is to be expected of the order, without an algorithm.               *)

DepsOf(entries, id) ==
  UNION {ToSet(entries[i].depends_on) : i \in {j \in DOMAIN entries : entries[j].id = id}}

(* Some changes wait for each other, or one for itself.                     *)
Cyclic(entries) ==
  \E S \in (SUBSET Ids(entries)) \ {{}} : \A id \in S : DepsOf(entries, id) \cap S # {}

(* Every change once, after all it depends on.                              *)
Topological(entries, order) ==
  /\ Len(order) = Len(entries) /\ ToSet(order) = Ids(entries)
  /\ \A i, j \in DOMAIN order : order[j] \in DepsOf(entries, order[i]) => j < i

(* A manifest of known dependencies is refused for a cycle exactly if it has *)
(* one; what is loaded can be run from its first change to its last.        *)
SortCorrect(entries) ==
  ~EntryInvalid(entries) /\ ~DependencyUnknown(entries) =>
    /\ CycleFound(entries) <=> Cyclic(entries)
    /\ ~Cyclic(entries) => Topological(entries, topo_sort(entries))
=============================================================================
