------------------------------- MODULE MCPlanRun -------------------------------
(***************************************************************************)
(* Small instances of PlanRun for TLC.                                      *)
(***************************************************************************)
EXTENDS PlanRunProperties, SequencesExt

CONSTANTS a, b, c3, l1, l2

OneChange == {a}
TwoChanges == {a, b}
ThreeChanges == {a, b, c3}
NoDeps == [x \in Changes |-> {}]
ForkDeps == [x \in Changes |-> IF x = a THEN {} ELSE {a}]

-----------------------------------------------------------------------------
(* The manifest of the instance, and the order it is loaded in.             *)

Manifests == INSTANCE PlanFile WITH Missing <- NoChange

Ordinary == Manifests!Plan(TRUE, "default", {0, 2}, FALSE, FALSE)
Manifest ==
  LET ids == SelectSeq(<<c3, b, a>>, LAMBDA x : x \in Changes)
  IN  [i \in DOMAIN ids |-> Manifests!Entry(ids[i], SetToSeq(Deps[ids[i]]), ids[i] \in PauseBefore, "absent")]
Loaded == Manifests!load_plan(Ordinary, Manifest)
LoadedRank == [x \in Changes |-> CHOOSE i \in DOMAIN Loaded.order : Loaded.order[i] = x]

(* Three entries with up to two dependencies each, known or not, named once  *)
(* or twice, on themselves, on each other or in a circle.                   *)
DependsOn == {<<>>} \cup {<<x>> : x \in {a, b, c3, l1}} \cup {<<x, y>> : x, y \in {a, b, c3}}
Small == {<<Manifests!Entry(a, d, FALSE, "absent"), Manifests!Entry(b, e, TRUE, "true"),
            Manifests!Entry(c3, f, TRUE, "false")>> : d, e, f \in DependsOn}

(* Kahn's algorithm, as it is coded, agrees with the definition of a         *)
(* topological order on every small manifest (planref.topo_sort).           *)
ASSUME SortCorrectAssumption == \A m \in Small : Manifests!SortCorrect(m)

(* What load_plan refuses, and which of two problems it reports.            *)
ASSUME LoadPlanAssumption ==
  LET one(id, deps, pause, human) == <<Manifests!Entry(id, deps, pause, human)>>
      why(plan, m) == Manifests!load_plan(plan, m).why
      good == one(a, <<>>, FALSE, "absent")
  IN  /\ why(Ordinary, good) = "none" /\ why(Ordinary, <<>>) = "no changes"
      /\ why([Ordinary EXCEPT !.known = FALSE], good) = "adapter"
      /\ why([Ordinary EXCEPT !.limits = {-1}, !.pull = TRUE], good) = "limit"
      /\ why([Ordinary EXCEPT !.pull = TRUE], one(a, <<b>>, FALSE, "absent")) = "delivery"
      /\ \A m \in {one(NoChange, <<b>>, FALSE, "absent"), good \o good,
                    one(a, <<b>>, FALSE, "true"), one(a, <<b>>, TRUE, "other")} : why(Ordinary, m) = "entry"
      /\ why(Ordinary, one(a, <<a, b>>, TRUE, "true")) = "dependency"
      /\ why([Ordinary EXCEPT !.invokes = "emptied"], one(a, <<a>>, TRUE, "false")) = "cycle"
      /\ why([Ordinary EXCEPT !.invokes = "emptied"], good) = "invoke"

-----------------------------------------------------------------------------
(* What earlier runs left in the plan state: nothing, or also the record of *)
(* a change that was done and whose archive commit was then taken back.     *)

NoHistory == {NewRecord}
TakenBack ==
  Failed(Done([NewRecord EXCEPT !.archive = [status |-> "passed", path |-> TRUE,
                                             commit |-> "archive"]]), "evidence")
WithHistory == {NewRecord, TakenBack}

-----------------------------------------------------------------------------
(* What runs are restricted to, and what reviews answer.                    *)

OnlyAll == {Changes}
OnlySome == {Changes, Changes \ {a}}

Answer(verdict, counts, findings) ==
  [status |-> "reviewed", verdict |-> verdict, counts |-> counts, findings |-> findings]

Clean == Answer("pass", {}, {})
Critical(l) == Answer("fail", {"critical"}, {<<"critical", l>>})
Malformed == [Clean EXCEPT !.status = "other"]

(* Clean, or failing.                                                       *)
PlainReviews == {Clean, Critical(l1)}

(* Also: what is not an answer.                                             *)
CoarseReviews == {Clean, Critical(l1), Malformed}

(* Also: a verdict that contradicts the counts, an unknown verdict, a       *)
(* warning or a note that gates under some policies only.                   *)
FineReviews ==
  CoarseReviews \cup
  {Critical(l2), Answer("fail", {"warning"}, {<<"warning", l1>>}),
   Answer("pass", {"critical"}, {<<"critical", l1>>}),
   Answer("fail", {"note"}, {}), Answer("other", {}, {})}

=============================================================================
