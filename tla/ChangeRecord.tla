----------------------------- MODULE ChangeRecord -----------------------------
(***************************************************************************)
(* One change of a plan: its record in .opsx-plan/<plan>.state.json, what   *)
(* the repository shows about it, and what the engine does to the record    *)
(* when a worker's result arrives or when a run starts.  Everything here    *)
(* is a function of its arguments; module PlanRun holds the variables.      *)
(*                                                                          *)
(* The record is a projection of lib/orchestrator/state.py:                 *)
(*   status, phase, round, created, accepted  - the fields of those names   *)
(*   streak    - no_progress_streak                                         *)
(*   fixFrom   - latest_fix_prompt, as the round whose result wrote it      *)
(*               (0 for the empty prompt)                                   *)
(*   cites     - the findings of the review entries in history              *)
(*   archive   - archive.status, and what archive.path and archive.commit   *)
(*               name                                                       *)
(*   escalated - escalation.active                                          *)
(*   attempts  - create_attempts                                            *)
(*   why       - reason / last_result of a failed change, as a tag          *)
(***************************************************************************)
EXTENDS Integers, FiniteSets

CONSTANTS
  MaxRounds,         \* manifest key max_rounds
  NoProgressLimit,   \* manifest key no_progress_limit
  RecurrenceLimit,   \* manifest key finding_recurrence_limit (0 disables it)
  EscalateAfter,     \* manifest key escalate_after_review_fails (0 disables it)
  CreateMaxAttempts, \* manifest key create_max_attempts
  Loci,              \* the normalised file locations a finding can cite
  ArchiveIgnored     \* is openspec/changes/archive/ covered by .gitignore?

ASSUME MaxRoundsAssumption == MaxRounds \in Nat \ {0}
ASSUME NoProgressAssumption == NoProgressLimit \in Nat \ {0}
ASSUME RecurrenceAssumption == RecurrenceLimit \in Nat
ASSUME EscalateAssumption == EscalateAfter \in Nat
ASSUME CreateMaxAssumption == CreateMaxAttempts \in Nat
ASSUME IgnoredAssumption == ArchiveIgnored \in BOOLEAN

-----------------------------------------------------------------------------
(* The record and the repository evidence.                                  *)

Statuses == {"pending", "running", "done", "failed"}
Phases == {"implement", "review", "archive", "done"}
Severities == {"critical", "warning", "note"}
Policies == {"strict", "skip_suggestion", "skip_warning"}

Reasons == {"none", "unconfigured", "debris", "create_exhausted", "create_failed",
            "spawn", "timeout", "output_invalid", "implement_blocked",
            "implement_invalid", "no_progress", "max_rounds", "review_invalid",
            "recurrence", "archive_failed", "evidence"}

(* archive.path names the dated archive directory or something else;        *)
(* archive.commit is empty, names the archive(<id>): commit, or names       *)
(* another commit of the branch.                                            *)
Commits == {"none", "archive", "other"}
ArchiveStates == [status : {"not_started", "passed", "failed"},
                  path : BOOLEAN, commit : Commits]

Citations == (1 .. MaxRounds) \X Severities \X Loci

Record == [status : Statuses, phase : Phases, round : 1 .. MaxRounds,
           streak : Nat, fixFrom : 0 .. MaxRounds, cites : SUBSET Citations,
           archive : ArchiveStates, escalated : BOOLEAN,
           attempts : 0 .. CreateMaxAttempts, created : BOOLEAN,
           accepted : BOOLEAN, why : Reasons]

NewRecord ==
  [status |-> "pending", phase |-> "implement", round |-> 1, streak |-> 0,
   fixFrom |-> 0, cites |-> {},
   archive |-> [status |-> "not_started", path |-> FALSE, commit |-> "none"],
   escalated |-> FALSE, attempts |-> 0, created |-> FALSE, accepted |-> FALSE,
   why |-> "none"]

(* What is on disk: openspec/changes/<id> is absent, a bare scaffold, holds  *)
(* other files, or holds proposal.md and tasks.md (failing or passing the    *)
(* created_check); a dated archive directory and an archive(<id>): commit    *)
(* exist or not; automatable tasks are still unchecked or not.               *)
ActiveDirs == {"none", "scaffold", "partial", "invalid", "valid"}
Tree == [active : ActiveDirs, archived : BOOLEAN, commit : BOOLEAN, open : BOOLEAN]

change_authored(t) == t.active \in {"invalid", "valid"}
scaffold_is_clearable(t) == t.active = "scaffold"
ArchivedOnDisk(t) == t.active = "none" /\ t.archived
remaining_automatable_tasks(t) == t.open /\ (change_authored(t) \/ t.archived)

(* The created_check passes and no tracked file was touched meanwhile.       *)
verify_change_created(t, untouched) == t.active = "valid" /\ untouched

ReachableCommit(commit, t) == commit = "other" \/ (commit = "archive" /\ t.commit)

(* Mutant: the worker's claim is believed.                                  *)
VerifyByClaim(r, t) == r.archive.status = "passed" /\ r.archive.path

verify_direct_archive_done(r, t) ==
  /\ r.archive.status = "passed"
  /\ t.active = "none"
  /\ r.archive.path
  /\ t.archived
  /\ ArchiveIgnored \/ ReachableCommit(r.archive.commit, t)

-----------------------------------------------------------------------------
(* Status changes.                                                          *)

Failed(r, why) == [r EXCEPT !.status = "failed", !.why = why]
Pending(r) == [r EXCEPT !.status = "pending", !.why = "none"]
Running(r) == [r EXCEPT !.status = "running", !.why = "none"]
Done(r) == [r EXCEPT !.status = "done", !.phase = "done", !.why = "none"]

At(r, phase) == [r EXCEPT !.phase = phase]
Prompted(r) == [r EXCEPT !.fixFrom = r.round]

-----------------------------------------------------------------------------
(* The implement result.                                                    *)

ImplementPayloads == [status : {"implemented", "blocked", "other"}, progress : BOOLEAN]

(* Mutants: the corrective prompt is not replaced; the round budget is not  *)
(* looked at.                                                               *)
NextRoundOldPrompt(r) == At([r EXCEPT !.round = r.round + 1], "implement")
IncompleteRoundUncapped(r) == Pending(At([Prompted(r) EXCEPT !.round = r.round + 1], "implement"))

(* The corrective prompt of this round goes to the next implement round.    *)
NextRound(r) == At([Prompted(r) EXCEPT !.round = r.round + 1], "implement")

IncompleteRound(r) ==
  IF r.round >= MaxRounds
  THEN Failed(Prompted(r), "max_rounds")
  ELSE Pending(NextRound(r))

ImplementBlocked(r, t, progress) ==
  LET counted == IF progress THEN [r EXCEPT !.streak = 0] ELSE r
  IN  IF progress /\ remaining_automatable_tasks(t)
      THEN IncompleteRound(counted)
      ELSE Failed(counted, "implement_blocked")

ImplementCompleted(r, t, progress) ==
  LET counted == [r EXCEPT !.streak = IF progress THEN 0 ELSE r.streak + 1]
  IN  IF counted.streak >= NoProgressLimit
      THEN Failed(counted, "no_progress")
      ELSE IF remaining_automatable_tasks(t)
           THEN IncompleteRound(counted)
           ELSE Pending(At(counted, "review"))

apply_implement_result(r, t, payload) ==
  IF payload.status = "blocked" THEN ImplementBlocked(r, t, payload.progress)
  ELSE IF payload.status = "implemented" THEN ImplementCompleted(r, t, payload.progress)
  ELSE Failed(r, "implement_invalid")

-----------------------------------------------------------------------------
(* The review result.                                                       *)

ReviewPayloads == [status : {"reviewed", "other"}, verdict : {"pass", "fail", "other"},
                   counts : SUBSET Severities, findings : SUBSET (Severities \X Loci)]

blocking_severities(policy) ==
  {s \in Severities : \/ s = "critical"
                      \/ s = "warning" /\ policy # "skip_warning"
                      \/ s = "note" /\ policy = "strict"}

(* The review rounds in which a finding that gates the verdict cited l.      *)
LocusRounds(cites, severities, l) ==
  {n \in 1 .. MaxRounds : \E s \in severities : <<n, s, l>> \in cites}

(* Mutant: one citation too many is let through.                            *)
RecurringLate(cites, severities) ==
  /\ RecurrenceLimit > 0
  /\ \E l \in Loci : Cardinality(LocusRounds(cites, severities, l)) > RecurrenceLimit

Recurring(cites, severities) ==
  /\ RecurrenceLimit > 0
  /\ \E l \in Loci : Cardinality(LocusRounds(cites, severities, l)) >= RecurrenceLimit

(* Mutant: the verdict is believed whatever the counts say.                 *)
ReviewPassedByVerdict(payload, policy) == payload.verdict = "pass"

ReviewPassed(payload, policy) ==
  /\ payload.counts \cap blocking_severities(policy) = {}
  /\ policy = "strict" => payload.verdict = "pass"

ReviewRecorded(r, payload) ==
  [r EXCEPT !.cites = r.cites \cup {<<r.round, f[1], f[2]>> : f \in payload.findings}]

ReviewFailed(r, policy) ==
  IF Recurring(r.cites, blocking_severities(policy))
  THEN Failed(Prompted(r), "recurrence")
  ELSE IncompleteRound(r)

ToArchive(r) == At([r EXCEPT !.fixFrom = 0], "archive")

apply_review_result(r, payload, policy) ==
  LET recorded == ReviewRecorded(r, payload)
  IN  IF payload.status # "reviewed" THEN Failed(r, "review_invalid")
      ELSE IF payload.verdict \notin {"pass", "fail"} THEN Failed(recorded, "review_invalid")
      ELSE IF ReviewPassed(payload, policy)
           THEN Pending(ToArchive(recorded))
           ELSE ReviewFailed(recorded, policy)

-----------------------------------------------------------------------------
(* The archive result.  A legacy run makes every post-archive failure final. *)

ArchivePayloads == [status : {"archived", "blocked", "other"}, path : BOOLEAN,
                    commit : Commits]

ArchiveClaim(r, status, payload) ==
  [r EXCEPT !.archive = [status |-> status, path |-> payload.path, commit |-> payload.commit]]

ArchiveFailed(r) == Failed([r EXCEPT !.archive.status = "failed"], "archive_failed")

apply_archive_result(r, t, payload, checks_ok, clean_ok) ==
  LET claimed == ArchiveClaim(r, "passed", payload)
  IN  IF payload.status = "blocked"
      THEN Failed(ArchiveClaim(r, "failed", payload), "archive_failed")
      ELSE IF payload.status # "archived" THEN ArchiveFailed(r)
      ELSE IF verify_direct_archive_done(claimed, t) /\ checks_ok /\ clean_ok
           THEN Done(claimed)
           ELSE ArchiveFailed(claimed)

-----------------------------------------------------------------------------
(* Outcomes without a payload, and the implement model.                     *)

OutputInvalid(r) ==
  IF r.phase = "archive"
  THEN Failed([r EXCEPT !.archive.status = "failed"], "output_invalid")
  ELSE Failed(r, "output_invalid")

escalation_active_for_dispatch(r) == EscalateAfter > 0 /\ r.round - 1 >= EscalateAfter

(* Escalation is decided before an implement dispatch and never withdrawn.   *)
Escalated(r) ==
  [r EXCEPT !.escalated = r.escalated \/ escalation_active_for_dispatch(r)]

-----------------------------------------------------------------------------
(* Reconciliation at the start of a run.                                    *)

(* Mutant: an interrupted change starts its round again from implement.      *)
RecoveredCold(r) == IF r.status = "running" THEN Pending(At(r, "implement")) ELSE r

Recovered(r) == IF r.status = "running" THEN Pending(r) ELSE r

Requeueable(r, t, create_invoke) ==
  /\ r.status = "failed"
  /\ r.attempts = 0
  /\ ~change_authored(t)
  /\ ~ArchivedOnDisk(t)
  /\ create_invoke

(* record_archive_evidence: the dated directory, and the archive commit      *)
(* unless git ignores the directory.                                         *)
EvidenceOnDisk(t) == ArchivedOnDisk(t) /\ (t.commit \/ ArchiveIgnored)

record_archive_evidence(r, t) ==
  [r EXCEPT !.archive = [status |-> "passed", path |-> TRUE,
                         commit |-> IF t.commit THEN "archive" ELSE "none"]]

AdoptCreated(r, t) ==
  IF r.status = "pending" /\ r.attempts > 0 /\ change_authored(t) /\ ~r.created
  THEN Pending([r EXCEPT !.created = verify_change_created(t, TRUE)])
  ELSE r

ReconcileUnfinished(r, t) ==
  IF EvidenceOnDisk(t) THEN Done(record_archive_evidence(r, t))
  ELSE IF verify_direct_archive_done(r, t) THEN Done(r)
  ELSE IF ArchivedOnDisk(t) THEN Failed(r, "evidence")
  ELSE AdoptCreated(r, t)

reconcile(r, t, create_invoke) ==
  LET q == Recovered(r)
  IN  IF Requeueable(q, t, create_invoke) THEN Pending(q)
      ELSE IF q.status # "done" THEN ReconcileUnfinished(q, t)
      ELSE IF verify_direct_archive_done(q, t) THEN q
      ELSE Failed(q, "evidence")

=============================================================================
