----------------------------- MODULE SafeUpgrade -----------------------------
(***************************************************************************)
(* The safe upgrade of one Python project: which outdated packages are     *)
(* vetted (env_manager/upgrade/plan.py, env_manager/resolver/classify.py,  *)
(* dry_run.py, reverse_deps.py) and how the vetted ones are applied, with  *)
(* snapshot and rollback (env_manager/upgrade/apply.py).                   *)
(*                                                                         *)
(* Two callers share it: the update job (`entry` = "job") goes through     *)
(* build_upgrade_plan and apply_upgrade_plan; pipeline step 5 ("step")     *)
(* classifies and applies in one go (env_manager/pipeline/upgrades.py).    *)
(* Every call of pip may fail, and what a failed install leaves behind is  *)
(* whatever PipModel allows.  Before most calls of pip the code probes the *)
(* interpreter (is_venv_valid: `python --version`, with a timeout); where  *)
(* a probe that fails lets the upgrade go on without the call, the action  *)
(* has a disjunct for it and `blind` or `unheard` remembers it.            *)
(***************************************************************************)
EXTENDS PipModel

CONSTANTS Torch,       \* the torch family among the packages
          Twins,       \* CO_DEPENDENT_PAIRS: pairs <<package, twin>>
          Indexes,     \* the package indexes considered
          StartVenvs,  \* the environments an upgrade starts from
          NoFreeze     \* the value None of `freeze`

ASSUME UpgradeAssumption ==
  /\ Torch \subseteq Packages
  /\ Twins \subseteq Packages \X Packages
  /\ Indexes \subseteq SUBSET Requirements
  /\ StartVenvs \subseteq Venvs
  /\ NoFreeze \notin Venvs

VARIABLES
  index, entry,       \* the package index, the caller
  gpu,                \* the plan has a GPU torch index (step 5 uses none apart)
  venv, origin,       \* the environment now, and (history) at the start
  pc,
  cand, later,        \* candidates being classified; torch family still to come
  todo,               \* survivors left for the per-package dry-runs
  safe, blocked,      \* the verdicts
  pins,               \* latest_version of the safe packages
  vetted,             \* history: the version the dry-run chose for a safe package
  unheard,            \* history: vetted over an objection nobody was asked for
  batch, freeze,      \* the batch being applied and its snapshot
  failed, rolledBack, \* a "failed" event was emitted; "rolled back successfully"
  blind               \* history: the last batch was checked without running pip

planVars  == <<cand, later, todo, safe, blocked, pins, vetted, unheard>>
applyVars == <<batch, freeze, failed, rolledBack, blind>>
fixed     == <<index, entry, gpu, origin>>
vars      == <<fixed, venv, pc, planVars, applyVars>>

Stages == {"list", "classify", "dryrun", "single", "torch", "apply", "freeze",
           "install", "check", "rollback", "verify", "done", "dropped"}

NoVersions == [p \in Packages |-> Absent]

Init ==
  /\ index \in Indexes
  /\ \/ entry = "job" /\ gpu \in BOOLEAN
     \/ entry = "step" /\ gpu = FALSE
  /\ venv \in StartVenvs /\ origin = venv
  /\ pc = "list"
  /\ cand = {} /\ later = {} /\ todo = {} /\ safe = {} /\ blocked = {}
  /\ pins = NoVersions /\ vetted = NoVersions /\ unheard = {}
  /\ batch = {} /\ freeze = NoFreeze /\ blind = FALSE
  /\ failed = FALSE /\ rolledBack = FALSE

-----------------------------------------------------------------------------
(* Planning.  Nothing is installed; the environment stays as it is.        *)

Outdated == {p \in Installed(venv) : venv[p] < MaxVersion}

\* `pip list --outdated`; unreadable output counts as nothing outdated.
OutdatedLists == {Outdated, {}}

\* _plan_python_project: the torch family is kept for later.
PlanProject ==
  /\ pc = "list" /\ entry = "job"
  /\ \E raw \in OutdatedLists : cand' = raw \ Torch /\ later' = raw \cap Torch
  /\ pc' = "classify"
  /\ UNCHANGED <<fixed, venv, todo, safe, blocked, pins, vetted, unheard, applyVars>>

\* _upgrade_python_dependencies, pipeline step 5: the torch family is a
\* candidate like the others.
UpgradeStep ==
  /\ pc = "list" /\ entry = "step"
  /\ \E raw \in OutdatedLists :
       IF raw = {} THEN pc' = "done" /\ UNCHANGED cand
                   ELSE pc' = "classify" /\ cand' = raw
  /\ UNCHANGED <<fixed, venv, later, todo, safe, blocked, pins, vetted, unheard, applyVars>>

\* Where classify_safe_upgrades returns to: the plan builder calls it for the
\* torch family last, if at all.
AfterClassify == IF entry = "job" /\ cand \cap Torch = {} THEN "torch" ELSE "apply"

\* Mutant: no installed package is asked.
Objectors_NobodyAsked(p) == {}

\* check_reverse_deps for a candidate: the installed packages that forbid its
\* newest version.  A twin that is a candidate too is not asked.
Objectors(p) ==
  {q \in Packages \ {p} :
     /\ ~(<<p, q>> \in Twins /\ q \in cand)
     /\ \E rq \in index : rq.by = q /\ rq.on = p /\ InForce(rq, venv)
                          /\ MaxVersion \notin rq.in}

Survivors == {p \in cand : Objectors(p) = {}}

\* Mutant: a candidate blocked by the reverse-dependency check goes on to the
\* dry-run all the same.
Classify_KeepsBlocked ==
  /\ pc = "classify"
  /\ blocked' = blocked \cup (cand \ Survivors)
  /\ todo' = cand
  /\ pc' = IF cand = {} THEN AfterClassify ELSE "dryrun"
  /\ UNCHANGED <<fixed, venv, cand, later, safe, pins, vetted, unheard, applyVars>>

\* classify_safe_upgrades up to its first dry-run.  Every candidate is blocked
\* when pip cannot tell the installed versions or their requirements; none is
\* when only the probe before the question for the requirements fails.
Classify ==
  /\ pc = "classify"
  /\ \E ahead \in {Survivors, {}, cand} :
       /\ blocked' = blocked \cup (cand \ ahead)
       /\ todo' = ahead
       /\ unheard' = unheard \cup (ahead \ Survivors)
       /\ pc' = IF ahead = {} THEN AfterClassify ELSE "dryrun"
  /\ UNCHANGED <<fixed, venv, cand, later, safe, pins, vetted, applyVars>>

\* Candidates whose version the dry-run `w` changes are safe, at the newest
\* version, whichever version the dry-run chose.
Accept(among, w) ==
  LET changed == {p \in among : w[p] # venv[p]} IN
  /\ safe' = safe \cup changed
  /\ blocked' = blocked \cup (among \ changed)
  /\ pins' = [p \in Packages |-> IF p \in changed THEN MaxVersion ELSE pins[p]]
  /\ vetted' = [p \in Packages |-> IF p \in changed THEN w[p] ELSE vetted[p]]

\* _vet_normal: one dry-run for all survivors, which moves nothing when the probe
\* before it fails; if it fails itself, one for each.
BatchDryRun ==
  /\ pc = "dryrun"
  /\ \/ \E w \in UpgradeDryRuns(index, venv, todo) \cup {venv} :
          /\ Accept(todo, w)
          /\ todo' = {}
          /\ pc' = AfterClassify
     \/ /\ pc' = "single"
        /\ UNCHANGED <<todo, safe, blocked, pins, vetted>>
  /\ UNCHANGED <<fixed, venv, cand, later, unheard, applyVars>>

SingleDryRun ==
  /\ pc = "single"
  /\ \E p \in todo :
       /\ \/ \E w \in UpgradeDryRuns(index, venv, {p}) : Accept({p}, w)
          \/ /\ blocked' = blocked \cup {p}
             /\ UNCHANGED <<safe, pins, vetted>>
       /\ todo' = todo \ {p}
  /\ pc' = IF todo' = {} THEN AfterClassify ELSE "single"
  /\ UNCHANGED <<fixed, venv, cand, later, unheard, applyVars>>

\* check_torch_cuda_upgrades: one dry-run for the installed torch family; here
\* the version the dry-run chose is the one that is pinned.
PlanCuda ==
  /\ gpu /\ Installed(venv) \cap Torch # {}
  /\ \/ \E w \in UpgradeDryRuns(index, venv, Installed(venv) \cap Torch) :
          LET changed == {p \in Installed(venv) \cap Torch : w[p] # venv[p]} IN
          /\ safe' = safe \cup changed
          /\ pins' = [p \in Packages |-> IF p \in changed THEN w[p] ELSE pins[p]]
          /\ vetted' = [p \in Packages |-> IF p \in changed THEN w[p] ELSE vetted[p]]
     \/ UNCHANGED <<safe, pins, vetted>>
  /\ later' = {}
  /\ pc' = "apply"
  /\ UNCHANGED <<cand, todo, blocked>>

\* Without a GPU, or when `pip list` does not show torch, outdated packages of
\* the torch family are classified like any other.
PlanTorch ==
  /\ pc = "torch"
  /\ \/ PlanCuda
     \/ /\ pc' = IF later = {} THEN "apply" ELSE "classify"
        /\ cand' = later
        /\ later' = {}
        /\ UNCHANGED <<todo, safe, blocked, pins, vetted>>
  /\ UNCHANGED <<fixed, venv, unheard, applyVars>>

-----------------------------------------------------------------------------
(* Applying.                                                               *)

\* _split_torch: on a GPU host the update job applies the torch family apart.
TorchBatch == IF entry = "job" /\ gpu THEN safe \cap Torch ELSE {}
MainBatch  == safe \ TorchBatch

StartBatch(packages) == batch' = packages /\ pc' = "freeze"

\* After the main batch: the torch batch, then the final check (job only).
AfterMain ==
  IF TorchBatch # {} THEN StartBatch(TorchBatch)
  ELSE /\ pc' = IF entry = "job" THEN "verify" ELSE "done"
       /\ UNCHANGED batch

AfterBatch ==
  IF batch = MainBatch THEN AfterMain ELSE pc' = "verify" /\ UNCHANGED batch

Apply ==
  /\ pc = "apply"
  /\ IF MainBatch # {} THEN StartBatch(MainBatch) ELSE AfterMain
  /\ UNCHANGED <<fixed, venv, planVars, freeze, failed, rolledBack, blind>>

\* _snapshot_freeze: None when `pip freeze` fails or prints nothing.
SnapshotFreeze ==
  /\ pc = "freeze"
  /\ \/ Installed(Frozen(venv)) # {} /\ freeze' = Frozen(venv)
     \/ freeze' = NoFreeze
  /\ pc' = "install"
  /\ UNCHANGED <<fixed, venv, planVars, batch, failed, rolledBack, blind>>

BatchPins == [p \in batch |-> pins[p]]

\* Mutant: the snapshot is taken once the install is through.
PipInstall_SnapshotAfter ==
  /\ pc = "install"
  /\ \/ venv' \in PinnedInstalls(index, venv, BatchPins) /\ pc' = "check"
     \/ venv' \in Interrupted(index, venv, BatchPins) /\ pc' = "rollback"
  /\ freeze' = IF freeze = NoFreeze THEN NoFreeze ELSE Frozen(venv')
  /\ UNCHANGED <<fixed, planVars, batch, failed, rolledBack, blind>>

\* _apply_pip_upgrade, _apply_torch_cuda_upgrade.  A probe that fails is a failed
\* install of the torch batch, but "No packages to upgrade.", a success, of the
\* main batch.
PipInstall ==
  /\ pc = "install"
  /\ \/ venv' \in PinnedInstalls(index, venv, BatchPins) /\ pc' = "check"
     \/ venv' \in Interrupted(index, venv, BatchPins) /\ pc' = "rollback"
     \/ batch = MainBatch /\ venv' = venv /\ pc' = "check"
  /\ UNCHANGED <<fixed, planVars, applyVars>>

\* _pip_check: it fails on a broken environment, may fail on a sound one, and
\* lets any pass when the probe fails ("no venv").
PipCheck ==
  /\ pc = "check"
  /\ \/ /\ Consistent(index, venv) /\ blind' = FALSE
        /\ AfterBatch
     \/ /\ blind' = TRUE
        /\ AfterBatch
     \/ /\ pc' = "rollback"
        /\ UNCHANGED <<batch, blind>>
  /\ UNCHANGED <<fixed, venv, planVars, freeze, failed, rolledBack>>

\* Mutant: with the snapshot lost the batch is left as it is, without an event.
Rollback_SilentWithoutSnapshot ==
  /\ pc = "rollback"
  /\ failed' = (failed \/ freeze # NoFreeze)
  /\ rolledBack' = (rolledBack \/ freeze # NoFreeze)
  /\ venv' = IF freeze = NoFreeze THEN venv ELSE Restored(venv, freeze)
  /\ AfterBatch
  /\ UNCHANGED <<fixed, planVars, freeze, blind>>

\* A rolled-back main batch ends the project; a torch batch does not.
AfterRollback ==
  IF batch = MainBatch THEN pc' = "done" /\ UNCHANGED batch ELSE AfterBatch

\* _rollback: restore the snapshot, if there is one and if pip succeeds.
Rollback ==
  /\ pc = "rollback"
  /\ failed' = TRUE
  /\ \/ /\ freeze # NoFreeze
        /\ venv' = Restored(venv, freeze)
        /\ rolledBack' = TRUE
        /\ AfterRollback
     \/ /\ \/ freeze # NoFreeze /\ venv' \in HalfRestored(venv, freeze)
           \/ freeze = NoFreeze /\ venv' = venv
        /\ AfterBatch
        /\ UNCHANGED rolledBack
  /\ UNCHANGED <<fixed, planVars, freeze, blind>>

\* The job's last `pip check`, then (GPU) the import of torch.  It looks at what
\* the batches left, unless the probe fails once more.
Verify ==
  /\ pc = "verify"
  /\ \/ Consistent(index, venv) /\ blind' = FALSE /\ UNCHANGED failed
     \/ UNCHANGED <<blind, failed>>
     \/ failed' = TRUE /\ UNCHANGED blind
  /\ pc' = "done"
  /\ UNCHANGED <<fixed, venv, planVars, batch, freeze, rolledBack>>

\* Emitting an event raises once the event loop is closed: the generator is
\* dropped where it yields, before the batches, between them or before the check.
Drop ==
  /\ pc \in {"apply", "verify"} \/ (pc = "freeze" /\ batch = TorchBatch)
  /\ pc' = "dropped"
  /\ UNCHANGED <<fixed, venv, planVars, applyVars>>

Next ==
  \/ PlanProject \/ UpgradeStep \/ Classify \/ BatchDryRun \/ SingleDryRun \/ PlanTorch
  \/ Apply \/ SnapshotFreeze \/ PipInstall \/ PipCheck \/ Rollback \/ Verify
  \/ Drop

Spec == Init /\ [][Next]_vars

-----------------------------------------------------------------------------
(* What is asked of it.                                                    *)

\* Every variable keeps its type; what is safe or blocked is installed, no
\* package is both, and only safe packages are in a batch.
SafeTypeOK ==
  /\ index \in Indexes /\ entry \in {"job", "step"} /\ gpu \in BOOLEAN
  /\ venv \in Venvs /\ origin \in StartVenvs /\ pc \in Stages
  /\ cand \subseteq Packages /\ later \subseteq Torch /\ todo \subseteq cand
  /\ safe \cup blocked \subseteq Installed(origin) /\ safe \cap blocked = {}
  /\ pins \in Venvs /\ vetted \in Venvs
  /\ \A p \in safe : pins[p] # Absent /\ vetted[p] # Absent
  /\ batch \subseteq safe /\ freeze \in Venvs \cup {NoFreeze}
  /\ failed \in BOOLEAN /\ rolledBack \in BOOLEAN /\ blind \in BOOLEAN
  /\ unheard \subseteq Installed(origin)

\* A project whose only batch is reported "rolled back successfully" has every
\* package it started with back at its version, whatever the install and pip's
\* check did before (apply_batch_with_rollback).  The exception is what `pip freeze`
\* does not list: updater.py:11-16 has each batch "rolled back from the snapshot",
\* but an upgrade of pip itself stays.
RollbackRestores ==
  rolledBack /\ pc = "done" /\ TorchBatch = {} =>
    \A p \in Installed(origin) \ Unfrozen : venv[p] = origin[p]

\* What requirements lead to from some packages, whatever the versions.
Brings(start) ==
  {p \in Packages :
     \A closed \in SUBSET Packages :
       start \subseteq closed /\ (\A rq \in index : rq.by \in closed => rq.on \in closed)
         => p \in closed}

\* An upgrade that ends, or is cut off, without a "failed" event has removed no
\* package, and what it has brought in is what the upgraded packages need; it
\* leaves an environment that pip's check accepts, or the one it found.  The
\* exception is `blind`: updater.py:15-16 has `pip check` run after each batch, but
\* where the probe before it fails it is skipped and counts as passed.
QuietRunIsSound ==
  pc \in {"done", "dropped"} /\ ~failed =>
    /\ Consistent(index, venv) \/ venv = origin \/ blind
    /\ Installed(origin) \subseteq Installed(venv)
    /\ Installed(venv) \subseteq Installed(origin) \cup Brings(safe)

\* What the main batch changed that was installed before it, and was no candidate.
Unasked == {p \in Installed(origin) \ batch : venv[p] # origin[p]}

MainBatchIn == pc = "check" /\ batch = MainBatch
VersionsVetted == \A p \in batch : pins[p] = vetted[p]
NothingNew == Installed(venv) = Installed(origin)

\* Every candidate of the batch was vetted against all that is installed.
ObjectionsHeard == batch \cap unheard = {}

\* No co-dependent twin of a candidate of the batch, excused from objecting as a
\* candidate itself, stays behind.
NoTwinBehind == (batch \X ((safe \cup blocked) \ batch)) \cap Twins = {}

\* The point of the dry-runs and the reverse-dependency check: when the pins
\* are the versions the dry-run chose and the install brings in no package that
\* was not there, it moves the candidates only and keeps a sound environment
\* sound.  Candidates vetted one by one, or in two rounds, and installed together
\* are included.  Two exceptions are the code's own: an objection nobody was asked
\* for (classify.py:149-150 says "Fail closed", reverse_deps.py:21-22 answers that
\* there is none) and an excused twin that stays behind, which classify.py:24
\* would have "upgraded in lockstep".
PlanIsSound ==
  MainBatchIn /\ VersionsVetted /\ NothingNew =>
    /\ Unasked = {}
    /\ Consistent(index, origin) /\ ObjectionsHeard /\ NoTwinBehind => Consistent(index, venv)

=============================================================================
