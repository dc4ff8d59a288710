-------------------------- MODULE SafeUpgradeProofs --------------------------
(***************************************************************************)
(* What the safe upgrade of a project guarantees, for any packages,        *)
(* versions, requirements and environments.  The invariant follows the     *)
(* candidates through the rounds of classification, says what a vetted     *)
(* candidate has been asked and found, and what the environment may hold   *)
(* at each stage of a batch.                                               *)
(***************************************************************************)
EXTENDS SafeUpgrade, TLAPS

Planning == {"list", "classify", "dryrun", "single", "torch", "apply"}
Vetting  == {"dryrun", "single"}
InBatch  == {"freeze", "install", "check", "rollback"}
Settled  == {"freeze", "install", "verify", "done", "dropped"}

\* Nothing changes while the plan is made, and no candidate gets two verdicts:
\* a round takes up those that have none, the update job the torch family last.
Rounds ==
  /\ pc \in Planning => venv = origin /\ ~failed /\ ~rolledBack
  /\ pc = "list" => safe = {} /\ blocked = {} /\ later = {} /\ cand = {}
  /\ cand \cup later \subseteq Installed(origin)
  /\ pc = "classify" => cand \cap (safe \cup blocked) = {}
  /\ pc \in Vetting => todo \cap (safe \cup blocked) = {} /\ cand \subseteq safe \cup blocked \cup todo
  /\ pc \notin Vetting => todo = {}
  /\ pc = "torch" => entry = "job" /\ (safe \cup blocked) \cap Torch = {}
  /\ pc \in {"classify"} \cup Vetting /\ entry = "job" =>
       (cand \cup safe \cup blocked) \cap Torch = {} \/ (cand # {} /\ cand \subseteq Torch)

\* No installed package forbids the newest version of p, but for a twin that is
\* a candidate as well.
Asked(p) ==
  \A rq \in index : rq.by # p /\ rq.on = p /\ InForce(rq, origin) =>
    MaxVersion \in rq.in \/ (<<p, rq.by>> \in Twins /\ rq.by \in safe \cup blocked \cup todo)

\* A dry-run chose the vetted version of p, and all it moved is in the main batch.
Chosen(p) ==
  \E named \in SUBSET Packages : \E w \in UpgradeDryRuns(index, origin, named) :
    p \in named /\ w[p] = vetted[p] /\ \A q \in named : w[q] # origin[q] => q \in MainBatch

\* No installed package forbids the newest version of p, or none was asked.
Cleared(p) == Asked(p) \/ p \in unheard

Vetted ==
  /\ \A p \in MainBatch : pins[p] = MaxVersion /\ Cleared(p) /\ Chosen(p)
  /\ \A p \in todo : Cleared(p)

\* The main batch is installed, or skipped, over the environment that was planned
\* for, with the part of that `pip freeze` lists as its snapshot; what follows it
\* without an event found or left a sound environment, or one nobody checked.
Batches ==
  /\ pc \in InBatch => batch # {} /\ batch \in {MainBatch, TorchBatch}
  /\ pc \in {"freeze", "install"} /\ batch = MainBatch => venv = origin
  /\ pc \in InBatch \ {"freeze"} /\ batch = MainBatch => freeze \in {Frozen(origin), NoFreeze}
  /\ pc = "check" /\ batch = MainBatch =>
       venv \in PinnedInstalls(index, origin, BatchPins) \/ venv = origin
  /\ rolledBack /\ TorchBatch = {} =>
       pc = "done" /\ \A p \in Installed(origin) \ Unfrozen : venv[p] = origin[p]
  /\ ~failed /\ pc \in Settled => Consistent(index, venv) \/ venv = origin \/ blind

SafeInv == SafeTypeOK /\ Rounds /\ Vetted /\ Batches

-----------------------------------------------------------------------------
(* The packages that requirements lead to.                                  *)

LEMMA ReachStart ==
  ASSUME NEW start \in SUBSET Packages, NEW edges, NEW v
  PROVE  start \subseteq Reach(start, edges, v) /\ Reach(start, edges, v) \subseteq Packages
  BY DEF Reach

LEMMA ReachStep ==
  ASSUME NEW start, NEW edges, NEW v, NEW rq \in edges, rq.on \in Packages,
         rq.by \in Reach(start, edges, v), InForce(rq, v)
  PROVE  rq.on \in Reach(start, edges, v)
  BY DEF Reach

LEMMA ReachLeast ==
  ASSUME NEW start, NEW edges, NEW v, NEW closed \in SUBSET Packages, start \subseteq closed,
         \A rq \in edges : rq.by \in closed /\ InForce(rq, v) => rq.on \in closed
  PROVE  Reach(start, edges, v) \subseteq closed
  BY DEF Reach

LEMMA VersionFacts ==
  /\ Absent \notin Versions /\ MaxVersion \in Versions /\ Versions \subseteq 0..MaxVersion
  /\ MaxVersion \in 0..MaxVersion /\ Absent \in 0..MaxVersion /\ MaxVersion # Absent
  BY MaxVersionAssumption DEF Versions, Absent

\* What a dry-run leaves: what it does not name stays, and the requirements of
\* all it names and they need are met.
LEMMA DryRunFacts ==
  ASSUME NEW ix, NEW before, NEW named, NEW w \in UpgradeDryRuns(ix, before, named)
  PROVE  /\ w \in Venvs
         /\ \A p \in Installed(before) \ named : w[p] = before[p]
         /\ \A p \in named : w[p] # Absent
         /\ \A rq \in ix : rq.by \in Reach(named, ix, w) => Met(rq, w)
  BY DEF UpgradeDryRuns, Newest, Resolves

\* What an install leaves: the pins, and a change of what was not asked for only
\* where requirements lead to it that the version before does not meet.
LEMMA InstallFacts ==
  ASSUME NEW ix, NEW before, NEW pinned, NEW after \in PinnedInstalls(ix, before, pinned)
  PROVE  /\ after \in Venvs
         /\ \A p \in DOMAIN pinned : after[p] = pinned[p]
         /\ \A rq \in ix : rq.by \in Reach(DOMAIN pinned, ix, after) => Met(rq, after)
         /\ {p \in Packages : after[p] # before[p]} \subseteq
              Reach(DOMAIN pinned,
                    {rq \in ix : before[rq.on] \in rq.in => after[rq.on] = before[rq.on]}, after)
  BY DEF PinnedInstalls, Resolves

-----------------------------------------------------------------------------
(* The plan is sound.                                                       *)

\* An install of vetted versions that brings in nothing new moves nothing else:
\* where a requirement leads from the batch to a package outside it, a dry-run
\* has followed the same requirement and found the installed version fit.
LEMMA OnlyTheBatchMoves ==
  ASSUME SafeInv, MainBatchIn, VersionsVetted, NothingNew, venv # origin
  PROVE  Unasked = {} /\ \A p \in Packages \ batch : venv[p] = origin[p]
  <1> DEFINE followed == {rq \in index : origin[rq.on] \in rq.in => venv[rq.on] = origin[rq.on]}
             tree == Reach(batch, index, venv)
             agreed(x) == \E named \in SUBSET Packages :
                            \E w \in UpgradeDryRuns(index, origin, named) :
                              /\ x \in Reach(named, index, w) /\ w[x] = venv[x]
                              /\ \A q \in named : w[q] # origin[q] => q \in batch
             kept == {x \in tree : (x \in batch \/ venv[x] = origin[x]) /\ agreed(x)}
  <1>1. /\ index \subseteq Requirements /\ venv \in Venvs /\ origin \in Venvs
        /\ batch \subseteq Packages /\ batch = MainBatch /\ DOMAIN BatchPins = batch
        /\ venv \in PinnedInstalls(index, origin, BatchPins)
    BY UpgradeAssumption DEF SafeInv, SafeTypeOK, Batches, MainBatchIn, BatchPins, Installed
  <1>2. /\ \A p \in batch : venv[p] = vetted[p]
        /\ \A rq \in index : rq.by \in tree => Met(rq, venv)
        /\ {p \in Packages : venv[p] # origin[p]} \subseteq Reach(batch, followed, venv)
    BY <1>1, InstallFacts DEF VersionsVetted, BatchPins
  <1>3. batch \subseteq kept
    <2> SUFFICES ASSUME NEW p \in batch PROVE p \in kept
      OBVIOUS
    <2>0. PICK named \in SUBSET Packages : \E w \in UpgradeDryRuns(index, origin, named) :
            p \in named /\ w[p] = vetted[p] /\ \A q \in named : w[q] # origin[q] => q \in batch
      BY <1>1 DEF SafeInv, Vetted, Chosen
    <2>1. PICK w \in UpgradeDryRuns(index, origin, named) :
            p \in named /\ w[p] = vetted[p] /\ \A q \in named : w[q] # origin[q] => q \in batch
      BY <2>0
    <2>2. p \in Reach(named, index, w) /\ p \in tree
      BY <1>1, <2>1, ReachStart
    <2>3. QED
      BY <1>2, <2>1, <2>2
  <1>4. ASSUME NEW rq \in followed, rq.by \in kept, InForce(rq, venv) PROVE rq.on \in kept
    <2>1. rq \in index /\ rq \in Requirements /\ rq.on \in Packages /\ rq.in \subseteq Versions
          /\ rq.at \in Versions
      BY <1>1 DEF Requirements
    <2>2. rq.on \in tree /\ venv[rq.on] \in rq.in
      BY <1>2, <1>4, <2>1, ReachStep DEF Met
    <2>3. rq.on \in Installed(origin)
      BY <2>1, <2>2, VersionFacts DEF NothingNew, Installed
    <2>0. PICK named \in SUBSET Packages : \E w \in UpgradeDryRuns(index, origin, named) :
            /\ rq.by \in Reach(named, index, w) /\ w[rq.by] = venv[rq.by]
            /\ \A q \in named : w[q] # origin[q] => q \in batch
      BY <1>4
    <2>4. PICK w \in UpgradeDryRuns(index, origin, named) :
            /\ rq.by \in Reach(named, index, w) /\ w[rq.by] = venv[rq.by]
            /\ \A q \in named : w[q] # origin[q] => q \in batch
      BY <2>0
    <2>5. rq.on \in Reach(named, index, w) /\ w[rq.on] \in rq.in
      BY <1>4, <2>1, <2>4, ReachStep, DryRunFacts DEF InForce, Met
    <2>6. CASE rq.on \in batch
      BY <1>3, <2>6
    <2>7. CASE rq.on \notin batch
      <3>1. w[rq.on] = origin[rq.on]
        BY <2>3, <2>4, <2>7, DryRunFacts
      <3>2. venv[rq.on] = origin[rq.on]
        BY <2>5, <3>1
      <3>3. agreed(rq.on)
        BY <2>4, <2>5, <3>1, <3>2
      <3>4. QED
        BY <2>2, <3>2, <3>3
    <2>8. QED
      BY <2>6, <2>7
  <1>5. Reach(batch, followed, venv) \subseteq kept
    <2>1. kept \in SUBSET Packages
      BY <1>1, ReachStart
    <2>2. \A rq \in followed : rq.by \in kept /\ InForce(rq, venv) => rq.on \in kept
      BY <1>4
    <2> HIDE DEF followed, kept
    <2>3. QED
      BY <1>3, <2>1, <2>2, ReachLeast, Zenon
  <1>6. \A p \in Packages \ batch : venv[p] = origin[p]
    BY <1>2, <1>5
  <1>7. QED
    BY <1>6 DEF Unasked, Installed

LEMMA PlanSound == SafeInv => PlanIsSound
  <1> SUFFICES ASSUME SafeInv, MainBatchIn, VersionsVetted, NothingNew
               PROVE  /\ Unasked = {}
                      /\ Consistent(index, origin) /\ ObjectionsHeard /\ NoTwinBehind
                           => Consistent(index, venv)
    BY DEF PlanIsSound
  <1>0. CASE venv = origin
    BY <1>0 DEF Unasked
  <1> SUFFICES ASSUME venv # origin
               PROVE  /\ Unasked = {}
                      /\ Consistent(index, origin) /\ ObjectionsHeard /\ NoTwinBehind
                           => Consistent(index, venv)
    BY <1>0
  <1>1. Unasked = {} /\ \A p \in Packages \ batch : venv[p] = origin[p]
    BY OnlyTheBatchMoves
  <1>2. ASSUME Consistent(index, origin), ObjectionsHeard, NoTwinBehind,
               NEW rq \in index, InForce(rq, venv)
        PROVE  venv[rq.on] \in rq.in
    <2>1. /\ index \subseteq Requirements /\ batch \subseteq Packages /\ batch = MainBatch
          /\ DOMAIN BatchPins = batch /\ venv \in PinnedInstalls(index, origin, BatchPins)
          /\ todo = {}
      BY UpgradeAssumption DEF SafeInv, SafeTypeOK, Batches, Rounds, MainBatchIn, BatchPins, Installed,
         Vetting
    <2>2. rq.by \in Packages /\ rq.on \in Packages
      BY <2>1 DEF Requirements
    <2>3. CASE rq.by \in batch
      BY <1>2, <2>1, <2>3, InstallFacts, ReachStart DEF Met
    <2>4. CASE rq.by \notin batch
      <3>1. InForce(rq, origin) /\ origin[rq.on] \in rq.in
        BY <1>1, <1>2, <2>2, <2>4 DEF InForce, Consistent, Met
      <3>2. CASE rq.on \notin batch
        BY <1>1, <2>2, <3>1, <3>2
      <3>3. CASE rq.on \in batch
        <4>1. venv[rq.on] = MaxVersion
          BY <2>1, <3>3, InstallFacts DEF SafeInv, Vetted, BatchPins
        <4>2. Asked(rq.on)
          BY <1>2, <2>1, <3>3 DEF SafeInv, Vetted, Cleared, ObjectionsHeard
        <4>3. MaxVersion \in rq.in
          BY <1>2, <2>1, <2>4, <3>1, <3>3, <4>2 DEF Asked, NoTwinBehind
        <4>4. QED
          BY <4>1, <4>3
      <3>4. QED
        BY <3>2, <3>3
    <2>5. QED
      BY <2>3, <2>4
  <1>3. QED
    BY <1>1, <1>2 DEF Consistent, Met

-----------------------------------------------------------------------------
(* The steps of the plan.                                                   *)

LEMMA SafeInit == Init => SafeInv
  <1> SUFFICES ASSUME Init PROVE SafeInv
    OBVIOUS
  <1>1. /\ safe = {} /\ blocked = {} /\ cand = {} /\ later = {} /\ todo = {} /\ batch = {}
        /\ pc = "list" /\ venv = origin /\ ~failed /\ ~rolledBack
        /\ pins = NoVersions /\ vetted = NoVersions /\ unheard = {} /\ blind = FALSE
    BY DEF Init
  <1>2. SafeTypeOK
    BY <1>1, UpgradeAssumption, VersionFacts DEF Init, SafeTypeOK, NoVersions, Venvs, Stages
  <1>3. Rounds
    BY <1>1 DEF Rounds, Vetting
  <1>4. Vetted
    BY <1>1 DEF Vetted, MainBatch
  <1>5. Batches
    BY <1>1 DEF Batches, InBatch, Settled
  <1>6. QED
    BY <1>2, <1>3, <1>4, <1>5 DEF SafeInv

\* The main batch only grows with the safe packages.
LEMMA BatchesGrow ==
  ASSUME UNCHANGED fixed, safe \subseteq safe'
  PROVE  /\ MainBatch \subseteq MainBatch' /\ TorchBatch \subseteq TorchBatch'
         /\ safe' = safe => MainBatch' = MainBatch /\ TorchBatch' = TorchBatch
  BY DEF fixed, MainBatch, TorchBatch

\* What was vetted stays so, if what is new to the main batch is.
LEMMA VettedStays ==
  ASSUME SafeInv, UNCHANGED fixed, safe \subseteq safe',
         safe \cup blocked \cup todo \subseteq (safe \cup blocked \cup todo)',
         unheard \subseteq unheard',
         \A p \in MainBatch : pins'[p] = pins[p] /\ vetted'[p] = vetted[p],
         \A p \in MainBatch' \ MainBatch : pins'[p] = MaxVersion /\ Cleared(p)' /\ Chosen(p)',
         \A p \in todo' : Cleared(p)'
  PROVE  Vetted'
  <1>1. MainBatch \subseteq MainBatch' /\ index' = index /\ origin' = origin
    BY BatchesGrow DEF fixed
  <1>2. ASSUME NEW p \in MainBatch PROVE pins'[p] = MaxVersion /\ Cleared(p)' /\ Chosen(p)'
    <2>1. pins[p] = MaxVersion /\ Cleared(p) /\ Chosen(p)
      BY DEF SafeInv, Vetted
    <2>2. Cleared(p)'
      BY <1>1, <2>1 DEF Cleared, Asked, InForce
    <2>3. Chosen(p)'
      <3>1. PICK named \in SUBSET Packages : \E w \in UpgradeDryRuns(index, origin, named) :
              p \in named /\ w[p] = vetted[p] /\ \A q \in named : w[q] # origin[q] => q \in MainBatch
        BY <2>1 DEF Chosen
      <3>2. PICK w \in UpgradeDryRuns(index, origin, named) :
              p \in named /\ w[p] = vetted[p] /\ \A q \in named : w[q] # origin[q] => q \in MainBatch
        BY <3>1
      <3>3. UpgradeDryRuns(index', origin', named) = UpgradeDryRuns(index, origin, named)
        BY <1>1
      <3>4. QED
        BY <1>1, <3>2, <3>3 DEF Chosen
    <2>4. QED
      BY <2>1, <2>2, <2>3
  <1>3. QED
    BY <1>2 DEF Vetted

\* While the plan is made there is no batch yet.
LEMMA PlanningBatches ==
  ASSUME SafeInv, pc \in Planning, UNCHANGED <<fixed, venv, failed, rolledBack>>,
         pc' \in Planning \cup {"done", "dropped"}
  PROVE  Batches'
  <1>1. venv' = origin' /\ ~rolledBack'
    BY DEF SafeInv, Rounds, fixed
  <1>2. pc' \notin InBatch
    BY DEF Planning, InBatch
  <1>3. QED
    BY <1>1, <1>2 DEF Batches, InBatch

\* pip list --outdated, which the plan and step 5 start from.
LEMMA ListKeeps ==
  ASSUME SafeInv, PlanProject \/ UpgradeStep PROVE SafeInv'
  <1>1. PICK raw \in OutdatedLists :
          \/ /\ pc = "list" /\ entry = "job" /\ cand' = raw \ Torch /\ later' = raw \cap Torch
             /\ pc' = "classify"
          \/ /\ pc = "list" /\ entry = "step" /\ later' = later
             /\ \/ pc' = "done" /\ cand' = cand
                \/ pc' = "classify" /\ cand' = raw
    BY DEF PlanProject, UpgradeStep
  <1>2. /\ UNCHANGED <<fixed, venv, todo, safe, blocked, pins, vetted, unheard>>
        /\ UNCHANGED <<batch, freeze, failed, rolledBack, blind>>
    BY DEF PlanProject, UpgradeStep, applyVars
  <1>3. /\ pc = "list" /\ venv = origin /\ safe = {} /\ blocked = {} /\ todo = {}
        /\ cand = {} /\ later = {} /\ ~failed /\ ~rolledBack
    BY <1>1 DEF SafeInv, Rounds, Planning, Vetting
  <1>4. raw \subseteq Installed(origin) /\ raw \subseteq Packages
    BY <1>3 DEF OutdatedLists, Outdated, Installed
  <1>5. SafeTypeOK'
    BY <1>1, <1>2, <1>3, <1>4 DEF SafeInv, SafeTypeOK, Stages, fixed
  <1>6. Rounds'
    BY <1>1, <1>2, <1>3, <1>4 DEF Rounds, Planning, Vetting, fixed
  <1>7. Vetted'
    BY <1>2, <1>3, VettedStays, BatchesGrow
  <1>8. Batches'
    BY <1>1, <1>2, PlanningBatches DEF Planning
  <1>9. QED
    BY <1>5, <1>6, <1>7, <1>8 DEF SafeInv

\* The round of classification that ends leads to the torch family only when it
\* had none of it.
LEMMA AfterClassifyIs ==
  /\ AfterClassify \in {"torch", "apply"}
  /\ AfterClassify = "torch" => entry = "job" /\ cand \cap Torch = {}
  BY DEF AfterClassify

LEMMA ClassifyKeeps ==
  ASSUME SafeInv, Classify PROVE SafeInv'
  <1>1. PICK ahead \in {Survivors, {}, cand} :
          /\ blocked' = blocked \cup (cand \ ahead) /\ todo' = ahead
          /\ unheard' = unheard \cup (ahead \ Survivors)
          /\ pc' = IF ahead = {} THEN AfterClassify ELSE "dryrun"
    BY DEF Classify
  <1>2. /\ pc = "classify"
        /\ UNCHANGED <<fixed, venv, cand, later, safe, pins, vetted, batch, freeze, failed, rolledBack, blind>>
    BY DEF Classify, applyVars
  <1>3. /\ venv = origin /\ todo = {} /\ cand \subseteq Installed(origin) /\ later \subseteq Installed(origin)
        /\ ~failed /\ ~rolledBack /\ cand \cap (safe \cup blocked) = {}
        /\ entry = "job" =>
             (cand \cup safe \cup blocked) \cap Torch = {} \/ (cand # {} /\ cand \subseteq Torch)
    BY <1>2 DEF SafeInv, Rounds, Planning, Vetting
  <1>4. ahead \subseteq cand
    BY DEF Survivors
  <1>5. SafeTypeOK'
    <2>1. /\ (safe \cup blocked)' \subseteq Installed(origin) /\ (safe \cap blocked)' = {}
          /\ todo' \subseteq cand' /\ unheard' \subseteq Installed(origin)
      BY <1>1, <1>2, <1>3, <1>4 DEF SafeInv, SafeTypeOK
    <2>2. pc' \in Stages
      BY <1>1, AfterClassifyIs DEF Stages
    <2>3. QED
      BY <1>2, <2>1, <2>2 DEF SafeInv, SafeTypeOK, fixed
  <1>6. Rounds'
    <2>1. CASE ahead = {}
      BY <1>1, <1>2, <1>3, <2>1, AfterClassifyIs DEF Rounds, Planning, Vetting, fixed
    <2>2. CASE ahead # {}
      BY <1>1, <1>2, <1>3, <1>4, <2>2 DEF Rounds, Planning, Vetting, fixed
    <2>3. QED
      BY <2>1, <2>2
  <1>7. Vetted'
    <2>1. ASSUME NEW p \in ahead, p \notin unheard' PROVE Asked(p)'
      <3>1. index \subseteq Requirements
        BY UpgradeAssumption DEF SafeInv, SafeTypeOK
      <3>2. p \in cand /\ Objectors(p) = {} /\ cand \subseteq (safe \cup blocked \cup todo)'
        BY <1>1, <1>2, <2>1 DEF Survivors
      <3>3. ASSUME NEW rq \in index, rq.by # p, rq.on = p, InForce(rq, origin)
            PROVE  MaxVersion \in rq.in \/ (<<p, rq.by>> \in Twins /\ rq.by \in cand)
        BY <1>3, <3>1, <3>2, <3>3 DEF Objectors, Requirements
      <3>4. QED
        BY <1>2, <3>2, <3>3 DEF Asked, fixed
    <2>2. safe \cup blocked \cup todo \subseteq (safe \cup blocked \cup todo)'
      BY <1>1, <1>2, <1>3
    <2>3. \A p \in todo' : Cleared(p)'
      BY <1>1, <2>1 DEF Cleared
    <2>4. QED
      BY <1>1, <1>2, <2>2, <2>3, VettedStays, BatchesGrow
  <1>8. Batches'
    BY <1>1, <1>2, AfterClassifyIs, PlanningBatches DEF Planning
  <1>9. QED
    BY <1>5, <1>6, <1>7, <1>8 DEF SafeInv

\* Some of the candidates that are left get their verdict.
LEMMA VerdictKeeps ==
  ASSUME SafeInv, pc \in Vetting, NEW among \in SUBSET todo, NEW changed \in SUBSET among,
         safe' = safe \cup changed, blocked' = blocked \cup (among \ changed),
         todo' = todo \ among, pins' \in Venvs, vetted' \in Venvs,
         \A p \in Packages \ changed : pins'[p] = pins[p] /\ vetted'[p] = vetted[p],
         \A p \in changed : pins'[p] = MaxVersion /\ vetted'[p] # Absent,
         \A p \in changed : p \in MainBatch' => Chosen(p)',
         pc' = "single" \/ (pc' = AfterClassify /\ todo' = {}),
         UNCHANGED <<fixed, venv, cand, later, unheard, applyVars>>
  PROVE  SafeInv'
  <1>1. /\ venv = origin /\ todo \cap (safe \cup blocked) = {} /\ todo \subseteq cand
        /\ cand \subseteq safe \cup blocked \cup todo /\ cand \cup later \subseteq Installed(origin)
        /\ ~failed /\ ~rolledBack
        /\ entry = "job" =>
             (cand \cup safe \cup blocked) \cap Torch = {} \/ (cand # {} /\ cand \subseteq Torch)
    BY DEF SafeInv, Rounds, SafeTypeOK, Planning, Vetting
  <1>2. /\ UNCHANGED <<index, entry, gpu, origin, venv, cand, later, unheard>>
        /\ UNCHANGED <<batch, freeze, failed, rolledBack, blind>>
    BY DEF fixed, applyVars
  <1>3. /\ pc' \in Planning /\ (pc' = "torch" => entry = "job" /\ cand \cap Torch = {})
        /\ (pc' \in Vetting <=> pc' = "single") /\ pc' # "classify" /\ pc' # "list" /\ pc' \in Stages
        /\ (pc' \notin Vetting => todo' = {})
    BY AfterClassifyIs DEF Planning, Vetting, Stages
  <1>4. SafeTypeOK'
    <2>1. /\ (safe \cup blocked)' \subseteq Installed(origin) /\ (safe \cap blocked)' = {}
          /\ todo' \subseteq cand'
      BY <1>1, <1>2 DEF SafeInv, SafeTypeOK
    <2>2. \A p \in safe' : pins'[p] # Absent /\ vetted'[p] # Absent
      <3>1. safe \subseteq Packages
        BY DEF SafeInv, SafeTypeOK, Installed
      <3>2. QED
        BY <3>1, VersionFacts DEF SafeInv, SafeTypeOK
    <2>3. QED
      BY <1>2, <1>3, <2>1, <2>2 DEF SafeInv, SafeTypeOK
  <1>5. Rounds'
    BY <1>1, <1>2, <1>3 DEF Rounds
  <1>6. Vetted'
    <2>1. safe \cup blocked \cup todo = (safe \cup blocked \cup todo)'
      OBVIOUS
    <2>2. \A p \in todo : Cleared(p)'
      BY <1>2, <2>1 DEF SafeInv, Vetted, Cleared, Asked
    <2>3. \A p \in MainBatch' \ MainBatch : p \in changed
      BY <1>2 DEF MainBatch, TorchBatch
    <2>4. \A p \in MainBatch : p \in Packages \ changed
      BY <1>1 DEF MainBatch, SafeInv, SafeTypeOK, Installed
    <2>5. QED
      BY <2>1, <2>2, <2>3, <2>4, VettedStays
  <1>7. Batches'
    BY <1>2, <1>3, PlanningBatches DEF Planning, Vetting
  <1>8. QED
    BY <1>4, <1>5, <1>6, <1>7 DEF SafeInv

\* A dry-run of some of the candidates that are left succeeds: what it moved is
\* safe, and what it moved along with a package of the main batch is in it, too.
LEMMA AcceptKeeps ==
  ASSUME SafeInv, pc \in Vetting, NEW among \in SUBSET todo,
         NEW w \in UpgradeDryRuns(index, venv, among), Accept(among, w), todo' = todo \ among,
         pc' = "single" \/ (pc' = AfterClassify /\ todo' = {}),
         UNCHANGED <<fixed, venv, cand, later, unheard, applyVars>>
  PROVE  SafeInv'
  <1>1. PICK changed : changed = {p \in among : w[p] # venv[p]}
    OBVIOUS
  <1>2. /\ safe' = safe \cup changed /\ blocked' = blocked \cup (among \ changed)
        /\ pins' = [p \in Packages |-> IF p \in changed THEN MaxVersion ELSE pins[p]]
        /\ vetted' = [p \in Packages |-> IF p \in changed THEN w[p] ELSE vetted[p]]
    BY <1>1 DEF Accept
  <1>3. /\ venv = origin /\ todo \subseteq cand /\ cand \subseteq Packages /\ changed \subseteq among
        /\ pins \in Venvs /\ vetted \in Venvs
        /\ entry = "job" =>
             (cand \cup safe \cup blocked) \cap Torch = {} \/ (cand # {} /\ cand \subseteq Torch)
    BY <1>1 DEF SafeInv, Rounds, SafeTypeOK, Planning, Vetting
  <1>4. w \in Venvs /\ \A p \in among : w[p] # Absent
    BY DryRunFacts
  <1>5. /\ pins' \in Venvs /\ vetted' \in Venvs
        /\ \A p \in Packages \ changed : pins'[p] = pins[p] /\ vetted'[p] = vetted[p]
        /\ \A p \in changed : pins'[p] = MaxVersion /\ vetted'[p] = w[p] /\ vetted'[p] # Absent
    BY <1>2, <1>3, <1>4, VersionFacts DEF Venvs
  <1>6. ASSUME NEW p \in changed, p \in MainBatch' PROVE Chosen(p)'
    <2>1. \A q \in among : w[q] # origin[q] => q \in MainBatch'
      <3>1. ASSUME NEW q \in changed PROVE q \in MainBatch'
        <4>1. CASE entry = "job" /\ gpu
          BY <1>2, <1>3, <1>6, <4>1 DEF MainBatch, TorchBatch, fixed
        <4>2. CASE ~(entry = "job" /\ gpu)
          BY <1>2, <4>2 DEF MainBatch, TorchBatch, fixed
        <4>3. QED
          BY <4>1, <4>2
      <3>2. QED
        BY <1>1, <1>3, <3>1
    <2>2. w \in UpgradeDryRuns(index', origin', among)
      BY <1>3 DEF fixed
    <2>3. among \in SUBSET Packages /\ p \in among /\ w[p] = vetted'[p] /\ origin' = origin
      BY <1>3, <1>5 DEF fixed
    <2>4. QED
      BY <2>1, <2>2, <2>3 DEF Chosen
  <1>7. QED
    BY <1>2, <1>3, <1>5, <1>6, VerdictKeeps

LEMMA BatchDryRunKeeps ==
  ASSUME SafeInv, BatchDryRun PROVE SafeInv'
  <1>1. pc \in Vetting /\ UNCHANGED <<fixed, venv, cand, later, unheard, applyVars>>
    BY DEF BatchDryRun, Vetting
  <1>2. CASE pc' = "single" /\ UNCHANGED <<todo, safe, blocked, pins, vetted>>
    <2>1. pins \in Venvs /\ vetted \in Venvs
      BY DEF SafeInv, SafeTypeOK
    <2>2. PICK none : none = {}
      OBVIOUS
    <2>3. /\ none \in SUBSET todo /\ none \in SUBSET none /\ \A p \in none : FALSE
          /\ safe' = safe \cup none /\ blocked' = blocked \cup (none \ none) /\ todo' = todo \ none
          /\ pins' \in Venvs /\ vetted' \in Venvs
          /\ \A p \in Packages \ none : pins'[p] = pins[p] /\ vetted'[p] = vetted[p]
      BY <1>2, <2>1, <2>2
    <2>4. QED
      BY <1>1, <1>2, <2>3, VerdictKeeps
  <1>3. ASSUME NEW w \in UpgradeDryRuns(index, venv, todo), Accept(todo, w), todo' = {},
               pc' = AfterClassify
        PROVE  SafeInv'
    <2>1. todo \in SUBSET todo /\ todo' = todo \ todo
      BY <1>3
    <2>2. QED
      BY <1>1, <1>3, <2>1, AcceptKeeps
  <1>4. CASE Accept(todo, venv) /\ todo' = {} /\ pc' = AfterClassify
    <2>1. PICK none : none = {}
      OBVIOUS
    <2>2. /\ safe' = safe /\ blocked' = blocked \cup todo
          /\ pins' = [p \in Packages |-> pins[p]] /\ vetted' = [p \in Packages |-> vetted[p]]
      BY <1>4 DEF Accept
    <2>3. pins \in Venvs /\ vetted \in Venvs
      BY DEF SafeInv, SafeTypeOK
    <2>4. /\ todo \in SUBSET todo /\ none \in SUBSET todo /\ \A p \in none : FALSE
          /\ safe' = safe \cup none /\ blocked' = blocked \cup (todo \ none) /\ todo' = todo \ todo
          /\ pins' \in Venvs /\ vetted' \in Venvs
          /\ \A p \in Packages \ none : pins'[p] = pins[p] /\ vetted'[p] = vetted[p]
      BY <1>4, <2>1, <2>2, <2>3 DEF Venvs
    <2>5. QED
      BY <1>1, <1>4, <2>4, VerdictKeeps
  <1>5. QED
    BY <1>2, <1>3, <1>4 DEF BatchDryRun

LEMMA SingleDryRunKeeps ==
  ASSUME SafeInv, SingleDryRun PROVE SafeInv'
  <1>1. /\ pc \in Vetting /\ UNCHANGED <<fixed, venv, cand, later, unheard, applyVars>>
        /\ pc' = IF todo' = {} THEN AfterClassify ELSE "single"
    BY DEF SingleDryRun, Vetting
  <1>2. PICK p \in todo :
          /\ \/ \E w \in UpgradeDryRuns(index, venv, {p}) : Accept({p}, w)
             \/ blocked' = blocked \cup {p} /\ UNCHANGED <<safe, pins, vetted>>
          /\ todo' = todo \ {p}
    BY DEF SingleDryRun
  <1>3. {p} \in SUBSET todo /\ (pc' = "single" \/ (pc' = AfterClassify /\ todo' = {}))
    BY <1>1
  <1>4. CASE \E w \in UpgradeDryRuns(index, venv, {p}) : Accept({p}, w)
    BY <1>1, <1>2, <1>3, <1>4, AcceptKeeps
  <1>5. CASE blocked' = blocked \cup {p} /\ UNCHANGED <<safe, pins, vetted>>
    <2>1. pins \in Venvs /\ vetted \in Venvs
      BY DEF SafeInv, SafeTypeOK
    <2>2. {} \in SUBSET {p} /\ safe \cup {} = safe /\ {p} \ {} = {p}
      OBVIOUS
    <2>3. QED
      BY <1>1, <1>2, <1>3, <1>5, <2>1, <2>2, VerdictKeeps
  <1>6. QED
    BY <1>2, <1>4, <1>5

\* The torch family after the others: vetted together on a GPU host, or
\* classified in a round of its own.
LEMMA PlanTorchKeeps ==
  ASSUME SafeInv, PlanTorch PROVE SafeInv'
  <1>1. /\ pc = "torch" /\ later' = {} /\ todo' = todo /\ blocked' = blocked
        /\ UNCHANGED <<index, entry, gpu, origin, venv, batch, freeze, failed, rolledBack, blind>>
        /\ UNCHANGED <<fixed, unheard>>
    BY DEF PlanTorch, PlanCuda, fixed, applyVars
  <1>2. /\ entry = "job" /\ (safe \cup blocked) \cap Torch = {} /\ venv = origin /\ todo = {}
        /\ cand \cup later \subseteq Installed(origin) /\ ~failed /\ ~rolledBack
    BY <1>1 DEF SafeInv, Rounds, Planning, Vetting
  <1>3. /\ safe \subseteq Packages /\ safe \subseteq Installed(origin) /\ pins \in Venvs
        /\ vetted \in Venvs /\ later \subseteq Torch /\ later \subseteq Packages
    BY <1>2 DEF SafeInv, SafeTypeOK, Installed
  <1>4. CASE UNCHANGED <<safe, pins, vetted>> /\ pc' = "apply" /\ cand' = cand
    <2>1. SafeTypeOK'
      BY <1>1, <1>2, <1>4 DEF SafeInv, SafeTypeOK, Stages
    <2>2. Rounds'
      BY <1>1, <1>2, <1>4 DEF Rounds, Planning, Vetting
    <2>3. Vetted'
      BY <1>1, <1>2, <1>4, VettedStays, BatchesGrow
    <2>4. Batches'
      BY <1>1, <1>4, PlanningBatches DEF Planning
    <2>5. QED
      BY <2>1, <2>2, <2>3, <2>4 DEF SafeInv
  <1>5. CASE /\ UNCHANGED <<safe, pins, vetted>> /\ cand' = later
             /\ pc' = IF later = {} THEN "apply" ELSE "classify"
    <2>1. SafeTypeOK'
      BY <1>1, <1>2, <1>3, <1>5 DEF SafeInv, SafeTypeOK, Stages
    <2>2. Rounds'
      BY <1>1, <1>2, <1>3, <1>5 DEF Rounds, Planning, Vetting
    <2>3. Vetted'
      BY <1>1, <1>2, <1>5, VettedStays, BatchesGrow
    <2>4. Batches'
      BY <1>1, <1>5, PlanningBatches DEF Planning
    <2>5. QED
      BY <2>1, <2>2, <2>3, <2>4 DEF SafeInv
  <1>6. ASSUME gpu, NEW w \in UpgradeDryRuns(index, venv, Installed(venv) \cap Torch),
               NEW changed \in SUBSET (Installed(venv) \cap Torch), safe' = safe \cup changed,
               pins' = [p \in Packages |-> IF p \in changed THEN w[p] ELSE pins[p]],
               vetted' = [p \in Packages |-> IF p \in changed THEN w[p] ELSE vetted[p]],
               pc' = "apply", cand' = cand
        PROVE  SafeInv'
    <2>1. w \in Venvs /\ \A p \in changed : w[p] # Absent
      BY <1>6, DryRunFacts
    <2>2. /\ pins' \in Venvs /\ vetted' \in Venvs
          /\ \A p \in Packages \ changed : pins'[p] = pins[p] /\ vetted'[p] = vetted[p]
          /\ \A p \in changed : pins'[p] = w[p] /\ vetted'[p] = w[p]
      BY <1>3, <1>6, <2>1 DEF Venvs, Installed
    <2>3. SafeTypeOK'
      <3>1. /\ (safe \cup blocked)' \subseteq Installed(origin) /\ (safe \cap blocked)' = {}
        BY <1>1, <1>2, <1>3, <1>6 DEF SafeInv, SafeTypeOK
      <3>2. \A p \in safe' : pins'[p] # Absent /\ vetted'[p] # Absent
        BY <1>3, <1>6, <2>1, <2>2 DEF SafeInv, SafeTypeOK
      <3>3. QED
        BY <1>1, <1>6, <2>2, <3>1, <3>2 DEF SafeInv, SafeTypeOK, Stages
    <2>4. Rounds'
      BY <1>1, <1>2, <1>6 DEF Rounds, Planning, Vetting
    <2>5. Vetted'
      <3>1. MainBatch' = MainBatch /\ MainBatch \cap changed = {}
        BY <1>1, <1>2, <1>6 DEF MainBatch, TorchBatch
      <3>2. MainBatch \subseteq Packages
        BY <1>3 DEF MainBatch
      <3>3. QED
        BY <1>1, <1>2, <1>6, <2>2, <3>1, <3>2, VettedStays
    <2>6. Batches'
      BY <1>1, <1>6, PlanningBatches DEF Planning
    <2>7. QED
      BY <2>3, <2>4, <2>5, <2>6 DEF SafeInv
  <1>7. QED
    BY <1>4, <1>5, <1>6 DEF PlanTorch, PlanCuda

-----------------------------------------------------------------------------
(* The steps of the batches.                                                *)

\* The plan is made: only the environment, the batch and its snapshot move.
LEMMA ApplyingKeeps ==
  ASSUME SafeInv, pc \notin Vetting, UNCHANGED <<fixed, planVars>>, pc' \in Stages \ Planning,
         venv' \in Venvs, batch' \subseteq safe, freeze' \in Venvs \cup {NoFreeze},
         failed' \in BOOLEAN, rolledBack' \in BOOLEAN, blind' \in BOOLEAN
  PROVE  /\ SafeTypeOK' /\ Rounds' /\ Vetted'
         /\ MainBatch' = MainBatch /\ TorchBatch' = TorchBatch
  <1>1. /\ UNCHANGED <<index, entry, gpu, origin, cand, later, todo, safe, blocked, pins, vetted>>
        /\ UNCHANGED <<fixed, unheard>>
    BY DEF fixed, planVars
  <1>2. todo = {} /\ cand \cup later \subseteq Installed(origin)
    BY DEF SafeInv, Rounds
  <1>3. SafeTypeOK'
    BY <1>1 DEF SafeInv, SafeTypeOK
  <1>4. Rounds'
    BY <1>1, <1>2 DEF Rounds, Planning, Vetting
  <1>5. Vetted'
    BY <1>1, <1>2, VettedStays, BatchesGrow
  <1>6. QED
    BY <1>1, <1>3, <1>4, <1>5, BatchesGrow

\* The two batches have nothing in common.
LEMMA TwoBatches ==
  ASSUME SafeInv
  PROVE  /\ MainBatch \subseteq safe /\ TorchBatch \subseteq safe
         /\ TorchBatch # {} => TorchBatch # MainBatch
  BY DEF MainBatch, TorchBatch

LEMMA AfterMainIs ==
  ASSUME AfterMain
  PROVE  \/ TorchBatch # {} /\ batch' = TorchBatch /\ pc' = "freeze"
         \/ TorchBatch = {} /\ batch' = batch /\ pc' \in {"verify", "done"}
  BY DEF AfterMain, StartBatch

LEMMA AfterBatchIs ==
  ASSUME AfterBatch
  PROVE  \/ TorchBatch # {} /\ batch' = TorchBatch /\ pc' = "freeze"
         \/ batch' = batch /\ pc' \in {"verify", "done"}
  BY AfterMainIs DEF AfterBatch

LEMMA ApplyKeeps ==
  ASSUME SafeInv, Apply PROVE SafeInv'
  <1>1. /\ pc = "apply" /\ UNCHANGED <<fixed, planVars>>
        /\ UNCHANGED <<index, origin, venv, freeze, failed, rolledBack, blind>>
    BY DEF Apply, fixed
  <1>2. /\ venv = origin /\ ~failed /\ ~rolledBack /\ venv \in Venvs /\ batch \subseteq safe
        /\ freeze \in Venvs \cup {NoFreeze} /\ failed \in BOOLEAN /\ rolledBack \in BOOLEAN
        /\ blind \in BOOLEAN
    BY <1>1 DEF SafeInv, SafeTypeOK, Rounds, Planning
  <1>3. \/ batch' # {} /\ batch' \in {MainBatch, TorchBatch} /\ pc' = "freeze"
        \/ batch' = batch /\ pc' \in {"verify", "done"}
    BY AfterMainIs DEF Apply, StartBatch
  <1>4. pc' \in Stages \ Planning /\ batch' \subseteq safe /\ pc \notin Vetting
    BY <1>1, <1>2, <1>3, TwoBatches DEF Stages, Planning, Vetting
  <1>5. /\ SafeTypeOK' /\ Rounds' /\ Vetted'
        /\ MainBatch' = MainBatch /\ TorchBatch' = TorchBatch
    <2>1. /\ venv' \in Venvs /\ batch' \subseteq safe /\ freeze' \in Venvs \cup {NoFreeze}
          /\ failed' \in BOOLEAN /\ rolledBack' \in BOOLEAN /\ blind' \in BOOLEAN
      BY <1>1, <1>2, <1>4
    <2>2. QED
      BY <1>1, <1>4, <2>1, ApplyingKeeps
  <1>6. Batches'
    BY <1>1, <1>2, <1>3, <1>5 DEF Batches, InBatch, Settled
  <1>7. QED
    BY <1>5, <1>6 DEF SafeInv

LEMMA FrozenIsVenv == venv \in Venvs => Frozen(venv) \in Venvs
  BY VersionFacts DEF Frozen, Venvs

LEMMA SnapshotFreezeKeeps ==
  ASSUME SafeInv, SnapshotFreeze PROVE SafeInv'
  <1>1. /\ pc = "freeze" /\ pc' = "install" /\ freeze' \in {Frozen(venv), NoFreeze}
        /\ UNCHANGED <<fixed, planVars, blind>> /\ UNCHANGED <<index, origin, venv, batch, failed, rolledBack>>
    BY DEF SnapshotFreeze, fixed
  <1>2. /\ venv \in Venvs /\ batch \subseteq safe /\ failed \in BOOLEAN /\ rolledBack \in BOOLEAN
        /\ blind \in BOOLEAN
    BY DEF SafeInv, SafeTypeOK
  <1>3. pc' \in Stages \ Planning /\ pc \notin Vetting
    BY <1>1 DEF Stages, Planning, Vetting
  <1>4. /\ SafeTypeOK' /\ Rounds' /\ Vetted'
        /\ MainBatch' = MainBatch /\ TorchBatch' = TorchBatch
    BY <1>1, <1>2, <1>3, FrozenIsVenv, ApplyingKeeps
  <1>5. Batches'
    BY <1>1, <1>4 DEF SafeInv, Batches, InBatch, Settled
  <1>6. QED
    BY <1>4, <1>5 DEF SafeInv

LEMMA PipInstallKeeps ==
  ASSUME SafeInv, PipInstall PROVE SafeInv'
  <1>1. /\ pc = "install"
        /\ \/ venv' \in PinnedInstalls(index, venv, BatchPins) /\ pc' = "check"
           \/ venv' \in Interrupted(index, venv, BatchPins) /\ pc' = "rollback"
           \/ batch = MainBatch /\ venv' = venv /\ pc' = "check"
        /\ UNCHANGED <<fixed, planVars>> /\ UNCHANGED <<index, origin, pins>>
        /\ UNCHANGED <<batch, freeze, failed, rolledBack, blind>>
    BY DEF PipInstall, fixed, planVars, applyVars
  <1>2. /\ venv' \in Venvs /\ batch \subseteq safe /\ failed \in BOOLEAN /\ rolledBack \in BOOLEAN
        /\ freeze \in Venvs \cup {NoFreeze} /\ blind \in BOOLEAN
    BY <1>1 DEF SafeInv, SafeTypeOK, PinnedInstalls, Interrupted
  <1>3. pc' \in Stages \ Planning /\ pc \notin Vetting
    BY <1>1 DEF Stages, Planning, Vetting
  <1>4. /\ SafeTypeOK' /\ Rounds' /\ Vetted'
        /\ MainBatch' = MainBatch /\ TorchBatch' = TorchBatch
    BY <1>1, <1>2, <1>3, ApplyingKeeps
  <1>5. BatchPins' = BatchPins
    BY <1>1 DEF BatchPins
  <1>6. batch = MainBatch => venv = origin
    BY <1>1 DEF SafeInv, Batches
  <1>7. /\ pc' = "check" /\ batch = MainBatch =>
          venv' \in PinnedInstalls(index, origin, BatchPins) \/ venv' = origin
    BY <1>1, <1>6
  <1>8. PinnedInstalls(index', origin', BatchPins') = PinnedInstalls(index, origin, BatchPins)
    BY <1>1, <1>5
  <1>9. Batches'
    BY <1>1, <1>4, <1>7, <1>8 DEF SafeInv, Batches, InBatch, Settled
  <1>10. QED
    BY <1>4, <1>9 DEF SafeInv

LEMMA PipCheckKeeps ==
  ASSUME SafeInv, PipCheck PROVE SafeInv'
  <1>1. /\ pc = "check" /\ UNCHANGED <<fixed, planVars>>
        /\ UNCHANGED <<index, origin, venv, freeze, failed, rolledBack>>
    BY DEF PipCheck, fixed
  <1>2. \/ /\ Consistent(index, venv) \/ blind'
           /\ TorchBatch # {} /\ batch' = TorchBatch /\ pc' = "freeze"
        \/ /\ Consistent(index, venv) \/ blind'
           /\ batch' = batch /\ pc' \in {"verify", "done"}
        \/ batch' = batch /\ pc' = "rollback"
    BY AfterBatchIs DEF PipCheck
  <1>3. /\ venv \in Venvs /\ batch' \subseteq safe /\ failed \in BOOLEAN /\ rolledBack \in BOOLEAN
        /\ freeze \in Venvs \cup {NoFreeze} /\ blind' \in BOOLEAN
    BY <1>1, <1>2, TwoBatches DEF SafeInv, SafeTypeOK, PipCheck
  <1>4. pc' \in Stages \ Planning /\ pc \notin Vetting
    BY <1>1, <1>2 DEF Stages, Planning, Vetting
  <1>5. /\ SafeTypeOK' /\ Rounds' /\ Vetted'
        /\ MainBatch' = MainBatch /\ TorchBatch' = TorchBatch
    BY <1>1, <1>3, <1>4, ApplyingKeeps
  <1>6. Consistent(index', venv') <=> Consistent(index, venv)
    BY <1>1
  <1>7. Batches'
    BY <1>1, <1>2, <1>5, <1>6, TwoBatches DEF SafeInv, Batches, InBatch, Settled
  <1>8. QED
    BY <1>5, <1>7 DEF SafeInv

\* _rollback: the snapshot of the main batch is the environment that the upgrade
\* began with.
LEMMA RollbackKeeps ==
  ASSUME SafeInv, Rollback PROVE SafeInv'
  <1>1. /\ pc = "rollback" /\ failed' = TRUE /\ UNCHANGED <<fixed, planVars>>
        /\ UNCHANGED <<index, origin, freeze, blind>>
    BY DEF Rollback, fixed
  <1>2. /\ venv \in Venvs /\ batch \subseteq safe /\ rolledBack \in BOOLEAN
        /\ freeze \in Venvs \cup {NoFreeze} /\ blind \in BOOLEAN
        /\ batch # {} /\ batch \in {MainBatch, TorchBatch}
        /\ batch = MainBatch => freeze \in {Frozen(origin), NoFreeze}
        /\ ~(rolledBack /\ TorchBatch = {})
    BY <1>1 DEF SafeInv, SafeTypeOK, Batches, InBatch
  <1>3. \/ /\ freeze # NoFreeze /\ venv' = Restored(venv, freeze) /\ rolledBack' = TRUE
           /\ batch = MainBatch /\ batch' = batch /\ pc' = "done"
        \/ /\ freeze # NoFreeze /\ venv' = Restored(venv, freeze) /\ rolledBack' = TRUE
           /\ batch # MainBatch /\ batch' = batch /\ pc' = "verify"
        \/ /\ venv' = venv \/ (freeze # NoFreeze /\ venv' \in HalfRestored(venv, freeze))
           /\ rolledBack' = rolledBack
           /\ \/ TorchBatch # {} /\ batch' = TorchBatch /\ pc' = "freeze"
              \/ batch' = batch /\ pc' \in {"verify", "done"}
    BY AfterBatchIs DEF Rollback, AfterRollback, AfterBatch
  <1>4. ASSUME freeze # NoFreeze
        PROVE  /\ Restored(venv, freeze) \in Venvs
               /\ \A p \in Packages : freeze[p] # Absent => Restored(venv, freeze)[p] = freeze[p]
    BY <1>2, <1>4 DEF Restored, Venvs
  <1>5. venv' \in Venvs /\ rolledBack' \in BOOLEAN /\ batch' \subseteq safe
    BY <1>2, <1>3, <1>4, TwoBatches DEF HalfRestored
  <1>6. pc' \in Stages \ Planning /\ pc \notin Vetting
    BY <1>1, <1>3 DEF Stages, Planning, Vetting
  <1>7. /\ SafeTypeOK' /\ Rounds' /\ Vetted'
        /\ MainBatch' = MainBatch /\ TorchBatch' = TorchBatch
    BY <1>1, <1>2, <1>5, <1>6, ApplyingKeeps
  <1>8. ASSUME rolledBack', TorchBatch = {}
        PROVE  pc' = "done" /\ \A p \in Installed(origin) \ Unfrozen : venv'[p] = origin[p]
    <2>1. /\ freeze = Frozen(origin) /\ freeze # NoFreeze /\ venv' = Restored(venv, freeze) /\ pc' = "done"
      BY <1>2, <1>3, <1>8
    <2>2. QED
      BY <1>4, <2>1 DEF Installed, Frozen
  <1>9. Batches'
    BY <1>1, <1>3, <1>7, <1>8, TwoBatches DEF Batches, InBatch, Settled, Installed
  <1>10. QED
    BY <1>7, <1>9 DEF SafeInv

LEMMA VerifyKeeps ==
  ASSUME SafeInv, Verify \/ Drop PROVE SafeInv'
  <1>1. /\ pc \in {"apply", "verify", "freeze"} /\ pc' \in {"done", "dropped"}
        /\ UNCHANGED <<fixed, planVars>>
        /\ blind' = blind \/ (blind' = FALSE /\ Consistent(index, venv))
        /\ UNCHANGED <<index, origin, venv, batch, freeze, rolledBack>>
        /\ failed' = failed \/ failed' = TRUE
    BY DEF Verify, Drop, fixed, applyVars
  <1>2. /\ venv \in Venvs /\ batch \subseteq safe /\ failed' \in BOOLEAN /\ rolledBack \in BOOLEAN
        /\ freeze \in Venvs \cup {NoFreeze} /\ blind' \in BOOLEAN
    BY <1>1 DEF SafeInv, SafeTypeOK
  <1>3. pc' \in Stages \ Planning /\ pc \notin Vetting
    BY <1>1 DEF Stages, Planning, Vetting
  <1>4. /\ SafeTypeOK' /\ Rounds' /\ Vetted'
        /\ MainBatch' = MainBatch /\ TorchBatch' = TorchBatch
    BY <1>1, <1>2, <1>3, ApplyingKeeps
  <1>5. /\ ~failed => Consistent(index, venv) \/ venv = origin \/ blind
        /\ ~(rolledBack /\ TorchBatch = {})
    BY <1>1 DEF SafeInv, Rounds, Batches, Planning, Settled
  <1>6. Consistent(index', venv') <=> Consistent(index, venv)
    BY <1>1
  <1>7. Batches'
    BY <1>1, <1>2, <1>4, <1>5, <1>6 DEF Batches, InBatch
  <1>8. QED
    BY <1>4, <1>7 DEF SafeInv

-----------------------------------------------------------------------------
(* The theorems.                                                            *)

LEMMA SafeNext == SafeInv /\ [Next]_vars => SafeInv'
  <1> SUFFICES ASSUME SafeInv, [Next]_vars PROVE SafeInv'
    OBVIOUS
  <1>1. CASE PlanProject \/ UpgradeStep
    BY <1>1, ListKeeps
  <1>2. CASE Classify
    BY <1>2, ClassifyKeeps
  <1>3. CASE BatchDryRun
    BY <1>3, BatchDryRunKeeps
  <1>4. CASE SingleDryRun
    BY <1>4, SingleDryRunKeeps
  <1>5. CASE PlanTorch
    BY <1>5, PlanTorchKeeps
  <1>6. CASE Apply
    BY <1>6, ApplyKeeps
  <1>7. CASE SnapshotFreeze
    BY <1>7, SnapshotFreezeKeeps
  <1>8. CASE PipInstall
    BY <1>8, PipInstallKeeps
  <1>9. CASE PipCheck
    BY <1>9, PipCheckKeeps
  <1>10. CASE Rollback
    BY <1>10, RollbackKeeps
  <1>11. CASE Verify \/ Drop
    BY <1>11, VerifyKeeps
  <1>12. CASE UNCHANGED vars
    <2>1. /\ UNCHANGED <<index, entry, gpu, origin, venv, pc, cand, later, todo, safe, blocked>>
          /\ UNCHANGED <<pins, vetted, unheard, batch, freeze, failed, rolledBack, blind, fixed>>
      BY <1>12 DEF vars, fixed, planVars, applyVars
    <2>2. SafeTypeOK' /\ Rounds'
      BY <2>1 DEF SafeInv, SafeTypeOK, Rounds
    <2>3. MainBatch' = MainBatch /\ TorchBatch' = TorchBatch
      BY <2>1, BatchesGrow
    <2>4. Vetted'
      <3>1. \A p \in todo' : Cleared(p)'
        BY <2>1 DEF SafeInv, Vetted, Cleared, Asked
      <3>2. QED
        BY <2>1, <2>3, <3>1, VettedStays
    <2>5. Batches'
      <3>1. /\ PinnedInstalls(index', origin', BatchPins') = PinnedInstalls(index, origin, BatchPins)
            /\ Consistent(index', venv') <=> Consistent(index, venv)
        BY <2>1 DEF BatchPins
      <3>2. QED
        BY <2>1, <2>3, <3>1 DEF SafeInv, Batches
    <2>6. QED
      BY <2>2, <2>4, <2>5 DEF SafeInv
  <1>13. QED
    BY <1>1, <1>2, <1>3, <1>4, <1>5, <1>6, <1>7, <1>8, <1>9, <1>10, <1>11, <1>12, Zenon DEF Next

LEMMA SafeInvariant == Spec => []SafeInv
  BY SafeInit, SafeNext, PTL DEF Spec

\* classify_safe_upgrades, build_upgrade_plan: no candidate is safe and blocked
\* at once, none is a package that is not installed, each safe one has a version
\* to pin and each batch holds safe packages only.
THEOREM UpgradeTypes == Spec => []SafeTypeOK
  <1>1. SafeInv => SafeTypeOK
    BY DEF SafeInv
  <1>2. QED
    BY <1>1, SafeInvariant, PTL

\* apply_batch_with_rollback: after "rolled back successfully" a project with one
\* batch has every package it started with that `pip freeze` lists back at its
\* version.
THEOREM RollbackIsTrue == Spec => []RollbackRestores
  <1>1. SafeInv => RollbackRestores
    BY DEF SafeInv, Batches, RollbackRestores
  <1>2. QED
    BY <1>1, SafeInvariant, PTL

-----------------------------------------------------------------------------
(* What an upgrade adds and takes away.                                     *)

\* Nothing comes in but what the upgraded packages need, and nothing goes
\* without a rollback, after which there is a "failed" event.
Led(v) == Installed(v) \subseteq Installed(origin) \cup Brings(safe)
Kept ==
  /\ Led(venv) /\ (freeze # NoFreeze => Led(freeze))
  /\ pc \in Planning => freeze = NoFreeze
  /\ ~failed /\ pc # "rollback" => Installed(origin) \subseteq Installed(venv)

LEMMA ReachIsBrought ==
  ASSUME NEW start \in SUBSET safe, NEW edges \in SUBSET index, NEW v
  PROVE  Reach(start, edges, v) \subseteq Brings(safe)
  <1> SUFFICES ASSUME NEW p \in Reach(start, edges, v), NEW closed \in SUBSET Packages,
                      safe \subseteq closed, \A rq \in index : rq.by \in closed => rq.on \in closed
               PROVE  p \in closed
    BY DEF Brings, Reach
  <1>1. Reach(start, edges, v) \subseteq closed
    BY ReachLeast
  <1>2. QED
    BY <1>1

\* An install that succeeds removes nothing; one that does not is rolled back.
LEMMA InstallIsLed ==
  ASSUME SafeInv, Kept, PipInstall
  PROVE  Led(venv') /\ (pc' # "rollback" => Installed(venv) \subseteq Installed(venv'))
  <1> DEFINE target == [p \in Packages |-> IF p \in DOMAIN BatchPins THEN BatchPins[p] ELSE venv[p]]
  <1>1. /\ batch \subseteq safe /\ safe \subseteq Packages /\ DOMAIN BatchPins = batch
        /\ venv \in Venvs /\ origin \in Venvs
    BY UpgradeAssumption DEF SafeInv, SafeTypeOK, BatchPins, Installed
  <1>2. safe \subseteq Brings(safe)
    BY <1>1 DEF Brings
  <1>3. ASSUME NEW after \in PinnedInstalls(index, venv, BatchPins)
        PROVE  /\ {p \in Packages : after[p] # venv[p]} \subseteq Brings(safe)
               /\ \A p \in Installed(venv) : after[p] # Absent
    <2> DEFINE followed == {rq \in index : venv[rq.on] \in rq.in => after[rq.on] = venv[rq.on]}
    <2>1. {p \in Packages : after[p] # venv[p]} \subseteq Reach(batch, followed, after)
      BY <1>1, InstallFacts
    <2>2. Reach(batch, followed, after) \subseteq Brings(safe)
      BY <1>1, ReachIsBrought
    <2>3. \A p \in Installed(venv) : after[p] # Absent
      BY DEF PinnedInstalls, Resolves
    <2>4. QED
      BY <2>1, <2>2, <2>3
  <1>4. CASE venv' \in PinnedInstalls(index, venv, BatchPins)
    <2>1. venv' \in Venvs
      BY <1>4, InstallFacts
    <2>2. QED
      BY <1>1, <1>3, <1>4, <2>1 DEF Kept, Led, Installed
  <1>5. CASE venv' \in Interrupted(index, venv, BatchPins) /\ pc' = "rollback"
    <2>1. PICK goal \in PinnedInstalls(index, venv, BatchPins) \cup {target} :
            \A p \in Packages : venv'[p] \in {venv[p], goal[p]}
                                \cup (IF goal[p] # venv[p] /\ p \notin Unfrozen THEN {Absent} ELSE {})
      BY <1>5 DEF Interrupted
    <2>2. {p \in Packages : goal[p] # venv[p]} \subseteq Brings(safe)
      <3>1. CASE goal = target
        BY <1>1, <1>2, <3>1
      <3>2. CASE goal \in PinnedInstalls(index, venv, BatchPins)
        BY <1>3, <3>2
      <3>3. QED
        BY <2>1, <3>1, <3>2
    <2>3. QED
      BY <1>5, <2>1, <2>2 DEF Kept, Led, Installed
  <1>6. CASE venv' = venv
    BY <1>6 DEF Kept, Led
  <1>7. QED
    BY <1>4, <1>5, <1>6 DEF PipInstall

LEMMA KeptNext ==
  ASSUME SafeInv, Kept, [Next]_vars
  PROVE  Kept'
  <1>1. ASSUME pc \in Planning, UNCHANGED <<index, origin, venv, freeze>>, pc' # "rollback"
        PROVE  Kept'
    BY <1>1 DEF SafeInv, Rounds, Kept, Led
  <1>2. ASSUME UNCHANGED <<index, origin, venv, freeze, safe>>, pc' \notin Planning,
               pc # "rollback", failed => failed'
        PROVE  Kept'
    BY <1>2 DEF Kept, Led, Brings, Installed
  <1>3. CASE PlanProject \/ UpgradeStep \/ Classify \/ BatchDryRun \/ SingleDryRun \/ PlanTorch
    <2>1. /\ pc \in Planning /\ UNCHANGED <<index, origin, venv, freeze>>
          /\ pc' \in {"classify", "done", "torch", "apply", "dryrun", "single"}
      BY <1>3 DEF PlanProject, UpgradeStep, Classify, BatchDryRun, SingleDryRun, PlanTorch, PlanCuda,
                  AfterClassify, Planning, fixed, applyVars
    <2>2. QED
      BY <1>1, <2>1
  <1>4. CASE Apply \/ PipCheck \/ Verify \/ Drop
    <2>1. /\ UNCHANGED <<index, origin, venv, freeze, safe>> /\ pc # "rollback"
          /\ failed => failed'
      BY <1>4 DEF Apply, PipCheck, Verify, Drop, fixed, planVars, applyVars
    <2>2. pc' \in {"freeze", "verify", "done", "rollback", "dropped"}
      BY <1>4 DEF Apply, PipCheck, Verify, Drop, AfterBatch, AfterMain, StartBatch
    <2>3. QED
      BY <1>2, <2>1, <2>2 DEF Planning
  <1>5. CASE SnapshotFreeze
    BY <1>5 DEF SnapshotFreeze, Frozen, fixed, planVars, Kept, Led, Brings, Installed, Planning
  <1>6. CASE PipInstall
    <2>1. /\ UNCHANGED <<index, origin, freeze, safe, failed>> /\ pc = "install"
          /\ pc' \in {"check", "rollback"}
      BY <1>6 DEF PipInstall, fixed, planVars, applyVars
    <2>2. Led(venv') /\ (pc' # "rollback" => Installed(venv) \subseteq Installed(venv'))
      BY <1>6, InstallIsLed
    <2>3. QED
      BY <2>1, <2>2 DEF Kept, Led, Brings, Installed, Planning
  <1>7. CASE Rollback
    <2>1. /\ UNCHANGED <<index, origin, freeze, safe>> /\ failed'
          /\ pc' \in {"freeze", "verify", "done"}
      BY <1>7 DEF Rollback, AfterRollback, AfterBatch, AfterMain, StartBatch, fixed, planVars
    <2>2. \A p \in Packages :
            \/ venv'[p] \in {venv[p], Absent}
            \/ freeze # NoFreeze /\ venv'[p] = freeze[p]
      BY <1>7 DEF Rollback, Restored, HalfRestored
    <2>3. QED
      BY <2>1, <2>2 DEF Kept, Led, Brings, Installed, Planning
  <1>8. CASE UNCHANGED vars
    BY <1>8 DEF vars, fixed, planVars, applyVars, Kept, Led, Brings, Installed
  <1>9. QED
    BY <1>3, <1>4, <1>5, <1>6, <1>7, <1>8, Zenon DEF Next

LEMMA KeptInvariant == Spec => []Kept
  <1>1. Init => Kept
    BY DEF Init, Kept, Led
  <1>2. SafeInv /\ Kept /\ [Next]_vars => Kept'
    BY KeptNext
  <1>3. QED
    BY <1>1, <1>2, SafeInvariant, PTL DEF Spec

\* apply_upgrade_plan: an upgrade that ends, or is cut off, without a "failed"
\* event has every package that was there and none that nothing needs, in an
\* environment that pip accepts, the one it found, or one that pip was never
\* asked about because the probe of the interpreter failed.
THEOREM QuietIsSound == Spec => []QuietRunIsSound
  <1>1. SafeInv /\ Kept => QuietRunIsSound
    BY DEF SafeInv, Batches, Settled, QuietRunIsSound, Kept, Led
  <1>2. QED
    BY <1>1, SafeInvariant, KeptInvariant, PTL

\* check_reverse_deps, the dry-runs: installing what they let pass moves nothing
\* else and breaks nothing that was sound, whichever candidates were vetted
\* together, alone or in another round, if the versions installed are the ones
\* vetted, nothing comes in that was not there, the installed packages were asked
\* and no excused twin was left behind.
THEOREM VettingIsSound == Spec => []PlanIsSound
  BY PlanSound, SafeInvariant, PTL
=============================================================================
