--------------------------- MODULE PipelineSteps ---------------------------
(***************************************************************************)
(* The seven steps of a pipeline run (env_manager/pipeline/steps.py), full *)
(* or single, with what they do to a workspace: create_venv and the OpenCV *)
(* swap (venv_manager.py), the npm and pip installs (pipeline/install.py,  *)
(* npm_manager.py), the loop of the upgrades (pipeline/upgrades.py), the   *)
(* copies of the manifests (requirements_manager.py), the verdicts of      *)
(* validate_project (module Validation) and the health audit.              *)
(*                                                                         *)
(* An environment holds distributions, and the files of one OpenCV variant *)
(* at a time.  Every operation may fail: faults counts the failures.       *)
(***************************************************************************)
EXTENDS Sequences, SoundProject

CONSTANTS Managed,      \* the managed projects, a sequence in upgrade order
          Self,         \* the environment manager's own project
          Nodes,        \* the Node projects
          NpmManifest,  \* the projects with a central npm manifest
          Dists,        \* distributions
          OpenCV,       \* those that provide cv2
          Central,      \* the distributions of a project's central manifest
          Pulled,       \* what a distribution brings along
          Preferred,    \* the variant a project should end up with, or "none"
          Cases,        \* projects as validate_project may find them
          Hosts, Spaces, \* the hosts and workspaces a first run may find
          MaxFaults, MaxRuns

Projects == {Managed[i] : i \in DOMAIN Managed}
Pythons  == Projects \ Nodes
NoFile   == [listed |-> FALSE, reqs |-> {}]
File(ds) == [listed |-> TRUE, reqs |-> ds]

Workspaces ==
  [venv : [Projects -> {"none", "broken", "valid"}], dists : [Projects -> SUBSET Dists],
   cv : [Projects -> OpenCV \cup {"none"}], mods : [Projects -> {"none", "part", "whole"}],
   pkg : [Projects -> BOOLEAN], file : [Projects -> [listed : BOOLEAN, reqs : SUBSET Dists]]]

\* An environment that is not valid holds nothing; what a distribution brings
\* along brings along nothing else; the projects' names are distinct.
ASSUME StepsAssumption ==
  /\ Managed \in Seq(Projects) /\ \A i, j \in DOMAIN Managed : Managed[i] = Managed[j] => i = j
  /\ "all" \notin Projects /\ Self \in Projects
  /\ Nodes \subseteq Projects /\ NpmManifest \subseteq Projects
  /\ OpenCV \subseteq Dists /\ "none" \notin Dists
  /\ Central \in [Projects -> SUBSET Dists]
  /\ Pulled \in [Dists -> SUBSET Dists] /\ \A d \in Dists : \A e \in Pulled[d] : Pulled[e] \subseteq Pulled[d]
  /\ Preferred \in [Projects -> OpenCV \cup {"none"}]
  /\ MaxFaults \in Nat /\ MaxRuns \in Nat
  /\ \A c \in Cases : WellFormed(c)
  /\ Spaces \subseteq Workspaces
  /\ \A w \in Spaces : \A p \in Projects :
       w.venv[p] # "valid" => w.dists[p] = {} /\ w.cv[p] = "none"

VARIABLES
  host,      \* the tools on PATH, and whether the server's interpreter lies elsewhere, in
             \* Self's .venv, or there as a link ("linked") that resolves out of it
  venv,      \* per project: "none", "broken" or "valid"
  dists,     \* per project: the installed distributions
  cv,        \* per project: whose cv2 files are in place
  mods,      \* node_modules: "none", "part" or "whole"
  pkg,       \* whether there is a package.json
  file,      \* requirements.txt
  options, step, phase, todo, seen, failures, passed, last,
  amiss,     \* projects an event of this run, up to step 5, complained of
  repulled,  \* projects whose upgrade brought an OpenCV variant
  misprobed, \* projects whose interpreter did not answer in time in this run
  judged,    \* the projects validated in this run, and their grades
  faults, runs

workspace == <<host, venv, dists, cv, mods, pkg, file>>
envs      == <<venv, dists, cv>>
trail     == <<amiss, repulled, misprobed, judged>>
vars == <<workspace, options, step, phase, todo, seen, failures, passed, last, trail, faults, runs>>

\* discover_projects, limited to the target.
Scope == IF options.target = "all" THEN Managed ELSE <<options.target>>
Targets == {Scope[i] : i \in DOMAIN Scope}

Init ==
  /\ host \in Hosts
  /\ \E w \in Spaces :
       /\ venv = w.venv /\ dists = w.dists /\ cv = w.cv
       /\ mods = w.mods /\ pkg = w.pkg /\ file = w.file
  /\ host.python # "elsewhere" => venv[Self] = "valid"
  /\ options = [full |-> FALSE, clean |-> FALSE, target |-> "all"]
  /\ step = 0 /\ phase = "idle" /\ todo = <<>> /\ seen = [done |-> FALSE, npm |-> {}]
  /\ failures = {} /\ passed = TRUE /\ last = "idle"
  /\ amiss = {} /\ repulled = {} /\ misprobed = {} /\ judged = {}
  /\ faults = 0 /\ runs = 0

-----------------------------------------------------------------------------
(* Faults, probes and the passage from step to step.                        *)

Well  == UNCHANGED faults
Fault == faults < MaxFaults /\ faults' = faults + 1

\* _probe_venv_python: a valid environment may fail to answer in time.
Sees(p, valid) ==
  \/ valid = (venv[p] = "valid") /\ Well /\ UNCHANGED misprobed
  \/ venv[p] = "valid" /\ ~valid /\ Fault /\ misprobed' = misprobed \cup {p}

Complain(p) == amiss' = amiss \cup {p}

\* Mutant: no environment is the running one.
Active_Never(p) == FALSE

\* The environment that is taken for the running one: where the interpreter's
\* executable is a link that resolves out of it, none is.
Active(p) == p = Self /\ host.python = "inside"

Status(ok) == IF ok THEN "success" ELSE "warning"

\* Mutant: every step of a full run sets the status.
EndStep_EachSets(status) ==
  /\ todo' = <<>> /\ last' = status
  /\ IF options.full /\ step < 7 THEN step' = step + 1 /\ phase' = "enter"
     ELSE step' = 0 /\ phase' = "idle"

\* A single step, or the last one of a full run, sets last_status.
EndStep(status) ==
  /\ todo' = <<>>
  /\ IF options.full /\ step < 7
     THEN step' = step + 1 /\ phase' = "enter" /\ UNCHANGED last
     ELSE step' = 0 /\ phase' = "idle" /\ last' = status

\* The loop over the projects: the one at hand, and on to the next.
At(n, ph, p) == step = n /\ phase = ph /\ todo # <<>> /\ p = Head(todo)
NextProject  == todo' = Tail(todo) /\ phase' = "next" /\ UNCHANGED <<step, last>>
GoOn(ph)     == phase' = ph /\ UNCHANGED <<todo, step, last>>

\* _start; a step number out of range ends the run at once.
Start(full, clean, target, n) ==
  /\ step = 0 /\ runs < MaxRuns
  /\ options' = [full |-> full, clean |-> clean, target |-> target]
  /\ runs' = runs + 1 /\ todo' = <<>>
  /\ seen' = [done |-> FALSE, npm |-> {}] /\ failures' = {} /\ passed' = TRUE
  /\ amiss' = {} /\ repulled' = {} /\ misprobed' = {} /\ judged' = {}
  /\ IF n \in 1..7 THEN step' = n /\ phase' = "enter" /\ last' = "running"
     ELSE last' = "error" /\ UNCHANGED <<step, phase>>
  /\ UNCHANGED <<workspace, faults>>

StartFull == \E clean \in BOOLEAN, t \in {"all"} \cup Projects : Start(TRUE, clean, t, 1)
StartSingle ==
  \E n \in 1..8, clean \in BOOLEAN, t \in {"all"} \cup Projects : Start(FALSE, clean, t, n)

\* An unhandled exception, a consumer that closes the generator, the end of the
\* process.
Break ==
  /\ step # 0 /\ Fault
  /\ step' = 0 /\ phase' = "idle" /\ todo' = <<>>
  /\ last' \in {"failed", "running", "idle"}
  /\ UNCHANGED <<workspace, options, seen, failures, passed, trail, runs>>

\* discover and managed_projects: only the manifests seen are used later.
Discover == seen' = [done |-> TRUE, npm |-> {p \in Targets : pkg[p]}]
ManagedProjects == IF seen.done THEN UNCHANGED seen ELSE Discover

-----------------------------------------------------------------------------
(* Steps 1 to 3.                                                            *)

HardwareDiscovery ==
  /\ step = 1 /\ phase = "enter" /\ EndStep("success")
  /\ UNCHANGED <<workspace, options, seen, failures, passed, trail, faults, runs>>

ToolchainAudit ==
  /\ step = 2 /\ phase = "enter" /\ EndStep(Status("git" \in host.tools))
  /\ UNCHANGED <<workspace, options, seen, failures, passed, trail, faults, runs>>

VirtualEnvironments ==
  /\ step = 3 /\ phase = "enter"
  /\ Discover /\ todo' = Scope /\ phase' = "next"
  /\ UNCHANGED <<workspace, options, step, failures, passed, last, trail, faults, runs>>

\* _node_project_events.
NodeModules(p) ==
  /\ At(3, "next", p) /\ p \in Nodes
  /\ \/ ~(options.clean /\ mods[p] # "none") /\ Well /\ UNCHANGED <<mods, amiss>>
     \/ options.clean /\ mods[p] # "none" /\ Well
          /\ mods' = [mods EXCEPT ![p] = "none"] /\ UNCHANGED amiss
     \/ options.clean /\ mods[p] # "none" /\ Fault
          /\ \E left \in {mods[p], "part"} : mods' = [mods EXCEPT ![p] = left]
          /\ Complain(p)
  /\ NextProject
  /\ UNCHANGED <<host, envs, pkg, file, options, seen, failures, passed>>
  /\ UNCHANGED <<repulled, misprobed, judged, runs>>

\* A valid environment of a run that is not clean, and the running one.
KeepVenv(p) ==
  /\ At(3, "next", p) /\ p \notin Nodes
  /\ \/ options.clean /\ Active(p) /\ Complain(p) /\ Well /\ UNCHANGED misprobed
     \/ ~options.clean /\ Sees(p, TRUE) /\ UNCHANGED amiss
     \/ ~options.clean /\ Sees(p, FALSE) /\ Active(p)
          /\ IF venv[p] = "valid" THEN UNCHANGED amiss ELSE Complain(p)
  /\ NextProject
  /\ UNCHANGED <<workspace, options, seen, failures, passed, repulled, judged, runs>>

SetEnv(p, v, ds, files) ==
  /\ venv'  = [venv EXCEPT ![p] = v]
  /\ dists' = [dists EXCEPT ![p] = ds]
  /\ cv'    = [cv EXCEPT ![p] = files]

\* create_venv is called: the environment was asked for, or looked, invalid.
Recreate(p) ==
  /\ At(3, "next", p) /\ p \notin Nodes /\ ~Active(p)
  /\ \/ options.clean /\ Well /\ UNCHANGED misprobed
     \/ ~options.clean /\ Sees(p, FALSE)
  /\ GoOn("remove")
  /\ UNCHANGED <<workspace, options, seen, failures, passed, amiss, repulled, judged, runs>>

\* _remove_existing_venv: it may fail before, inside or after the old tree.
RemoveVenv(p) ==
  /\ At(3, "remove", p)
  /\ \/ Well /\ SetEnv(p, "none", {}, "none") /\ GoOn("build") /\ UNCHANGED amiss
     \/ /\ venv[p] # "none" /\ Fault /\ NextProject /\ Complain(p)
        /\ \/ UNCHANGED envs
           \/ \E v \in {"none", "broken"} : SetEnv(p, v, {}, "none")
  /\ UNCHANGED <<host, mods, pkg, file, options, seen, failures, passed>>
  /\ UNCHANGED <<repulled, misprobed, judged, runs>>

\* _build_venv: the core packages may fail to upgrade in a sound environment.
BuildVenv(p) ==
  /\ At(3, "build", p)
  /\ \/ Well /\ SetEnv(p, "valid", {}, "none") /\ UNCHANGED amiss
     \/ Fault /\ Complain(p)
          /\ \E v \in {"none", "broken", "valid"} : SetEnv(p, v, {}, "none")
  /\ NextProject
  /\ UNCHANGED <<host, mods, pkg, file, options, seen, failures, passed>>
  /\ UNCHANGED <<repulled, misprobed, judged, runs>>

VirtualEnvironmentsEnd ==
  /\ step = 3 /\ phase = "next" /\ todo = <<>> /\ EndStep("success")
  /\ UNCHANGED <<workspace, options, seen, failures, passed, trail, faults, runs>>

-----------------------------------------------------------------------------
(* Step 4.                                                                  *)

\* sync_all_manifests, of every project: a copy that lists more than the central
\* manifest is left alone; a write may fail before or after it emptied the file.
Refused(p) == file[p].listed /\ ~(file[p].reqs \subseteq Central[p])
Copies     == [p \in Projects |-> IF p \in Nodes \/ Refused(p) THEN file[p] ELSE File(Central[p])]
Manifests  == [p \in Projects |-> pkg[p] \/ p \in NpmManifest]

SyncAllManifests(failed) ==
  \/ file' = Copies /\ pkg' = Manifests /\ Well /\ failed = {}
  \/ Fault /\ \E p \in Projects :
       \/ failed = {<<p, "pip">>} /\ p \in Pythons /\ ~Refused(p) /\ pkg' = Manifests
            /\ \E left \in {file[p], File({})} : file' = [Copies EXCEPT ![p] = left]
       \/ failed = {<<p, "npm">>} /\ p \in NpmManifest /\ file' = Copies
            /\ pkg' = [Manifests EXCEPT ![p] = pkg[p]]

Results == Projects \X {"pip", "npm"}

\* A run of one project tells the results under its name, which those of the npm
\* manifests are not.
Told(p, failed) ==
  \/ <<p, "pip">> \in failed \/ (p \in Pythons /\ Refused(p))
  \/ options.target = "all" /\ <<p, "npm">> \in failed

SyncManifests ==
  /\ step = 4 /\ phase = "enter" /\ phase' = "list"
  /\ \E failed \in SUBSET Results :
       /\ Cardinality(failed) < 2 /\ SyncAllManifests(failed)
       /\ amiss' = amiss \cup {p \in Targets : Told(p, failed)}
  /\ UNCHANGED <<host, envs, mods, options, step, todo, seen, failures, passed, last>>
  /\ UNCHANGED <<repulled, misprobed, judged, runs>>

ListProjects ==
  /\ \/ step = 4 /\ phase = "list"
     \/ step \in {5, 6} /\ phase = "enter"
  /\ ManagedProjects /\ todo' = Scope /\ phase' = "next"
  /\ UNCHANGED <<workspace, options, step, failures, passed, last, trail, faults, runs>>

InstallFails(p) == failures' = failures \cup {p} /\ Complain(p)

\* _install_node.
InstallNode(p) ==
  /\ At(4, "next", p) /\ p \in Nodes /\ GoOn("python")
  /\ \/ "npm" \notin host.tools /\ Well /\ InstallFails(p) /\ UNCHANGED mods
     \/ "npm" \in host.tools /\ Well /\ UNCHANGED <<failures, amiss>>
          /\ mods' = [mods EXCEPT ![p] = IF pkg[p] THEN "whole" ELSE @]
     \/ "npm" \in host.tools /\ Fault /\ InstallFails(p)
          /\ \E left \in {mods[p], "part"} : mods' = [mods EXCEPT ![p] = left]
  /\ UNCHANGED <<host, envs, pkg, file, options, seen, passed>>
  /\ UNCHANGED <<repulled, misprobed, judged, runs>>

\* What pip ends up with, and whose files: the variants it has just installed
\* overwrite each other's in no particular order.
Brought(ds)   == ds \cup UNION {Pulled[d] : d \in ds}
Over(p, news) == IF news \cap OpenCV = {} THEN {cv[p]} ELSE news \cap OpenCV

\* What a pip that broke off may leave of the distributions it was to install.
BreaksOff(p, ds) ==
  \E left \in SUBSET (dists[p] \cup ds) :
    \E files \in IF ds \cap OpenCV = {} THEN {cv[p]} ELSE {"none"} \cup (left \cap OpenCV) :
      dists[p] \ ds \subseteq left /\ SetEnv(p, "valid", left, files)

\* _install_python; what is listed already may be there in a version too low.
InstallPython(p) ==
  /\ \/ At(4, "python", p)
     \/ At(4, "next", p) /\ p \notin Nodes
  /\ \/ /\ ~file[p].listed /\ NextProject /\ Well
        /\ UNCHANGED <<envs, failures, amiss, misprobed>>
     \/ /\ file[p].listed /\ Sees(p, FALSE) /\ InstallFails(p)
        /\ NextProject /\ UNCHANGED envs
     \/ LET missing == Brought(file[p].reqs) \ dists[p] IN
        /\ file[p].listed /\ venv[p] = "valid" /\ UNCHANGED misprobed
        /\ \/ /\ Well /\ UNCHANGED <<failures, amiss>>
              /\ \E files \in Over(p, missing) : SetEnv(p, "valid", dists[p] \cup missing, files)
              /\ IF Preferred[p] # "none" THEN GoOn("uninstall") ELSE NextProject
           \/ Fault /\ InstallFails(p) /\ NextProject /\ BreaksOff(p, Brought(file[p].reqs))
  /\ UNCHANGED <<host, mods, pkg, file, options, seen, passed, repulled, judged, runs>>

\* normalize_opencv_variant, first half.  The variants are those of pip list,
\* which answers nothing when it fails; they share the files of cv2.
UninstallVariants(p) ==
  LET undesired == (dists[p] \cap OpenCV) \ {Preferred[p]} IN
  /\ At(4, "uninstall", p)
  /\ \/ /\ Sees(p, FALSE) /\ Complain(p) /\ NextProject /\ UNCHANGED envs
     \/ /\ UNCHANGED misprobed
        /\ \/ /\ Well /\ GoOn("install") /\ UNCHANGED amiss
              /\ SetEnv(p, venv[p], dists[p] \ undesired, IF undesired = {} THEN cv[p] ELSE "none")
           \/ Fault /\ GoOn("install") /\ UNCHANGED <<envs, amiss>>
           \/ /\ undesired # {} /\ Fault /\ NextProject /\ Complain(p)
              /\ \E gone \in SUBSET undesired :
                   SetEnv(p, venv[p], dists[p] \ gone, IF gone = {} THEN cv[p] ELSE "none")
  /\ UNCHANGED <<host, mods, pkg, file, options, seen, failures, passed, repulled, judged, runs>>

\* ... and second half.
InstallVariant(p) ==
  /\ At(4, "install", p) /\ NextProject
  /\ \/ Well /\ SetEnv(p, venv[p], dists[p] \cup {Preferred[p]}, Preferred[p]) /\ UNCHANGED amiss
     \/ Fault /\ Complain(p)
          /\ \/ UNCHANGED envs
             \/ SetEnv(p, venv[p], dists[p] \ {Preferred[p]}, "none")
  /\ UNCHANGED <<host, mods, pkg, file, options, seen, failures, passed>>
  /\ UNCHANGED <<repulled, misprobed, judged, runs>>

RequirementsInstallEnd ==
  /\ step = 4 /\ phase = "next" /\ todo = <<>> /\ EndStep(Status(failures = {}))
  /\ UNCHANGED <<workspace, options, seen, failures, passed, trail, faults, runs>>

-----------------------------------------------------------------------------
(* Steps 5 to 7.                                                            *)

\* _upgrade_npm_dependencies: packages that are not installed count as outdated.
UpgradeNpm(p) ==
  /\ At(5, "next", p) /\ GoOn("python")
  /\ \/ Well /\ UNCHANGED <<mods, amiss>>
     \/ p \in seen.npm /\ pkg[p] /\ "npm" \in host.tools
          /\ \/ Well /\ mods' = [mods EXCEPT ![p] = "whole"] /\ UNCHANGED amiss
             \/ Fault /\ mods' = [mods EXCEPT ![p] = "part"] /\ Complain(p)
  /\ UNCHANGED <<host, envs, pkg, file, options, seen, failures, passed>>
  /\ UNCHANGED <<repulled, misprobed, judged, runs>>

\* _upgrade_python_dependencies, as module SafeUpgrade has it: without a "failed"
\* event nothing is lost, and what comes in, if anything, the upgraded ones bring;
\* a rollback does not remove what came in, and may fail.
UpgradePython(p) ==
  /\ At(5, "python", p) /\ NextProject /\ UNCHANGED misprobed
  /\ \/ Well /\ UNCHANGED <<envs, amiss, repulled>>
     \/ p \in Pythons /\ venv[p] = "valid" /\ Well /\ UNCHANGED amiss
          /\ \E upgraded \in SUBSET dists[p] : \E touched \in SUBSET Brought(upgraded) :
               /\ upgraded \subseteq touched
               /\ \E files \in Over(p, touched) : SetEnv(p, "valid", dists[p] \cup touched, files)
               /\ repulled' = IF touched \cap OpenCV \subseteq {Preferred[p]} THEN repulled
                              ELSE repulled \cup {p}
     \/ p \in Pythons /\ venv[p] = "valid" /\ Fault /\ Complain(p) /\ UNCHANGED repulled
          /\ BreaksOff(p, Brought(dists[p]))
  /\ UNCHANGED <<host, mods, pkg, file, options, seen, failures, passed, judged, runs>>

\* sync_manifests_from_venvs: the central manifest, pinned anew, is copied over
\* every project's file.
WriteBack ==
  /\ step = 5 /\ phase = "next" /\ todo = <<>> /\ EndStep("success")
  /\ LET written == [p \in Projects |->
                       IF p \in Pythons /\ venv[p] = "valid" THEN File(Central[p]) ELSE file[p]] IN
       \/ file' = written /\ Well
       \/ Fault /\ \E p \in Pythons : \E left \in {file[p], File({})} :
            venv[p] = "valid" /\ file' = [written EXCEPT ![p] = left]
  /\ UNCHANGED <<host, envs, mods, pkg, options, seen, failures, passed, trail, runs>>

\* What validate_project may say, and what is so.
Verdicts == {[passed |-> Passed(c), grade |-> Grade(c)] : c \in Cases}

ValidateProject(p) ==
  /\ At(6, "next", p) /\ NextProject
  /\ \E v \in Verdicts : /\ passed' = (passed /\ v.passed)
                         /\ judged' = judged \cup {[project |-> p, grade |-> v.grade]}
  /\ UNCHANGED <<workspace, options, seen, failures, amiss, repulled, misprobed, faults, runs>>

CodebaseVerificationEnd ==
  /\ step = 6 /\ phase = "next" /\ todo = <<>> /\ EndStep(Status(passed))
  /\ IF passed THEN \E failed \in SUBSET Results : Cardinality(failed) < 2 /\ SyncAllManifests(failed)
     ELSE UNCHANGED <<file, pkg, faults>>
  /\ UNCHANGED <<host, envs, mods, options, seen, failures, passed, trail, runs>>

\* _missing_requirements: any OpenCV variant stands for every other.
Missing(p, installed) ==
  {d \in file[p].reqs : d \notin installed /\ ~(d \in OpenCV /\ installed \cap OpenCV # {})}

\* Mutant: a Python project is healthy when its environment is.
ProjectHealthy_EnvOnly(p, valid, installed) == IF p \in Nodes THEN mods[p] # "none" ELSE valid

\* audit_project_health.
ProjectHealthy(p, valid, installed) ==
  IF p \in Nodes THEN mods[p] # "none" ELSE valid /\ Missing(p, installed) = {}

\* audit_npm_workspaces.
NpmHealthy == \A p \in NpmManifest : pkg[p] => mods[p] # "none"

\* run_full_health_audit, of every project whatever the target; one interpreter
\* or pip list may fail to answer.
HealthMatrix ==
  /\ step = 7 /\ phase = "enter"
  /\ \/ /\ Well /\ UNCHANGED misprobed
        /\ EndStep(Status(/\ "git" \in host.tools /\ NpmHealthy
                          /\ \A p \in Projects : ProjectHealthy(p, venv[p] = "valid", dists[p])))
     \/ \E q \in Pythons, valid \in BOOLEAN :
          /\ venv[q] = "valid" /\ Fault
          /\ misprobed' = IF valid THEN misprobed ELSE misprobed \cup {q}
          /\ EndStep(Status(/\ "git" \in host.tools /\ NpmHealthy
                            /\ ProjectHealthy(q, valid, {})
                            /\ \A p \in Projects \ {q} :
                                 ProjectHealthy(p, venv[p] = "valid", dists[p])))
  /\ UNCHANGED <<workspace, options, seen, failures, passed, amiss, repulled, judged, runs>>

Next ==
  \/ StartFull \/ StartSingle \/ Break
  \/ HardwareDiscovery \/ ToolchainAudit
  \/ VirtualEnvironments \/ VirtualEnvironmentsEnd
  \/ SyncManifests \/ ListProjects \/ RequirementsInstallEnd
  \/ WriteBack \/ CodebaseVerificationEnd \/ HealthMatrix
  \/ \E p \in Projects :
       \/ NodeModules(p) \/ KeepVenv(p) \/ Recreate(p) \/ RemoveVenv(p) \/ BuildVenv(p)
       \/ InstallNode(p) \/ InstallPython(p) \/ UninstallVariants(p) \/ InstallVariant(p)
       \/ UpgradeNpm(p) \/ UpgradePython(p) \/ ValidateProject(p)

Spec == Init /\ [][Next]_vars

-----------------------------------------------------------------------------
(* Properties.                                                              *)

\* Type invariant.  While a run is under way last_status says "running", also
\* between its steps; an environment that is not valid holds nothing.
StepsTypeOK ==
  /\ [venv |-> venv, dists |-> dists, cv |-> cv, mods |-> mods, pkg |-> pkg, file |-> file] \in Workspaces
  /\ \A p \in Projects : venv[p] # "valid" => dists[p] = {} /\ cv[p] = "none"
  /\ host \in Hosts
  /\ options \in [full : BOOLEAN, clean : BOOLEAN, target : {"all"} \cup Projects]
  /\ step \in 0..7 /\ runs \in 0..MaxRuns /\ faults \in 0..MaxFaults
  /\ phase \in {"idle", "enter", "list", "next", "remove", "build", "python", "uninstall", "install"}
  /\ todo \in Seq(Targets)
  /\ seen.npm \cup failures \cup amiss \cup repulled \cup misprobed \subseteq Projects
  /\ step # 0 => last = "running"
  /\ step = 0 => /\ phase = "idle" /\ todo = <<>>
                 /\ last \in {"idle", "running", "success", "warning", "error", "failed"}

\* "The default run is non-destructive: valid venvs and node_modules are kept
\* ... Only clean=True deletes" (orchestrator.py:88-90), and only those of the
\* target, and never the environment that the server's executable resolves into;
\* RunningVenvKept says what that leaves out.  An interpreter that did not answer
\* in time counts as none: its environment is replaced in any run.
ValidVenvKept ==
  [][\A p \in Projects :
       /\ venv[p] = "valid" /\ venv'[p] # "valid" =>
            /\ p \in Targets /\ ~(p = Self /\ host.python = "inside")
            /\ options.clean \/ p \in misprobed
       /\ mods[p] = "whole" /\ mods'[p] = "none" => options.clean /\ p \in Targets]_vars

\* What a project is to have; a distribution is there, or another variant in
\* its place.
Wanted(p) == Central[p] \cup ({Preferred[p]} \cap OpenCV)
Has(p, d) == d \in dists[p] \/ (d \in OpenCV /\ dists[p] \cap OpenCV # {})

\* When a full run ends with "success", git is there, every managed project has
\* what it lists, and of a target no event complained of, step 3 to 5 did all
\* they are there for: its environment has what the central manifest lists; it
\* is fresh if the run was clean; and cv2 is the
\* preferred variant's, unless an upgrade brought another one.
SuccessIsHealthy ==
  step = 0 /\ options.full /\ last = "success" =>
    /\ "git" \in host.tools
    /\ \A p \in Nodes \cup {q \in NpmManifest : pkg[q]} : mods[p] # "none"
    /\ \A p \in Pythons : venv[p] = "valid" /\ \A d \in file[p].reqs : Has(p, d)
    /\ \A p \in (Pythons \cap Targets) \ amiss :
         /\ \A d \in Central[p] : Has(p, d)
         /\ options.clean => dists[p] \subseteq Brought(Wanted(p))
         /\ Preferred[p] # "none" /\ p \notin repulled => cv[p] = Preferred[p]

\* create_venv "refuses to replace the running interpreter's venv"
\* (venv_manager.py:215): while the server runs from Self's environment, through
\* a link or not, that environment stays.
RunningVenvKept ==
  [][host.python # "elsewhere" /\ venv[Self] = "valid" => venv'[Self] = "valid"]_vars

\* When step 6 comes to its verdict, it has seen every project of the target, and
\* says that all passed exactly when none of them is unsound: every file, text and
\* tool is as module SoundProject has it, and so is the changelog, or its audit
\* gave up.  The latter, grade "unaudited", is what models.py:65 rules out, "A
\* missing or broken tool must fail validation, never report a pass.": git may be
\* missing, break off or fail, and step 6 says that the project passed.
VerifiedMeansChecked ==
  step = 6 /\ phase = "next" /\ todo = <<>> =>
    /\ {v.project : v \in judged} = Targets
    /\ passed <=> \A v \in judged : v.grade # "unsound"
=============================================================================
