------------------------- MODULE PipelineStepsProofs -------------------------
(***************************************************************************)
(* What the steps of a pipeline do to a workspace of any projects,         *)
(* distributions and manifests, through any number of runs and failures.   *)
(* The invariant follows a full run through the projects of its target: a  *)
(* project that no event complained of is fresh after step 3, has a copy   *)
(* of its manifest before step 4 installs, and from then on has what its   *)
(* central manifest lists.                                                 *)
(*                                                                         *)
(* Then what validation establishes: the gates of module Validation, which *)
(* compute their findings, agree with module SoundProject, which says what *)
(* a sound project is.  The verdict of step 6 rests on that.               *)
(***************************************************************************)
EXTENDS PipelineSteps, WellFoundedInduction, FiniteSetTheorems, TLAPS

Begun == {"enter", "list"}  \* the phases of a step before its loop

\* The projects of the target that a full run has not complained of, and those
\* that the loop has yet to finish.
Watched == IF options.full THEN (Pythons \cap Targets) \ amiss ELSE {}
Ahead   == {todo[i] : i \in DOMAIN todo}

\* An environment is replaced for a reason, and never the running one.
Replacing ==
  phase \in {"remove", "build"} =>
    /\ todo # <<>> /\ ~Active(Head(todo))
    /\ options.clean \/ Head(todo) \in misprobed \/ venv[Head(todo)] # "valid"
    /\ phase = "build" => venv[Head(todo)] = "none"

\* Between its install and its variant of OpenCV, a project has the rest.
Swapping ==
  phase \in {"uninstall", "install"} =>
    /\ todo # <<>> /\ venv[Head(todo)] = "valid" /\ Preferred[Head(todo)] # "none"
    /\ Head(todo) \in Watched => Central[Head(todo)] \ OpenCV \subseteq dists[Head(todo)]

\* Step 4 installs from a copy of the central manifest.
Copied == step = 4 /\ phase # "enter" => \A p \in Watched : file[p] = File(Central[p])

\* A clean run installs into the environments that step 3 has made.
IsFresh(p) == dists[p] \subseteq Brought(Wanted(p))
Fresh ==
  /\ options.clean /\ step = 3 /\ phase # "enter" => \A p \in Watched \ Ahead : IsFresh(p)
  /\ options.clean /\ step > 3 => \A p \in Watched : IsFresh(p)

\* A project that step 4 is done with has what it is to have.
IsServed(p) ==
  /\ venv[p] = "valid"
  /\ \A d \in Central[p] : Has(p, d)
  /\ Preferred[p] # "none" /\ p \notin repulled => cv[p] = Preferred[p]
Served ==
  /\ step = 4 /\ phase \notin Begun => \A p \in Watched \ Ahead : IsServed(p)
  /\ step > 4 => \A p \in Watched : IsServed(p)

StepsInv == StepsTypeOK /\ Replacing /\ Swapping /\ Copied /\ Fresh /\ Served /\ SuccessIsHealthy

-----------------------------------------------------------------------------
(* The constants and the types.                                             *)

LEMMA ManagedFacts ==
  /\ Managed \in Seq(Projects) /\ "all" \notin Projects
  /\ Nodes \subseteq Projects /\ Pythons \subseteq Projects /\ NpmManifest \subseteq Projects
  BY StepsAssumption, Zenon DEF Pythons

LEMMA DistFacts ==
  ASSUME NEW p \in Projects
  PROVE  /\ OpenCV \subseteq Dists /\ "none" \notin OpenCV
         /\ Central[p] \subseteq Dists /\ Preferred[p] \in OpenCV \cup {"none"}
  BY StepsAssumption, Zenon

LEMMA PulledFacts ==
  ASSUME NEW d \in Dists
  PROVE  Pulled[d] \subseteq Dists /\ \A e \in Pulled[d] : Pulled[e] \subseteq Pulled[d]
  BY StepsAssumption, Zenon

\* What requirements bring, and that it brings nothing further.
LEMMA BroughtFacts ==
  ASSUME NEW ds \in SUBSET Dists
  PROVE  /\ ds \subseteq Brought(ds) /\ Brought(ds) \subseteq Dists
         /\ \A d \in Brought(ds) : Pulled[d] \subseteq Brought(ds)
         /\ \A more \in SUBSET Dists : ds \subseteq more => Brought(ds) \subseteq Brought(more)
  BY PulledFacts DEF Brought

LEMMA BroughtAgain ==
  ASSUME NEW ds \in SUBSET Dists, NEW few \in SUBSET Brought(ds)
  PROVE  Brought(few) \subseteq Brought(ds)
  <1>1. \A d \in few : Pulled[d] \subseteq Brought(ds)
    BY BroughtFacts
  <1>2. QED
    BY <1>1 DEF Brought

EnvTypes ==
  /\ venv \in [Projects -> {"none", "broken", "valid"}]
  /\ dists \in [Projects -> SUBSET Dists] /\ cv \in [Projects -> OpenCV \cup {"none"}]
  /\ \A p \in Projects : venv[p] # "valid" => dists[p] = {} /\ cv[p] = "none"

FileTypes ==
  /\ mods \in [Projects -> {"none", "part", "whole"}] /\ pkg \in [Projects -> BOOLEAN]
  /\ file \in [Projects -> [listed : BOOLEAN, reqs : SUBSET Dists]]

PlaceTypes ==
  /\ host \in Hosts
  /\ options \in [full : BOOLEAN, clean : BOOLEAN, target : {"all"} \cup Projects]
  /\ step \in 0..7 /\ runs \in 0..MaxRuns
  /\ phase \in {"idle", "enter", "list", "next", "remove", "build", "python", "uninstall", "install"}
  /\ todo \in Seq(Targets)
  /\ step # 0 => last = "running"
  /\ step = 0 => /\ phase = "idle" /\ todo = <<>>
                 /\ last \in {"idle", "running", "success", "warning", "error", "failed"}

TrailTypes ==
  /\ faults \in 0..MaxFaults
  /\ seen.npm \cup failures \cup amiss \cup repulled \cup misprobed \subseteq Projects

LEMMA TypeParts == StepsTypeOK <=> EnvTypes /\ FileTypes /\ PlaceTypes /\ TrailTypes
  BY DEF StepsTypeOK, Workspaces, EnvTypes, FileTypes, PlaceTypes, TrailTypes

LEMMA NextTypeParts == StepsTypeOK' <=> EnvTypes' /\ FileTypes' /\ PlaceTypes' /\ TrailTypes'
  BY TypeParts, PTL

\* discover_projects gives the projects of the target.
LEMMA ScopeFacts ==
  ASSUME PlaceTypes
  PROVE  Scope \in Seq(Targets) /\ Targets \subseteq Projects
  <1>1. CASE options.target = "all"
    BY <1>1, ManagedFacts DEF Scope, Targets, Projects
  <1>2. CASE options.target # "all"
    <2>1. PICK t \in Projects : t = options.target
      BY <1>2, Zenon DEF PlaceTypes
    <2>2. Scope = <<t>>
      BY <1>2, <2>1 DEF Scope
    <2>3. Targets = {t}
      BY <2>2 DEF Targets
    <2>4. QED
      BY <2>1, <2>2, <2>3
  <1>3. QED
    BY <1>1, <1>2

\* The loop: the project at hand, and those after it.
LEMMA LoopFacts ==
  ASSUME NEW S, NEW s \in Seq(S), s # <<>>
  PROVE  /\ Head(s) \in S /\ Tail(s) \in Seq(S)
         /\ {s[i] : i \in DOMAIN s} = {Head(s)} \cup {Tail(s)[i] : i \in DOMAIN Tail(s)}
  <1>1. /\ Len(s) \in Nat \ {0} /\ Head(s) = s[1] /\ Head(s) \in S /\ Tail(s) \in Seq(S)
        /\ DOMAIN s = 1..Len(s) /\ DOMAIN Tail(s) = 1..(Len(s) - 1)
        /\ \A i \in 1..(Len(s) - 1) : Tail(s)[i] = s[i + 1]
    OBVIOUS
  <1>2. ASSUME NEW i \in DOMAIN s
        PROVE  s[i] \in {Head(s)} \cup {Tail(s)[j] : j \in DOMAIN Tail(s)}
    <2>1. CASE i = 1
      BY <2>1, <1>1
    <2>2. CASE i # 1
      <3>1. i - 1 \in 1..(Len(s) - 1) /\ Tail(s)[i - 1] = s[i]
        BY <2>2, <1>1, <1>2
      <3>2. QED
        BY <3>1, <1>1
    <2>3. QED
      BY <2>1, <2>2
  <1>3. ASSUME NEW j \in DOMAIN Tail(s) PROVE Tail(s)[j] \in {s[i] : i \in DOMAIN s}
    <2>1. j + 1 \in 1..Len(s) /\ Tail(s)[j] = s[j + 1]
      BY <1>1, <1>3
    <2>2. QED
      BY <2>1, <1>1
  <1>4. QED
    BY <1>1, <1>2, <1>3, SMTT(30)

LEMMA OneLess ==
  ASSUME StepsTypeOK, todo # <<>>
  PROVE  todo # Tail(todo)
  <1>1. todo \in Seq(Targets)
    BY TypeParts DEF PlaceTypes
  <1>2. Len(Tail(todo)) # Len(todo)
    BY <1>1
  <1>3. QED
    BY <1>2

-----------------------------------------------------------------------------
(* What a run is left with when it goes on.                                 *)

LEMMA WatchedFacts ==
  ASSUME PlaceTypes
  PROVE  /\ Watched \subseteq Pythons /\ Watched \subseteq Targets /\ Watched \subseteq Projects
         /\ Watched \cap amiss = {} /\ (~options.full => Watched = {})
  BY ScopeFacts DEF Watched

\* A project is handled in the loop of a step: what is known of the others stays.
LEMMA OneProject ==
  ASSUME StepsInv, StepsTypeOK', NEW p \in Projects,
         step \in 3..6, step' = step, phase \notin Begun, phase' \notin Begun,
         todo # <<>>, p = Head(todo), todo' \in {todo, Tail(todo)},
         options' = options, file' = file, amiss \subseteq amiss', repulled \subseteq repulled',
         \A q \in Projects : q # p =>
           venv'[q] = venv[q] /\ dists'[q] = dists[q] /\ cv'[q] = cv[q],
         Replacing', Swapping',
         p \in Watched' /\ options.clean /\ (step = 3 => todo' = Tail(todo)) => IsFresh(p)',
         p \in Watched' /\ step > 3 /\ (step = 4 => todo' = Tail(todo)) => IsServed(p)'
  PROVE  StepsInv'
  <1>1. /\ StepsTypeOK /\ Copied /\ Fresh /\ Served
        /\ PlaceTypes /\ PlaceTypes'
    BY TypeParts, NextTypeParts DEF StepsInv
  <1>2. Watched' \subseteq Watched /\ Watched' \subseteq Projects
    <2>1. Targets' = Targets
      BY DEF Targets, Scope
    <2>2. Watched' \subseteq Watched
      BY <2>1 DEF Watched
    <2>3. QED
      BY <1>1, <2>2, WatchedFacts
  <1>3. Ahead \subseteq {p} \cup Ahead'
    <2>1. todo \in Seq(Targets)
      BY <1>1 DEF PlaceTypes
    <2>2. Ahead = {p} \cup {Tail(todo)[i] : i \in DOMAIN Tail(todo)}
      BY <2>1, LoopFacts, Zenon DEF Ahead
    <2>3. CASE todo' = todo
      BY <2>3 DEF Ahead
    <2>4. CASE todo' = Tail(todo)
      <3>1. Ahead' = {Tail(todo)[i] : i \in DOMAIN Tail(todo)}
        BY <2>4, Zenon DEF Ahead
      <3>2. QED
        BY <2>2, <3>1, Zenon
    <2>5. QED
      BY <2>3, <2>4
  <1>4. ASSUME NEW q \in Projects, q # p
        PROVE  (IsFresh(q) => IsFresh(q)') /\ (IsServed(q) => IsServed(q)')
    BY <1>4 DEF IsFresh, IsServed, Has
  <1>5. Copied'
    <2>1. SUFFICES ASSUME step = 4, NEW q \in Watched' PROVE file'[q] = File(Central[q])
      BY DEF Copied
    <2>2. QED
      BY <1>1, <1>2, <2>1 DEF Copied, Begun
  <1>6. Fresh'
    <2>1. ASSUME options.clean, NEW q \in Watched', step = 3 => q \notin Ahead'
          PROVE  IsFresh(q)'
      <3>1. CASE q # p
        BY <1>1, <1>2, <1>3, <1>4, <2>1, <3>1 DEF Fresh, Begun
      <3>2. CASE q = p
        <4>1. step = 3 => todo' = Tail(todo)
          <5>1. todo \in Seq(Targets)
            BY <1>1 DEF PlaceTypes
          <5>2. p \in Ahead
            BY <5>1, LoopFacts DEF Ahead
          <5>3. QED
            BY <5>2, <2>1, <3>2 DEF Ahead
        <4>2. QED
          BY <4>1, <2>1, <3>2
      <3>3. QED
        BY <3>1, <3>2
    <2>2. QED
      BY <2>1 DEF Fresh
  <1>7. Served'
    <2>1. ASSUME NEW q \in Watched', step > 3, step = 4 => q \notin Ahead'
          PROVE  IsServed(q)'
      <3>1. CASE q # p
        BY <1>1, <1>2, <1>3, <1>4, <2>1, <3>1 DEF Served
      <3>2. CASE q = p
        <4>1. step = 4 => todo' = Tail(todo)
          <5>1. todo \in Seq(Targets)
            BY <1>1 DEF PlaceTypes
          <5>2. p \in Ahead
            BY <5>1, LoopFacts DEF Ahead
          <5>3. QED
            BY <5>2, <2>1, <3>2 DEF Ahead
        <4>2. QED
          BY <4>1, <2>1, <3>2
      <3>3. QED
        BY <3>1, <3>2
    <2>2. QED
      BY <2>1 DEF Served
  <1>8. SuccessIsHealthy'
    BY DEF SuccessIsHealthy
  <1>9. QED
    BY <1>5, <1>6, <1>7, <1>8 DEF StepsInv

\* A step ends whose loop, if it has one, is through.
LEMMA StepEnds ==
  ASSUME StepsInv, StepsTypeOK', NEW status, step \in 1..6, EndStep(status),
         step > 2 => phase = "next" /\ todo = <<>>,
         UNCHANGED <<options, envs, amiss, repulled>>
  PROVE  StepsInv'
  <1>1. /\ StepsTypeOK /\ Fresh /\ Served /\ PlaceTypes /\ PlaceTypes'
    BY TypeParts, NextTypeParts DEF StepsInv
  <1>2. Watched' = Watched /\ (~options.full => Watched = {})
    BY <1>1, WatchedFacts DEF Watched, Targets, Scope
  <1>3. \A q \in Projects : (IsFresh(q) => IsFresh(q)') /\ (IsServed(q) => IsServed(q)')
    BY DEF IsFresh, IsServed, Has, envs
  <1>4. step > 2 => Ahead = {}
    BY DEF Ahead
  <1>5. Watched \subseteq Projects
    BY <1>1, WatchedFacts
  <1>6. Replacing' /\ Swapping'
    BY DEF EndStep, Replacing, Swapping
  <1>7. CASE options.full
    <2>1. step' = step + 1 /\ phase' = "enter"
      BY <1>7 DEF EndStep
    <2>2. Copied'
      BY <2>1 DEF Copied
    <2>3. Fresh'
      <3>1. SUFFICES ASSUME options.clean, step > 2 PROVE \A q \in Watched : IsFresh(q)'
        BY <1>2, <2>1 DEF Fresh
      <3>2. QED
        BY <1>1, <1>3, <1>4, <1>5, <3>1 DEF Fresh
    <2>4. Served'
      <3>1. SUFFICES ASSUME step > 3 PROVE \A q \in Watched : IsServed(q)'
        BY <1>2, <2>1 DEF Served, Begun
      <3>2. QED
        BY <1>1, <1>3, <1>4, <1>5, <3>1 DEF Served, Begun
    <2>5. SuccessIsHealthy'
      BY <2>1 DEF SuccessIsHealthy
    <2>6. QED
      BY <1>6, <2>2, <2>3, <2>4, <2>5 DEF StepsInv
  <1>8. CASE ~options.full
    BY <1>2, <1>6, <1>8 DEF Copied, Fresh, Served, SuccessIsHealthy, StepsInv
  <1>9. QED
    BY <1>7, <1>8

\* SetEnv touches one environment.
LEMMA EnvSet ==
  ASSUME EnvTypes, NEW p \in Projects, NEW v \in {"none", "broken", "valid"},
         NEW ds \in SUBSET Dists, NEW files \in OpenCV \cup {"none"},
         v # "valid" => ds = {} /\ files = "none", SetEnv(p, v, ds, files)
  PROVE  /\ EnvTypes' /\ venv'[p] = v /\ dists'[p] = ds /\ cv'[p] = files
         /\ \A q \in Projects : q # p =>
              venv'[q] = venv[q] /\ dists'[q] = dists[q] /\ cv'[q] = cv[q]
  BY DEF EnvTypes, SetEnv

\* An environment of a type, with what is known of a valid one.
LEMMA EnvAt ==
  ASSUME EnvTypes, NEW p \in Projects
  PROVE  /\ venv[p] \in {"none", "broken", "valid"} /\ dists[p] \in SUBSET Dists
         /\ cv[p] \in OpenCV \cup {"none"}
         /\ venv[p] # "valid" => dists[p] = {} /\ cv[p] = "none"
  BY DEF EnvTypes

Looping == {"next", "remove", "build", "python", "uninstall", "install"}
Handled(p) == step \in 3..6 /\ phase \in Looping /\ todo # <<>> /\ p = Head(todo)
MovesOn    == NextProject \/ \E ph \in Looping : GoOn(ph)

\* In a loop only the project at hand is complained of, once.
LEMMA LoopTypes ==
  ASSUME StepsTypeOK, NEW p \in Projects, Handled(p), MovesOn, EnvTypes',
         mods' \in [Projects -> {"none", "part", "whole"}],
         UNCHANGED <<host, options, runs, pkg, file, seen>>, Well \/ Fault,
         failures' \subseteq failures \cup {p}, amiss' \subseteq amiss \cup {p},
         repulled' \subseteq repulled \cup {p}, misprobed' \subseteq misprobed \cup {p}
  PROVE  StepsTypeOK'
  <1>1. FileTypes /\ PlaceTypes /\ TrailTypes
    BY TypeParts
  <1>2. FileTypes'
    BY <1>1 DEF FileTypes
  <1>3. PlaceTypes'
    <2>1. Targets' = Targets
      BY DEF Targets, Scope
    <2>2. todo \in Seq(Targets) /\ todo' \in {todo, Tail(todo)} /\ step' = step /\ last' = last
      BY <1>1 DEF PlaceTypes, MovesOn, NextProject, GoOn
    <2>3. todo' \in Seq(Targets')
      <3>1. Tail(todo) \in Seq(Targets)
        BY <2>2, LoopFacts DEF Handled
      <3>2. QED
        BY <2>1, <2>2, <3>1
    <2>4. phase' \in Looping
      BY DEF MovesOn, NextProject, GoOn, Looping
    <2>5. step # 0
      BY DEF Handled
    <2>6. QED
      BY <1>1, <2>2, <2>3, <2>4, <2>5 DEF PlaceTypes, Looping
  <1>4. TrailTypes'
    <2>1. faults' \in 0..MaxFaults
      <3>1. MaxFaults \in Nat
        BY StepsAssumption
      <3>2. QED
        BY <1>1, <3>1 DEF TrailTypes, Well, Fault
    <2>2. QED
      BY <1>1, <2>1 DEF TrailTypes
  <1>5. QED
    BY <1>2, <1>3, <1>4, NextTypeParts

-----------------------------------------------------------------------------
(* Step 3.                                                                  *)

LEMMA NodeModulesKeeps ==
  ASSUME StepsInv, NEW p \in Projects, NodeModules(p)
  PROVE  StepsInv'
  <1>1. Handled(p) /\ MovesOn /\ StepsTypeOK /\ EnvTypes
    BY TypeParts DEF NodeModules, At, Handled, Looping, MovesOn, StepsInv
  <1>2. EnvTypes' /\ file' = file /\ options' = options
    BY <1>1 DEF NodeModules, EnvTypes, envs
  <1>3. mods' \in [Projects -> {"none", "part", "whole"}]
    BY <1>1, TypeParts DEF NodeModules, FileTypes
  <1>4. StepsTypeOK'
    BY <1>1, <1>2, <1>3, LoopTypes DEF NodeModules, Complain
  <1>5. Replacing' /\ Swapping' /\ phase' = "next" /\ step' = step /\ step = 3 /\ todo' = Tail(todo)
    BY DEF NodeModules, NextProject, At, Replacing, Swapping
  <1>6. p \notin Watched'
    BY DEF NodeModules, Watched, Pythons
  <1>7. QED
    BY <1>1, <1>2, <1>4, <1>5, <1>6, OneProject DEF NodeModules, envs, Complain, Handled, Begun, Looping

LEMMA KeepVenvKeeps ==
  ASSUME StepsInv, NEW p \in Projects, KeepVenv(p)
  PROVE  StepsInv'
  <1>1. Handled(p) /\ MovesOn /\ StepsTypeOK /\ EnvTypes
    BY TypeParts DEF KeepVenv, At, Handled, Looping, MovesOn, StepsInv
  <1>2. EnvTypes' /\ file' = file /\ options' = options /\ mods' = mods
    BY <1>1 DEF KeepVenv, EnvTypes, workspace
  <1>3. mods' \in [Projects -> {"none", "part", "whole"}]
    BY <1>1, <1>2, TypeParts DEF FileTypes
  <1>4. StepsTypeOK'
    BY <1>1, <1>2, <1>3, LoopTypes DEF KeepVenv, Complain, workspace, Sees
  <1>5. Replacing' /\ Swapping' /\ phase' = "next" /\ step' = step /\ step = 3 /\ todo' = Tail(todo)
    BY DEF KeepVenv, NextProject, At, Replacing, Swapping
  <1>6. options.clean => p \notin Watched'
    BY DEF KeepVenv, Complain, Watched
  <1>7. UNCHANGED envs /\ amiss \subseteq amiss' /\ repulled' = repulled
    BY DEF KeepVenv, workspace, Complain, envs
  <1>8. QED
    BY <1>1, <1>2, <1>4, <1>5, <1>6, <1>7, OneProject DEF Handled, Begun, Looping, envs

LEMMA RecreateKeeps ==
  ASSUME StepsInv, NEW p \in Projects, Recreate(p)
  PROVE  StepsInv'
  <1>1. Handled(p) /\ MovesOn /\ StepsTypeOK /\ EnvTypes
    BY TypeParts DEF Recreate, At, Handled, Looping, MovesOn, StepsInv
  <1>2. EnvTypes' /\ file' = file /\ options' = options /\ mods' = mods
    BY <1>1 DEF Recreate, EnvTypes, workspace
  <1>3. mods' \in [Projects -> {"none", "part", "whole"}]
    BY <1>1, <1>2, TypeParts DEF FileTypes
  <1>4. StepsTypeOK'
    BY <1>1, <1>2, <1>3, LoopTypes DEF Recreate, workspace, Sees
  <1>5. phase' = "remove" /\ step' = step /\ step = 3 /\ todo' = todo
    BY DEF Recreate, GoOn, At
  <1>6. Replacing' /\ Swapping'
    BY <1>5 DEF Recreate, At, Sees, Active, workspace, Replacing, Swapping
  <1>7. todo' # Tail(todo)
    BY <1>1, <1>5, OneLess DEF Handled
  <1>8. QED
    BY <1>1, <1>2, <1>4, <1>5, <1>6, <1>7, OneProject DEF Recreate, workspace, Handled, Begun, Looping

LEMMA RemoveVenvKeeps ==
  ASSUME StepsInv, NEW p \in Projects, RemoveVenv(p)
  PROVE  StepsInv'
  <1>1. Handled(p) /\ MovesOn /\ StepsTypeOK /\ EnvTypes
    BY TypeParts DEF RemoveVenv, At, Handled, Looping, MovesOn, StepsInv
  <1>2. /\ EnvTypes' /\ file' = file /\ options' = options /\ mods' = mods
        /\ \A q \in Projects : q # p =>
             venv'[q] = venv[q] /\ dists'[q] = dists[q] /\ cv'[q] = cv[q]
    <2>1. CASE UNCHANGED envs
      BY <1>1, <2>1 DEF RemoveVenv, envs, EnvTypes
    <2>2. CASE \E v \in {"none", "broken"} : SetEnv(p, v, {}, "none")
      BY <1>1, <2>2, EnvSet DEF RemoveVenv
    <2>3. QED
      BY <2>1, <2>2 DEF RemoveVenv
  <1>3. mods' \in [Projects -> {"none", "part", "whole"}]
    BY <1>1, <1>2, TypeParts DEF FileTypes
  <1>4. StepsTypeOK'
    BY <1>1, <1>2, <1>3, LoopTypes DEF RemoveVenv, Complain
  <1>5. step' = step /\ step = 3 /\ phase' \in {"next", "build"} /\ todo' \in {todo, Tail(todo)}
    BY DEF RemoveVenv, NextProject, GoOn, At
  <1>6. Replacing' /\ Swapping'
    <2>1. CASE phase' = "next"
      BY <2>1 DEF Replacing, Swapping
    <2>2. CASE phase' = "build"
      <3>1. SetEnv(p, "none", {}, "none") /\ todo' = todo
        BY <2>2 DEF RemoveVenv, NextProject, GoOn
      <3>2. venv'[p] = "none"
        BY <1>1, <3>1, EnvSet
      <3>3. ~Active(p)
        BY DEF RemoveVenv, At, StepsInv, Replacing
      <3>4. QED
        BY <1>1, <2>2, <3>1, <3>2, <3>3 DEF Handled, Replacing, Swapping, Active, RemoveVenv
    <2>3. QED
      BY <1>5, <2>1, <2>2
  <1>7. todo # Tail(todo)
    BY <1>1, OneLess DEF Handled
  <1>8. p \in Watched' => todo' = todo
    BY DEF RemoveVenv, GoOn, Complain, Watched
  <1>9. UNCHANGED repulled /\ amiss \subseteq amiss'
    BY DEF RemoveVenv, Complain
  <1>10. QED
    BY <1>1, <1>2, <1>4, <1>5, <1>6, <1>7, <1>8, <1>9, OneProject DEF Handled, Begun, Looping

LEMMA BuildVenvKeeps ==
  ASSUME StepsInv, NEW p \in Projects, BuildVenv(p)
  PROVE  StepsInv'
  <1>1. Handled(p) /\ MovesOn /\ StepsTypeOK /\ EnvTypes
    BY TypeParts DEF BuildVenv, At, Handled, Looping, MovesOn, StepsInv
  <1>2. PICK v \in {"none", "broken", "valid"} : SetEnv(p, v, {}, "none")
    BY DEF BuildVenv
  <1>3. /\ EnvTypes' /\ dists'[p] = {} /\ file' = file /\ options' = options /\ mods' = mods
        /\ \A q \in Projects : q # p =>
             venv'[q] = venv[q] /\ dists'[q] = dists[q] /\ cv'[q] = cv[q]
    BY <1>1, <1>2, EnvSet DEF BuildVenv
  <1>4. mods' \in [Projects -> {"none", "part", "whole"}]
    BY <1>1, <1>3, TypeParts DEF FileTypes
  <1>5. StepsTypeOK'
    BY <1>1, <1>3, <1>4, LoopTypes DEF BuildVenv, Complain
  <1>6. step' = step /\ step = 3 /\ phase' = "next" /\ todo' = Tail(todo)
    BY DEF BuildVenv, NextProject, At
  <1>7. Replacing' /\ Swapping'
    BY <1>6 DEF Replacing, Swapping
  <1>8. IsFresh(p)' /\ UNCHANGED repulled /\ amiss \subseteq amiss'
    BY <1>3 DEF IsFresh, BuildVenv, Complain
  <1>9. QED
    BY <1>1, <1>3, <1>5, <1>6, <1>7, <1>8, OneProject DEF Handled, Begun, Looping

-----------------------------------------------------------------------------
(* Step 4.                                                                  *)

\* Before the loop is done with a project, it is watched unless complained of.
LEMMA StaysWatched ==
  ASSUME NEW p \in Projects, options' = options, amiss \subseteq amiss', p \in Watched'
  PROVE  p \in Watched /\ (amiss' = amiss \cup {p} => FALSE)
  BY DEF Watched, Targets, Scope

LEMMA InstallNodeKeeps ==
  ASSUME StepsInv, NEW p \in Projects, InstallNode(p)
  PROVE  StepsInv'
  <1>1. Handled(p) /\ MovesOn /\ StepsTypeOK /\ EnvTypes
    BY TypeParts DEF InstallNode, At, Handled, Looping, MovesOn, StepsInv
  <1>2. EnvTypes' /\ UNCHANGED <<envs, file, options>>
    BY <1>1 DEF InstallNode, EnvTypes, envs
  <1>3. mods' \in [Projects -> {"none", "part", "whole"}]
    BY <1>1, TypeParts DEF InstallNode, FileTypes
  <1>4. StepsTypeOK'
    BY <1>1, <1>2, <1>3, LoopTypes DEF InstallNode, InstallFails, Complain
  <1>5. Replacing' /\ Swapping' /\ phase' = "python" /\ step' = step /\ step = 4 /\ todo' = todo
    BY DEF InstallNode, GoOn, At, Replacing, Swapping
  <1>6. p \notin Watched'
    BY DEF InstallNode, Watched, Pythons
  <1>7. UNCHANGED repulled /\ amiss \subseteq amiss'
    BY DEF InstallNode, InstallFails, Complain
  <1>8. QED
    BY <1>1, <1>2, <1>4, <1>5, <1>6, <1>7, OneProject DEF envs, Handled, Begun, Looping

\* The missing requirements of a project, and what an install makes of it.
LEMMA MissingFacts ==
  ASSUME StepsTypeOK, NEW p \in Projects, NEW got \in SUBSET (Brought(file[p].reqs) \ dists[p]),
         NEW files \in Over(p, got)
  PROVE  dists[p] \cup got \in SUBSET Dists /\ files \in OpenCV \cup {"none"}
  <1>1. file[p].reqs \in SUBSET Dists /\ EnvTypes
    BY TypeParts DEF FileTypes
  <1>2. Brought(file[p].reqs) \subseteq Dists
    BY <1>1, BroughtFacts
  <1>3. dists[p] \in SUBSET Dists /\ cv[p] \in OpenCV \cup {"none"}
    BY <1>1, EnvAt
  <1>4. QED
    BY <1>2, <1>3 DEF Over

\* A pip that broke off leaves a valid environment.
LEMMA BrokenOff ==
  ASSUME EnvTypes, NEW p \in Projects, NEW ds \in SUBSET Dists, BreaksOff(p, ds)
  PROVE  /\ EnvTypes' /\ venv'[p] = "valid"
         /\ \A q \in Projects : q # p =>
              venv'[q] = venv[q] /\ dists'[q] = dists[q] /\ cv'[q] = cv[q]
  <1>1. dists[p] \in SUBSET Dists /\ cv[p] \in OpenCV \cup {"none"}
    BY EnvAt
  <1>2. PICK left \in SUBSET (dists[p] \cup ds) :
          \E files \in IF ds \cap OpenCV = {} THEN {cv[p]} ELSE {"none"} \cup (left \cap OpenCV) :
            SetEnv(p, "valid", left, files)
    BY DEF BreaksOff
  <1>3. PICK files \in IF ds \cap OpenCV = {} THEN {cv[p]} ELSE {"none"} \cup (left \cap OpenCV) :
          SetEnv(p, "valid", left, files)
    BY <1>2
  <1>4. left \in SUBSET Dists /\ files \in OpenCV \cup {"none"}
    BY <1>1, <1>2, <1>3
  <1>5. QED
    BY <1>3, <1>4, EnvSet

\* What pip leaves of the requirements it was handed: nothing, all or a part.
LEMMA InstallTypes ==
  ASSUME StepsTypeOK, NEW p \in Projects, Handled(p), MovesOn, InstallPython(p)
  PROVE  /\ StepsTypeOK' /\ UNCHANGED <<options, file, repulled>> /\ amiss \subseteq amiss'
         /\ \A q \in Projects : q # p =>
              venv'[q] = venv[q] /\ dists'[q] = dists[q] /\ cv'[q] = cv[q]
  <1>1. EnvTypes /\ UNCHANGED <<options, file, repulled, mods>> /\ amiss \subseteq amiss'
    BY TypeParts DEF InstallPython, InstallFails, Complain
  <1>2. /\ EnvTypes'
        /\ \A q \in Projects : q # p =>
             venv'[q] = venv[q] /\ dists'[q] = dists[q] /\ cv'[q] = cv[q]
    <2>1. CASE UNCHANGED envs
      BY <1>1, <2>1 DEF envs, EnvTypes
    <2>2. CASE \E got \in SUBSET (Brought(file[p].reqs) \ dists[p]) : \E files \in Over(p, got) :
                 SetEnv(p, "valid", dists[p] \cup got, files)
      <3>1. PICK got \in SUBSET (Brought(file[p].reqs) \ dists[p]) :
              \E files \in Over(p, got) : SetEnv(p, "valid", dists[p] \cup got, files)
        BY <2>2
      <3>files. PICK files \in Over(p, got) : SetEnv(p, "valid", dists[p] \cup got, files)
        BY <3>1
      <3>2. dists[p] \cup got \in SUBSET Dists /\ files \in OpenCV \cup {"none"}
        BY MissingFacts
      <3>3. QED
        BY <1>1, <3>files, <3>2, EnvSet
    <2>3. CASE BreaksOff(p, Brought(file[p].reqs))
      <3>1. file[p].reqs \in SUBSET Dists
        BY TypeParts DEF FileTypes
      <3>2. PICK ds \in SUBSET Dists : ds = Brought(file[p].reqs)
        BY <3>1, BroughtFacts
      <3>3. BreaksOff(p, ds)
        BY <2>3, <3>2
      <3>4. QED
        BY <1>1, <3>3, BrokenOff
    <2>4. QED
      BY <2>1, <2>2, <2>3, Zenon DEF InstallPython
  <1>3. mods' \in [Projects -> {"none", "part", "whole"}]
    BY <1>1, TypeParts DEF FileTypes
  <1>4. StepsTypeOK'
    <2>1. /\ UNCHANGED <<host, options, runs, pkg, file, seen>> /\ (Well \/ Fault)
          /\ failures' \subseteq failures \cup {p} /\ amiss' \subseteq amiss \cup {p}
          /\ repulled' \subseteq repulled \cup {p} /\ misprobed' \subseteq misprobed \cup {p}
      BY DEF InstallPython, InstallFails, Complain, Sees
    <2>2. QED
      BY <1>2, <1>3, <2>1, LoopTypes
  <1>5. QED
    BY <1>1, <1>2, <1>4

\* A watched project gets everything that its central manifest brings.
LEMMA InstallBrings ==
  ASSUME StepsInv, NEW p \in Projects, InstallPython(p), p \in Watched'
  PROVE  /\ venv'[p] = "valid" /\ Central[p] \subseteq dists'[p] /\ (options.clean => IsFresh(p)')
         /\ IF Preferred[p] # "none" THEN GoOn("uninstall") ELSE NextProject
  <1>1. p \in Watched /\ ~Complain(p) /\ step = 4 /\ phase \in Looping
    BY DEF InstallPython, InstallFails, Complain, Watched, Targets, Scope, At, Looping
  <1>2. file[p] = File(Central[p])
    BY <1>1 DEF StepsInv, Copied, Looping
  <1>3. file[p].listed /\ file[p].reqs = Central[p]
    BY <1>2 DEF File
  <1>4. PICK missing : missing = Brought(Central[p]) \ dists[p]
    OBVIOUS
  <1>5. PICK files \in Over(p, missing) : SetEnv(p, "valid", dists[p] \cup missing, files)
    BY <1>1, <1>3, <1>4 DEF InstallPython, InstallFails
  <1>6. EnvTypes /\ StepsTypeOK
    BY TypeParts DEF StepsInv
  <1>7. dists[p] \cup missing \in SUBSET Dists /\ files \in OpenCV \cup {"none"}
    BY <1>3, <1>4, <1>5, <1>6, MissingFacts
  <1>8. venv'[p] = "valid" /\ dists'[p] = dists[p] \cup missing
    BY <1>5, <1>6, <1>7, EnvSet
  <1>9. Central[p] \subseteq Brought(Central[p])
    BY DistFacts, BroughtFacts
  <1>10. ASSUME options.clean PROVE IsFresh(p)'
    <2>1. dists[p] \subseteq Brought(Wanted(p))
      BY <1>1, <1>10 DEF StepsInv, Fresh, IsFresh
    <2>2. Central[p] \in SUBSET Dists /\ Wanted(p) \in SUBSET Dists /\ Central[p] \subseteq Wanted(p)
      BY DistFacts DEF Wanted
    <2>3. Brought(Central[p]) \subseteq Brought(Wanted(p))
      BY <2>2, BroughtFacts
    <2>4. QED
      BY <1>4, <1>8, <2>1, <2>3 DEF IsFresh
  <1>11. IF Preferred[p] # "none" THEN GoOn("uninstall") ELSE NextProject
    BY <1>1, <1>3 DEF InstallPython, InstallFails
  <1>12. QED
    BY <1>4, <1>8, <1>9, <1>10, <1>11

LEMMA InstallPythonKeeps ==
  ASSUME StepsInv, NEW p \in Projects, InstallPython(p)
  PROVE  StepsInv'
  <1>1. Handled(p) /\ MovesOn /\ StepsTypeOK /\ step = 4
    <2>1. NextProject \/ GoOn("uninstall")
      BY DEF InstallPython
    <2>2. MovesOn
      BY <2>1 DEF MovesOn, Looping
    <2>3. QED
      BY <2>2 DEF InstallPython, At, Handled, Looping, StepsInv
  <1>2. /\ step' = step /\ phase' \in {"next", "uninstall"}
        /\ phase' = "next" => todo' = Tail(todo)
        /\ phase' = "uninstall" => todo' = todo /\ Preferred[p] # "none"
    BY DEF InstallPython, NextProject, GoOn
  <1>3. phase' = "uninstall" => venv'[p] = "valid"
    <2>1. SUFFICES ASSUME phase' = "uninstall" PROVE venv'[p] = "valid"
      OBVIOUS
    <2>2. \E got \in SUBSET (Brought(file[p].reqs) \ dists[p]) : \E files \in Over(p, got) :
            SetEnv(p, "valid", dists[p] \cup got, files)
      BY <2>1 DEF InstallPython, NextProject
    <2>3. QED
      BY <1>1, <2>2, TypeParts DEF SetEnv, EnvTypes
  <1>4. Replacing' /\ Swapping'
    <2>1. CASE phase' = "next"
      BY <2>1 DEF Replacing, Swapping
    <2>2. CASE phase' = "uninstall"
      <3>1. todo' # <<>> /\ Head(todo') = p
        BY <1>1, <1>2, <2>2 DEF Handled
      <3>2. p \in Watched' => Central[p] \ OpenCV \subseteq dists'[p]
        BY InstallBrings
      <3>3. QED
        BY <1>2, <1>3, <2>2, <3>1, <3>2 DEF Replacing, Swapping
    <2>3. QED
      BY <1>2, <2>1, <2>2
  <1>5. p \in Watched' /\ options.clean => IsFresh(p)'
    BY InstallBrings
  <1>6. ASSUME p \in Watched', todo' = Tail(todo) PROVE IsServed(p)'
    <2>1. todo # Tail(todo)
      BY <1>1, OneLess DEF Handled
    <2>2. Preferred[p] = "none" /\ venv'[p] = "valid" /\ Central[p] \subseteq dists'[p]
      BY <1>6, <2>1, InstallBrings DEF GoOn
    <2>3. QED
      BY <2>2 DEF IsServed, Has
  <1>7. QED
    BY <1>1, <1>2, <1>4, <1>5, <1>6, InstallTypes, OneProject DEF Handled, Begun, Looping

\* What is left of the variants of OpenCV, and of the rest.
LEMMA UninstallLeaves ==
  ASSUME StepsInv, NEW p \in Projects, UninstallVariants(p)
  PROVE  /\ EnvTypes' /\ venv'[p] = "valid" /\ Preferred[p] # "none"
         /\ dists'[p] \subseteq dists[p] /\ dists[p] \ OpenCV \subseteq dists'[p]
         /\ \A q \in Projects : q # p =>
              venv'[q] = venv[q] /\ dists'[q] = dists[q] /\ cv'[q] = cv[q]
  <1>1. EnvTypes /\ venv[p] = "valid" /\ Preferred[p] # "none"
    BY TypeParts DEF StepsInv, Swapping, UninstallVariants, At
  <1>2. dists[p] \in SUBSET Dists /\ cv[p] \in OpenCV \cup {"none"}
    BY <1>1, EnvAt
  <1>3. CASE UNCHANGED envs
    BY <1>1, <1>3 DEF envs, EnvTypes
  <1>4. CASE ~UNCHANGED envs
    <2>1. PICK gone \in SUBSET OpenCV, files \in {cv[p], "none"} :
            SetEnv(p, venv[p], dists[p] \ gone, files)
      <3>1. PICK undesired : undesired = (dists[p] \cap OpenCV) \ {Preferred[p]}
        OBVIOUS
      <3>2. CASE SetEnv(p, venv[p], dists[p] \ undesired, IF undesired = {} THEN cv[p] ELSE "none")
        BY <3>1, <3>2
      <3>3. CASE \E gone \in SUBSET undesired :
                   SetEnv(p, venv[p], dists[p] \ gone, IF gone = {} THEN cv[p] ELSE "none")
        <4>1. PICK gone \in SUBSET undesired :
                SetEnv(p, venv[p], dists[p] \ gone, IF gone = {} THEN cv[p] ELSE "none")
          BY <3>3
        <4>2. QED
          BY <3>1, <4>1
      <3>4. QED
        BY <1>4, <3>1, <3>2, <3>3, Zenon DEF UninstallVariants
    <2>2. dists[p] \ gone \in SUBSET Dists /\ files \in OpenCV \cup {"none"}
      BY <1>2
    <2>3. QED
      BY <1>1, <2>1, <2>2, EnvSet
  <1>5. QED
    BY <1>3, <1>4

LEMMA UninstallVariantsKeeps ==
  ASSUME StepsInv, NEW p \in Projects, UninstallVariants(p)
  PROVE  StepsInv'
  <1>1. /\ Handled(p) /\ StepsTypeOK /\ step = 4 /\ phase = "uninstall"
        /\ UNCHANGED <<host, mods, pkg, file, options, seen, failures, repulled, runs>>
        /\ Well \/ Fault
        /\ amiss' \in {amiss, amiss \cup {p}} /\ misprobed' \in {misprobed, misprobed \cup {p}}
    BY DEF UninstallVariants, At, Handled, Looping, StepsInv, Sees, Complain
  <1>2. (NextProject /\ Complain(p)) \/ GoOn("install")
    BY DEF UninstallVariants
  <1>3. MovesOn
    BY <1>2 DEF MovesOn, Looping
  <1>4. StepsTypeOK'
    <2>1. mods' \in [Projects -> {"none", "part", "whole"}]
      BY <1>1, TypeParts DEF FileTypes
    <2>2. QED
      BY <1>1, <1>3, <2>1, UninstallLeaves, LoopTypes
  <1>5. /\ step' = step /\ phase' \in {"next", "install"} /\ todo' \in {todo, Tail(todo)}
        /\ phase' = "install" => todo' = todo
    BY <1>2 DEF NextProject, GoOn
  <1>6. p \in Watched' => p \in Watched /\ todo' = todo
    BY <1>1, <1>2 DEF Watched, Targets, Scope, Complain, GoOn
  <1>7. Replacing' /\ Swapping'
    <2>1. CASE phase' = "next"
      BY <2>1 DEF Replacing, Swapping
    <2>2. CASE phase' = "install"
      <3>1. todo' # <<>> /\ Head(todo') = p
        BY <1>1, <1>5, <2>2 DEF Handled
      <3>2. p \in Watched' => Central[p] \ OpenCV \subseteq dists'[p]
        <4>1. p \in Watched => Central[p] \ OpenCV \subseteq dists[p]
          BY <1>1 DEF StepsInv, Swapping, Handled
        <4>2. QED
          BY <1>6, <4>1, UninstallLeaves
      <3>3. QED
        BY <2>2, <3>1, <3>2, UninstallLeaves DEF Replacing, Swapping
    <2>3. QED
      BY <1>5, <2>1, <2>2
  <1>8. p \in Watched' /\ options.clean => IsFresh(p)'
    <2>1. p \in Watched /\ options.clean => IsFresh(p)
      BY <1>1 DEF StepsInv, Fresh
    <2>2. QED
      BY <1>6, <2>1, UninstallLeaves DEF IsFresh
  <1>9. todo # Tail(todo)
    BY <1>1, OneLess DEF Handled
  <1>10. amiss \subseteq amiss' /\ repulled \subseteq repulled' /\ phase \notin Begun /\ phase' \notin Begun
    BY <1>1, <1>5 DEF Begun
  <1>11. QED
    BY <1>1, <1>4, <1>5, <1>6, <1>7, <1>8, <1>9, <1>10, UninstallLeaves, OneProject DEF Handled

LEMMA InstallVariantKeeps ==
  ASSUME StepsInv, NEW p \in Projects, InstallVariant(p)
  PROVE  StepsInv'
  <1>1. /\ Handled(p) /\ MovesOn /\ StepsTypeOK /\ step = 4 /\ phase = "install"
        /\ UNCHANGED <<host, mods, pkg, file, options, seen, repulled, runs>>
        /\ Well \/ Fault
        /\ amiss' \in {amiss, amiss \cup {p}} /\ misprobed' \in {misprobed, misprobed \cup {p}}
        /\ failures' \subseteq failures \cup {p}
        /\ step' = step /\ phase' = "next" /\ todo' = Tail(todo)
    BY DEF InstallVariant, At, Handled, Looping, StepsInv, Complain, MovesOn, NextProject
  <1>2. EnvTypes /\ venv[p] = "valid" /\ Preferred[p] \in OpenCV /\ Preferred[p] # "none"
    BY <1>1, TypeParts, DistFacts DEF StepsInv, Swapping, Handled
  <1>3. dists[p] \in SUBSET Dists /\ Preferred[p] \in Dists
    BY <1>2, EnvAt, DistFacts
  <1>4. /\ EnvTypes'
        /\ \A q \in Projects : q # p =>
             venv'[q] = venv[q] /\ dists'[q] = dists[q] /\ cv'[q] = cv[q]
    <2>1. CASE UNCHANGED envs
      BY <1>2, <2>1 DEF envs, EnvTypes
    <2>2. CASE SetEnv(p, venv[p], dists[p] \cup {Preferred[p]}, Preferred[p])
      BY <1>2, <1>3, <2>2, EnvSet
    <2>3. CASE SetEnv(p, venv[p], dists[p] \ {Preferred[p]}, "none")
      BY <1>2, <1>3, <2>3, EnvSet
    <2>4. QED
      BY <2>1, <2>2, <2>3 DEF InstallVariant
  <1>5. StepsTypeOK'
    <2>1. mods' \in [Projects -> {"none", "part", "whole"}]
      BY <1>1, TypeParts DEF FileTypes
    <2>2. QED
      BY <1>1, <1>4, <2>1, LoopTypes
  <1>6. Replacing' /\ Swapping'
    BY <1>1 DEF Replacing, Swapping
  <1>7. ASSUME p \in Watched' PROVE IsServed(p)' /\ (options.clean => IsFresh(p)')
    <2>1. p \in Watched /\ ~Complain(p)
      BY <1>1, <1>7 DEF Watched, Targets, Scope, Complain
    <2>2. SetEnv(p, venv[p], dists[p] \cup {Preferred[p]}, Preferred[p])
      BY <2>1 DEF InstallVariant
    <2>3. /\ venv'[p] = "valid" /\ dists'[p] = dists[p] \cup {Preferred[p]}
          /\ cv'[p] = Preferred[p]
      BY <1>2, <1>3, <2>2, EnvSet
    <2>4. Central[p] \ OpenCV \subseteq dists[p]
      BY <1>1, <2>1 DEF StepsInv, Swapping, Handled
    <2>5. IsServed(p)'
      BY <1>2, <2>3, <2>4 DEF IsServed, Has
    <2>6. ASSUME options.clean PROVE IsFresh(p)'
      <3>1. dists[p] \subseteq Brought(Wanted(p))
        BY <1>1, <2>1, <2>6 DEF StepsInv, Fresh, IsFresh
      <3>2. Wanted(p) \in SUBSET Dists /\ Preferred[p] \in Wanted(p)
        BY <1>2, DistFacts DEF Wanted
      <3>3. Preferred[p] \in Brought(Wanted(p))
        BY <3>2, BroughtFacts
      <3>4. QED
        BY <2>3, <3>1, <3>3 DEF IsFresh
    <2>7. QED
      BY <2>5, <2>6
  <1>8. amiss \subseteq amiss' /\ repulled \subseteq repulled' /\ phase \notin Begun /\ phase' \notin Begun
    BY <1>1 DEF Begun
  <1>9. QED
    BY <1>1, <1>4, <1>5, <1>6, <1>7, <1>8, OneProject DEF Handled

-----------------------------------------------------------------------------
(* Steps 5 and 6.                                                           *)

LEMMA UpgradeNpmKeeps ==
  ASSUME StepsInv, NEW p \in Projects, UpgradeNpm(p)
  PROVE  StepsInv'
  <1>1. /\ Handled(p) /\ MovesOn /\ StepsTypeOK /\ step = 5
        /\ UNCHANGED <<host, envs, pkg, file, options, seen, failures, repulled, misprobed, runs>>
        /\ Well \/ Fault
        /\ amiss' \in {amiss, amiss \cup {p}}
        /\ step' = step /\ phase' = "python" /\ todo' = todo
    BY DEF UpgradeNpm, At, Handled, Looping, StepsInv, Complain, MovesOn, GoOn
  <1>2. EnvTypes' /\ mods' \in [Projects -> {"none", "part", "whole"}]
    BY <1>1, TypeParts DEF UpgradeNpm, FileTypes, EnvTypes, envs
  <1>3. StepsTypeOK'
    BY <1>1, <1>2, LoopTypes
  <1>4. Replacing' /\ Swapping'
    BY <1>1 DEF Replacing, Swapping
  <1>5. ASSUME p \in Watched' PROVE IsServed(p)' /\ (options.clean => IsFresh(p)')
    <2>1. p \in Watched
      BY <1>1, <1>5 DEF Watched, Targets, Scope
    <2>2. IsServed(p) /\ (options.clean => IsFresh(p))
      BY <1>1, <2>1 DEF StepsInv, Served, Fresh
    <2>3. QED
      BY <1>1, <2>2 DEF IsServed, IsFresh, Has, envs
  <1>6. amiss \subseteq amiss' /\ repulled \subseteq repulled' /\ phase \notin Begun /\ phase' \notin Begun
    BY <1>1 DEF Begun, Handled, Looping
  <1>7. QED
    BY <1>1, <1>3, <1>4, <1>5, <1>6, OneProject DEF Handled, envs

\* What an upgrade brings is brought by what the project lists, and if it has
\* files of cv2 the run knows of it; what a failed rollback loses it complains of.
LEMMA UpgradePythonKeeps ==
  ASSUME StepsInv, NEW p \in Projects, UpgradePython(p)
  PROVE  StepsInv'
  <1>1. /\ Handled(p) /\ MovesOn /\ StepsTypeOK /\ step = 5
        /\ UNCHANGED <<host, mods, pkg, file, options, seen, failures, misprobed, runs>>
        /\ Well \/ Fault
        /\ amiss' \in {amiss, amiss \cup {p}} /\ repulled' \in {repulled, repulled \cup {p}}
        /\ step' = step /\ phase' = "next" /\ todo' = Tail(todo)
    <2>1. /\ At(5, "python", p) /\ NextProject /\ misprobed' = misprobed
          /\ UNCHANGED <<host, mods, pkg, file, options, seen, failures, runs>>
      BY DEF UpgradePython
    <2>2. /\ (UNCHANGED amiss \/ Complain(p)) /\ (Well \/ Fault)
          /\ repulled' = repulled \/ repulled' = repulled \cup {p}
      BY Zenon DEF UpgradePython
    <2>3. QED
      BY <2>1, <2>2 DEF At, Handled, Looping, StepsInv, Complain, MovesOn, NextProject
  <1>2. /\ EnvTypes /\ mods' \in [Projects -> {"none", "part", "whole"}]
        /\ dists[p] \in SUBSET Dists /\ cv[p] \in OpenCV \cup {"none"}
    BY <1>1, TypeParts, EnvAt DEF FileTypes
  <1>3. Replacing' /\ Swapping'
    BY <1>1 DEF Replacing, Swapping
  <1>4. p \in Watched' => /\ p \in Watched /\ ~Complain(p) /\ IsServed(p)
                          /\ options.clean => IsFresh(p)
    <2>1. p \in Watched' => p \in Watched /\ ~Complain(p)
      BY <1>1 DEF Watched, Targets, Scope, Complain
    <2>2. QED
      BY <1>1, <2>1 DEF StepsInv, Served, Fresh
  <1>5. amiss \subseteq amiss' /\ repulled \subseteq repulled' /\ phase \notin Begun /\ phase' \notin Begun
    BY <1>1 DEF Begun, Handled, Looping
  <1>6. SUFFICES /\ EnvTypes'
                 /\ \A q \in Projects : q # p =>
                      venv'[q] = venv[q] /\ dists'[q] = dists[q] /\ cv'[q] = cv[q]
                 /\ p \in Watched' => IsServed(p)' /\ (options.clean => IsFresh(p)')
    <2>1. StepsTypeOK'
      BY <1>1, <1>2, <1>6, LoopTypes
    <2>2. QED
      BY <1>1, <1>3, <1>5, <1>6, <2>1, OneProject DEF Handled
  <1>7. CASE UNCHANGED <<envs, repulled>>
    BY <1>2, <1>4, <1>7 DEF envs, EnvTypes, IsServed, IsFresh, Has
  <1>8. CASE /\ venv[p] = "valid"
             /\ \E upgraded \in SUBSET dists[p] : \E touched \in SUBSET Brought(upgraded) :
                  \E files \in Over(p, touched) :
                    /\ SetEnv(p, "valid", dists[p] \cup touched, files)
                    /\ repulled' = IF touched \cap OpenCV \subseteq {Preferred[p]} THEN repulled
                                   ELSE repulled \cup {p}
    <2>1. PICK upgraded \in SUBSET dists[p] : \E touched \in SUBSET Brought(upgraded) :
            \E files \in Over(p, touched) :
              /\ SetEnv(p, "valid", dists[p] \cup touched, files)
              /\ repulled' = IF touched \cap OpenCV \subseteq {Preferred[p]} THEN repulled
                             ELSE repulled \cup {p}
      BY <1>8
    <2>2. PICK touched \in SUBSET Brought(upgraded) :
            \E files \in Over(p, touched) :
              /\ SetEnv(p, "valid", dists[p] \cup touched, files)
              /\ repulled' = IF touched \cap OpenCV \subseteq {Preferred[p]} THEN repulled
                             ELSE repulled \cup {p}
      BY <2>1
    <2>3. PICK files \in Over(p, touched) :
            /\ SetEnv(p, "valid", dists[p] \cup touched, files)
            /\ repulled' = IF touched \cap OpenCV \subseteq {Preferred[p]} THEN repulled
                           ELSE repulled \cup {p}
      BY <2>2
    <2>4. upgraded \in SUBSET Dists /\ touched \subseteq Brought(dists[p]) /\ touched \subseteq Dists
      BY <1>2, <2>1, <2>2, BroughtFacts
    <2>5. dists[p] \cup touched \in SUBSET Dists /\ files \in OpenCV \cup {"none"}
      BY <1>2, <2>3, <2>4 DEF Over
    <2>6. /\ EnvTypes' /\ venv'[p] = "valid" /\ dists'[p] = dists[p] \cup touched /\ cv'[p] = files
          /\ \A q \in Projects : q # p =>
               venv'[q] = venv[q] /\ dists'[q] = dists[q] /\ cv'[q] = cv[q]
      BY <1>2, <2>3, <2>5, EnvSet
    <2>7. p \in Watched' => IsServed(p)'
      <3>1. touched \cap OpenCV \subseteq {Preferred[p]} =>
              repulled' = repulled /\ (cv[p] = Preferred[p] => files = Preferred[p])
        BY <2>3 DEF Over
      <3>2. ~(touched \cap OpenCV \subseteq {Preferred[p]}) => p \in repulled'
        BY <2>3
      <3>3. p \in Watched' => IsServed(p)
        BY <1>4
      <3>4. ASSUME IsServed(p), Preferred[p] # "none", p \notin repulled'
            PROVE  cv'[p] = Preferred[p]
        BY <2>6, <3>1, <3>2, <3>4 DEF IsServed
      <3>5. ASSUME IsServed(p)  PROVE  \A d \in Central[p] : Has(p, d)'
        BY <2>6, <3>5 DEF IsServed, Has
      <3>6. QED
        BY <2>6, <3>3, <3>4, <3>5 DEF IsServed
    <2>8. p \in Watched' /\ options.clean => IsFresh(p)'
      <3>1. Wanted(p) \in SUBSET Dists
        BY DistFacts DEF Wanted
      <3>2. dists[p] \subseteq Brought(Wanted(p)) => Brought(dists[p]) \subseteq Brought(Wanted(p))
        BY <3>1, BroughtAgain
      <3>3. QED
        BY <1>4, <2>4, <2>6, <3>2 DEF IsFresh
    <2>9. QED
      BY <2>6, <2>7, <2>8
  <1>9. CASE Complain(p) /\ BreaksOff(p, Brought(dists[p]))
    <2>1. PICK ds \in SUBSET Dists : ds = Brought(dists[p])
      BY <1>2, BroughtFacts
    <2>2. BreaksOff(p, ds)
      BY <1>9, <2>1
    <2>3. QED
      BY <1>2, <1>4, <1>9, <2>2, BrokenOff
  <1>10. QED
    BY <1>7, <1>8, <1>9, Zenon DEF UpgradePython

LEMMA ValidateProjectKeeps ==
  ASSUME StepsInv, NEW p \in Projects, ValidateProject(p)
  PROVE  StepsInv'
  <1>1. /\ Handled(p) /\ MovesOn /\ StepsTypeOK /\ step = 6
        /\ UNCHANGED <<host, envs, mods, pkg, file, options, seen, failures>>
        /\ UNCHANGED <<amiss, repulled, misprobed, faults, runs>>
        /\ step' = step /\ phase' = "next" /\ todo' = Tail(todo)
    BY DEF ValidateProject, At, Handled, Looping, StepsInv, MovesOn, NextProject, workspace, envs
  <1>2. EnvTypes' /\ mods' \in [Projects -> {"none", "part", "whole"}] /\ Well
    BY <1>1, TypeParts DEF FileTypes, EnvTypes, envs, Well
  <1>3. StepsTypeOK'
    BY <1>1, <1>2, LoopTypes
  <1>4. Replacing' /\ Swapping'
    BY <1>1 DEF Replacing, Swapping
  <1>5. ASSUME p \in Watched' PROVE IsServed(p)' /\ (options.clean => IsFresh(p)')
    <2>1. p \in Watched
      BY <1>1, <1>5 DEF Watched, Targets, Scope
    <2>2. IsServed(p) /\ (options.clean => IsFresh(p))
      BY <1>1, <2>1 DEF StepsInv, Served, Fresh
    <2>3. QED
      BY <1>1, <2>2 DEF IsServed, IsFresh, Has, envs
  <1>6. phase \notin Begun /\ phase' \notin Begun
    BY <1>1 DEF Begun, Handled, Looping
  <1>7. QED
    BY <1>1, <1>3, <1>4, <1>5, <1>6, OneProject DEF Handled, envs

-----------------------------------------------------------------------------
(* The steps around the loops.                                              *)

LEMMA FaultsCount ==
  ASSUME TrailTypes, Well \/ Fault
  PROVE  faults' \in 0..MaxFaults
  <1>1. MaxFaults \in Nat
    BY StepsAssumption
  <1>2. QED
    BY <1>1 DEF TrailTypes, Well, Fault

LEMMA StatusIs == \A ok : Status(ok) \in {"success", "warning"} /\ (Status(ok) = "success" => ok)
  BY DEF Status

LEMMA EndTypes ==
  ASSUME StepsTypeOK, NEW status \in {"success", "warning"}, step \in 1..7, EndStep(status),
         UNCHANGED <<host, options, runs, envs, mods, seen, failures, amiss, repulled>>,
         misprobed' \subseteq Projects, Well \/ Fault, FileTypes'
  PROVE  StepsTypeOK'
  <1>1. EnvTypes /\ PlaceTypes /\ TrailTypes
    BY TypeParts
  <1>2. EnvTypes'
    BY <1>1 DEF EnvTypes, envs
  <1>3. TrailTypes'
    BY <1>1, FaultsCount DEF TrailTypes
  <1>4. PlaceTypes'
    <2>1. Targets' = Targets /\ todo' = <<>>
      BY DEF Targets, Scope, EndStep
    <2>2. todo' \in Seq(Targets')
      BY <2>1
    <2>3. CASE options.full /\ step < 7
      <3>1. step' = step + 1 /\ phase' = "enter" /\ last' = last
        BY <2>3 DEF EndStep
      <3>2. step' \in 1..7
        BY <2>3, <3>1
      <3>3. QED
        BY <1>1, <2>2, <3>1, <3>2 DEF PlaceTypes
    <2>4. CASE ~(options.full /\ step < 7)
      <3>1. step' = 0 /\ phase' = "idle" /\ last' = status
        BY <2>4 DEF EndStep
      <3>2. QED
        BY <1>1, <2>1, <2>2, <3>1 DEF PlaceTypes
    <2>5. QED
      BY <2>3, <2>4
  <1>5. QED
    BY <1>2, <1>3, <1>4, NextTypeParts

LEMMA PlainEndKeeps ==
  ASSUME StepsInv,
         HardwareDiscovery \/ ToolchainAudit \/ VirtualEnvironmentsEnd \/ RequirementsInstallEnd
  PROVE  StepsInv'
  <1>1. PICK status \in {"success", "warning"} : EndStep(status)
    BY StatusIs
    DEF HardwareDiscovery, ToolchainAudit, VirtualEnvironmentsEnd, RequirementsInstallEnd
  <1>2. /\ step \in 1..6 /\ (step > 2 => phase = "next" /\ todo = <<>>)
        /\ UNCHANGED <<workspace, options, seen, failures, passed, trail, faults, runs>>
    BY DEF HardwareDiscovery, ToolchainAudit, VirtualEnvironmentsEnd, RequirementsInstallEnd
  <1>3. /\ UNCHANGED <<host, options, runs, envs, mods, seen, failures, amiss, repulled>>
        /\ UNCHANGED <<misprobed, pkg, file>> /\ Well
    BY <1>2 DEF workspace, envs, trail, Well
  <1>4. StepsTypeOK'
    <2>1. StepsTypeOK /\ FileTypes' /\ misprobed' \subseteq Projects
      BY <1>3, TypeParts DEF StepsInv, FileTypes, TrailTypes
    <2>2. QED
      BY <1>1, <1>2, <1>3, <2>1, EndTypes
  <1>5. QED
    BY <1>1, <1>2, <1>3, <1>4, StepEnds

\* sync_all_manifests writes texts.
LEMMA SyncTypes ==
  ASSUME StepsTypeOK, NEW failed, SyncAllManifests(failed)
  PROVE  pkg' \in [Projects -> BOOLEAN] /\ file' \in [Projects -> [listed : BOOLEAN, reqs : SUBSET Dists]]
         /\ (Well \/ Fault)
  <1>1. FileTypes
    BY TypeParts
  <1>2. Manifests \in [Projects -> BOOLEAN]
    BY <1>1 DEF Manifests, FileTypes
  <1>3. \A ds \in SUBSET Dists : File(ds) \in [listed : BOOLEAN, reqs : SUBSET Dists]
    BY DEF File
  <1>4. Copies \in [Projects -> [listed : BOOLEAN, reqs : SUBSET Dists]]
    <2>1. ASSUME NEW p \in Projects
          PROVE  (IF p \in Nodes \/ Refused(p) THEN file[p] ELSE File(Central[p]))
                    \in [listed : BOOLEAN, reqs : SUBSET Dists]
      BY <1>1, <1>3, DistFacts DEF FileTypes
    <2>2. QED
      BY <2>1 DEF Copies
  <1>5. CASE file' = Copies /\ pkg' = Manifests /\ Well
    BY <1>2, <1>4, <1>5
  <1>6. ASSUME NEW p \in Projects, NEW left \in {file[p], File({})},
               file' = [Copies EXCEPT ![p] = left]
        PROVE  file' \in [Projects -> [listed : BOOLEAN, reqs : SUBSET Dists]]
    <2>1. left \in [listed : BOOLEAN, reqs : SUBSET Dists]
      BY <1>1, <1>3 DEF FileTypes
    <2>2. QED
      BY <1>4, <1>6, <2>1
  <1>7. ASSUME NEW p \in Projects, pkg' = [Manifests EXCEPT ![p] = pkg[p]]
        PROVE  pkg' \in [Projects -> BOOLEAN]
    BY <1>1, <1>2, <1>7 DEF FileTypes
  <1>8. QED
    BY <1>2, <1>4, <1>5, <1>6, <1>7 DEF SyncAllManifests

LEMMA WriteBackKeeps ==
  ASSUME StepsInv, WriteBack
  PROVE  StepsInv'
  <1>1. /\ step = 5 /\ phase = "next" /\ todo = <<>> /\ EndStep("success")
        /\ UNCHANGED <<host, options, runs, envs, mods, pkg, seen, failures, amiss, repulled>>
        /\ UNCHANGED misprobed /\ (Well \/ Fault)
    BY DEF WriteBack, trail
  <1>2. StepsTypeOK /\ FileTypes /\ misprobed' \subseteq Projects
    BY <1>1, TypeParts DEF StepsInv, TrailTypes
  <1>3. FileTypes'
    <2>1. PICK written : written = [p \in Projects |->
                           IF p \in Pythons /\ venv[p] = "valid" THEN File(Central[p]) ELSE file[p]]
      OBVIOUS
    <2>2. \A ds \in SUBSET Dists : File(ds) \in [listed : BOOLEAN, reqs : SUBSET Dists]
      BY DEF File
    <2>3. written \in [Projects -> [listed : BOOLEAN, reqs : SUBSET Dists]]
      BY <1>2, <2>1, <2>2, DistFacts DEF FileTypes
    <2>4. CASE file' = written
      BY <1>1, <1>2, <2>3, <2>4 DEF FileTypes
    <2>5. ASSUME NEW p \in Pythons, NEW left \in {file[p], File({})},
                 file' = [written EXCEPT ![p] = left]
          PROVE  FileTypes'
      <3>1. left \in [listed : BOOLEAN, reqs : SUBSET Dists]
        BY <1>2, <2>2, ManagedFacts DEF FileTypes
      <3>2. QED
        BY <1>1, <1>2, <2>3, <2>5, <3>1 DEF FileTypes
    <2>6. QED
      BY <2>1, <2>4, <2>5 DEF WriteBack
  <1>4. StepsTypeOK'
    BY <1>1, <1>2, <1>3, EndTypes
  <1>5. QED
    BY <1>1, <1>4, StepEnds

LEMMA CodebaseVerificationEndKeeps ==
  ASSUME StepsInv, CodebaseVerificationEnd
  PROVE  StepsInv'
  <1>1. /\ step = 6 /\ phase = "next" /\ todo = <<>>
        /\ UNCHANGED <<host, options, runs, envs, mods, seen, failures, amiss, repulled, misprobed>>
    BY DEF CodebaseVerificationEnd, trail
  <1>2. PICK status \in {"success", "warning"} : EndStep(status)
    BY StatusIs DEF CodebaseVerificationEnd
  <1>3. StepsTypeOK /\ FileTypes /\ misprobed' \subseteq Projects
    BY <1>1, TypeParts DEF StepsInv, TrailTypes
  <1>4. FileTypes' /\ (Well \/ Fault)
    <2>1. CASE passed
      <3>1. PICK failed : SyncAllManifests(failed)
        BY <2>1 DEF CodebaseVerificationEnd
      <3>2. QED
        BY <1>1, <1>3, <3>1, SyncTypes DEF FileTypes
    <2>2. CASE ~passed
      BY <1>1, <1>3, <2>2 DEF CodebaseVerificationEnd, FileTypes, Well
    <2>3. QED
      BY <2>1, <2>2
  <1>5. StepsTypeOK'
    BY <1>1, <1>2, <1>3, <1>4, EndTypes
  <1>6. QED
    BY <1>1, <1>2, <1>5, StepEnds

\* Step 4 begins: whatever project was not complained of has its copy.
LEMMA SyncManifestsKeeps ==
  ASSUME StepsInv, SyncManifests
  PROVE  StepsInv'
  <1>1. /\ step = 4 /\ phase = "enter" /\ phase' = "list" /\ step' = 4
        /\ UNCHANGED <<host, envs, mods, options, todo, seen, failures, last>>
        /\ UNCHANGED <<repulled, misprobed, runs>>
    BY DEF SyncManifests
  <1>2. PICK failed \in SUBSET Results :
          /\ SyncAllManifests(failed)
          /\ amiss' = amiss \cup {p \in Targets : Told(p, failed)}
    BY DEF SyncManifests
  <1>3. StepsTypeOK /\ EnvTypes /\ FileTypes /\ PlaceTypes /\ TrailTypes
    BY TypeParts DEF StepsInv
  <1>4. Targets' = Targets
    BY <1>1 DEF Targets, Scope
  <1>5. StepsTypeOK'
    <2>1. EnvTypes'
      BY <1>1, <1>3 DEF EnvTypes, envs
    <2>2. FileTypes' /\ (Well \/ Fault)
      BY <1>1, <1>2, <1>3, SyncTypes DEF FileTypes
    <2>3. PlaceTypes'
      BY <1>1, <1>3, <1>4 DEF PlaceTypes
    <2>4. TrailTypes'
      <3>1. amiss' \subseteq Projects
        BY <1>2, <1>3, ScopeFacts DEF TrailTypes
      <3>2. QED
        BY <1>1, <1>3, <2>2, <3>1, FaultsCount DEF TrailTypes
    <2>5. QED
      BY <2>1, <2>2, <2>3, <2>4, NextTypeParts
  <1>6. Watched' \subseteq Watched /\ Watched' \subseteq Projects
    BY <1>1, <1>2, <1>3, <1>4, WatchedFacts DEF Watched
  <1>7. Copied'
    <2>1. SUFFICES ASSUME NEW p \in Watched' PROVE file'[p] = File(Central[p])
      BY DEF Copied
    <2>2. p \in Projects /\ p \in Pythons /\ ~Refused(p) /\ <<p, "pip">> \notin failed
      BY <1>1, <1>2, <1>4, <1>6, <2>1 DEF Watched, Told
    <2>3. Copies[p] = File(Central[p])
      BY <2>2 DEF Copies, Pythons
    <2>4. file' = Copies \/ \E q \in Projects : <<q, "pip">> \in failed /\ \E left : file' = [Copies EXCEPT ![q] = left]
      BY <1>2 DEF SyncAllManifests
    <2>5. QED
      BY <2>2, <2>3, <2>4 DEF Copies
  <1>8. Fresh'
    <2>1. SUFFICES ASSUME options.clean, NEW p \in Watched' PROVE IsFresh(p)'
      BY <1>1 DEF Fresh
    <2>2. IsFresh(p)
      BY <1>1, <1>6, <2>1 DEF StepsInv, Fresh
    <2>3. QED
      BY <1>1, <2>2 DEF IsFresh, envs
  <1>9. Replacing' /\ Swapping' /\ Served' /\ SuccessIsHealthy'
    BY <1>1 DEF Replacing, Swapping, Served, Begun, SuccessIsHealthy
  <1>10. QED
    BY <1>5, <1>7, <1>8, <1>9 DEF StepsInv

\* A loop begins: all projects of the target are ahead.
LEMMA LoopBegins ==
  ASSUME StepsInv, step \in 3..6, step' = step, phase \in Begun, phase' = "next", todo' = Scope,
         step = 4 => phase = "list", seen'.npm \subseteq Projects,
         UNCHANGED <<workspace, options, failures, last, trail, faults, runs>>
  PROVE  StepsInv'
  <1>1. StepsTypeOK /\ EnvTypes /\ FileTypes /\ PlaceTypes /\ TrailTypes
    BY TypeParts DEF StepsInv
  <1>2. /\ Targets' = Targets /\ Watched' = Watched /\ Watched \subseteq Targets
        /\ Targets \subseteq Projects /\ Scope \in Seq(Targets)
    BY <1>1, ScopeFacts, WatchedFacts DEF Targets, Scope, Watched, trail
  <1>3. StepsTypeOK'
    <2>1. EnvTypes' /\ FileTypes'
      BY <1>1 DEF EnvTypes, FileTypes, workspace
    <2>2. PlaceTypes'
      BY <1>1, <1>2 DEF PlaceTypes, workspace
    <2>3. TrailTypes'
      BY <1>1 DEF TrailTypes, trail
    <2>4. QED
      BY <2>1, <2>2, <2>3, NextTypeParts
  <1>4. Ahead' = Targets
    BY DEF Ahead, Targets
  <1>5. \A q \in Projects : (IsFresh(q) => IsFresh(q)') /\ (IsServed(q) => IsServed(q)')
    BY DEF IsFresh, IsServed, Has, workspace, trail
  <1>6. Copied'
    BY <1>2 DEF StepsInv, Copied, workspace
  <1>7. Fresh' /\ Served'
    BY <1>2, <1>4, <1>5 DEF StepsInv, Fresh, Served
  <1>8. Replacing' /\ Swapping' /\ SuccessIsHealthy'
    BY DEF Replacing, Swapping, SuccessIsHealthy
  <1>9. QED
    BY <1>3, <1>6, <1>7, <1>8 DEF StepsInv

LEMMA LoopBeginsKeeps ==
  ASSUME StepsInv, VirtualEnvironments \/ ListProjects
  PROVE  StepsInv'
  <1>1. UNCHANGED seen \/ Discover
    BY DEF VirtualEnvironments, ListProjects, ManagedProjects
  <1>2. seen'.npm \subseteq Projects
    <2>1. seen.npm \subseteq Projects /\ Targets \subseteq Projects
      BY TypeParts, ScopeFacts DEF StepsInv, TrailTypes
    <2>2. QED
      BY <1>1, <2>1 DEF Discover
  <1>3. /\ step \in 3..6 /\ step' = step /\ phase \in Begun /\ phase' = "next" /\ todo' = Scope
        /\ step = 4 => phase = "list"
        /\ UNCHANGED <<workspace, options, failures, last, trail, faults, runs>>
    BY DEF VirtualEnvironments, ListProjects, Begun
  <1>4. QED
    BY <1>2, <1>3, LoopBegins

\* _start: nothing is known of a run yet.
LEMMA StartKeeps ==
  ASSUME StepsInv, NEW full \in BOOLEAN, NEW clean \in BOOLEAN,
         NEW target \in {"all"} \cup Projects, NEW n \in 1..8, full => n = 1,
         Start(full, clean, target, n)
  PROVE  StepsInv'
  <1> PICK o : o = [full |-> full, clean |-> clean, target |-> target]
    OBVIOUS
  <1> o \in [full : BOOLEAN, clean : BOOLEAN, target : {"all"} \cup Projects]
    OBVIOUS
  <1> o.full => n = 1
    <2>1. o.full = full
      OBVIOUS
    <2>2. QED
      BY <2>1, Zenon
  <1>1. /\ step = 0 /\ options' = o /\ runs' = runs + 1 /\ runs < MaxRuns /\ todo' = <<>>
        /\ seen' = [done |-> FALSE, npm |-> {}] /\ failures' = {}
        /\ amiss' = {} /\ repulled' = {} /\ misprobed' = {}
        /\ UNCHANGED <<workspace, faults>>
        /\ IF n \in 1..7 THEN step' = n /\ phase' = "enter" /\ last' = "running"
           ELSE last' = "error" /\ UNCHANGED <<step, phase>>
    BY DEF Start
  <1>2. EnvTypes /\ FileTypes /\ PlaceTypes /\ TrailTypes
    BY TypeParts DEF StepsInv
  <1>3. EnvTypes' /\ FileTypes' /\ TrailTypes'
    BY <1>1, <1>2 DEF EnvTypes, FileTypes, TrailTypes, workspace
  <1>4. PlaceTypes'
    <2>1. host' \in Hosts /\ runs' \in 0..MaxRuns
      BY <1>1, <1>2, StepsAssumption DEF PlaceTypes, workspace
    <2>2. todo' \in Seq(Targets')
      BY <1>1
    <2>3. /\ step' \in 0..7 /\ phase' \in {"idle", "enter"}
          /\ step' # 0 => last' = "running"
          /\ step' = 0 => phase' = "idle" /\ last' = "error"
      BY <1>1, <1>2 DEF PlaceTypes
    <2>4. QED
      BY <1>1, <2>1, <2>2, <2>3 DEF PlaceTypes
  <1>5. StepsTypeOK'
    BY <1>3, <1>4, NextTypeParts
  <1>6. ~o.full => Watched' = {}
    BY <1>1 DEF Watched
  <1>7. phase' \in {"idle", "enter"} /\ (o.full => step' = 1) /\ (step' = 0 => last' = "error")
    BY <1>1, <1>2 DEF PlaceTypes
  <1>8. QED
    BY <1>5, <1>6, <1>7
    DEF StepsInv, Replacing, Swapping, Copied, Fresh, Served, SuccessIsHealthy

LEMMA BreakKeeps ==
  ASSUME StepsInv, Break
  PROVE  StepsInv'
  <1>1. /\ step' = 0 /\ phase' = "idle" /\ todo' = <<>> /\ last' \in {"failed", "running", "idle"}
        /\ UNCHANGED <<workspace, options, seen, failures, passed, trail, runs>> /\ Fault
    BY DEF Break
  <1>2. EnvTypes /\ FileTypes /\ PlaceTypes /\ TrailTypes
    BY TypeParts DEF StepsInv
  <1>3. EnvTypes' /\ FileTypes' /\ TrailTypes'
    BY <1>1, <1>2, FaultsCount DEF EnvTypes, FileTypes, TrailTypes, workspace, trail
  <1>4. PlaceTypes'
    <2>1. todo' \in Seq(Targets')
      BY <1>1
    <2>2. QED
      BY <1>1, <1>2, <2>1 DEF PlaceTypes, workspace
  <1>5. StepsTypeOK'
    BY <1>3, <1>4, NextTypeParts
  <1>6. QED
    BY <1>1, <1>5
    DEF StepsInv, Replacing, Swapping, Copied, Fresh, Served, SuccessIsHealthy

\* The audit looks at what the projects list now; that they list what their
\* central manifests do, and what more the run was to do, is known from before.
LEMMA HealthMatrixKeeps ==
  ASSUME StepsInv, HealthMatrix
  PROVE  StepsInv'
  <1>1. /\ step = 7 /\ UNCHANGED <<workspace, options, seen, failures, amiss, repulled, runs>>
        /\ misprobed' \subseteq misprobed \cup Pythons /\ (Well \/ Fault)
    BY DEF HealthMatrix
  <1>2. StepsTypeOK /\ FileTypes /\ TrailTypes /\ PlaceTypes
    BY TypeParts DEF StepsInv
  <1>3. PICK ok : /\ EndStep(Status(ok))
                  /\ ok => /\ "git" \in host.tools /\ NpmHealthy
                           /\ \A p \in Projects : ProjectHealthy(p, venv[p] = "valid", dists[p])
    <2>1. CASE EndStep(Status(/\ "git" \in host.tools /\ NpmHealthy
                              /\ \A p \in Projects : ProjectHealthy(p, venv[p] = "valid", dists[p])))
      BY <2>1
    <2>2. CASE \E q \in Pythons, valid \in BOOLEAN :
                 /\ venv[q] = "valid"
                 /\ EndStep(Status(/\ "git" \in host.tools /\ NpmHealthy
                                   /\ ProjectHealthy(q, valid, {})
                                   /\ \A p \in Projects \ {q} :
                                        ProjectHealthy(p, venv[p] = "valid", dists[p])))
      <3>1. PICK q \in Pythons, valid \in BOOLEAN :
                 /\ venv[q] = "valid"
                 /\ EndStep(Status(/\ "git" \in host.tools /\ NpmHealthy
                                   /\ ProjectHealthy(q, valid, {})
                                   /\ \A p \in Projects \ {q} :
                                        ProjectHealthy(p, venv[p] = "valid", dists[p])))
        BY <2>2
      <3>2. ProjectHealthy(q, valid, {}) => ProjectHealthy(q, venv[q] = "valid", dists[q])
        BY <3>1 DEF ProjectHealthy, Missing
      <3>3. QED
        BY <3>1, <3>2
    <2>3. QED
      BY <2>1, <2>2, Zenon DEF HealthMatrix
  <1>4. step' = 0 /\ phase' = "idle" /\ todo' = <<>> /\ last' = Status(ok)
    BY <1>1, <1>3 DEF EndStep
  <1>5. StepsTypeOK'
    <2>1. FileTypes' /\ misprobed' \subseteq Projects /\ UNCHANGED <<host, envs, mods>>
      BY <1>1, <1>2, ManagedFacts DEF FileTypes, TrailTypes, workspace, envs
    <2>2. Status(ok) \in {"success", "warning"}
      BY StatusIs
    <2>3. QED
      BY <1>1, <1>2, <1>3, <2>1, <2>2, EndTypes
  <1>6. SuccessIsHealthy'
    <2>1. SUFFICES ASSUME options.full, last' = "success" PROVE SuccessIsHealthy'
      BY <1>1 DEF SuccessIsHealthy
    <2>2. /\ "git" \in host.tools /\ NpmHealthy
          /\ \A p \in Projects : ProjectHealthy(p, venv[p] = "valid", dists[p])
      BY <1>3, <1>4, <2>1, StatusIs
    <2>3. "git" \in host'.tools
      BY <1>1, <2>2 DEF workspace
    <2>4. \A p \in Nodes \cup {q \in NpmManifest : pkg'[q]} : mods'[p] # "none"
      BY <1>1, <2>2, ManagedFacts DEF workspace, NpmHealthy, ProjectHealthy
    <2>5. \A p \in Pythons : venv'[p] = "valid" /\ \A d \in file'[p].reqs : Has(p, d)'
      BY <1>1, <2>2, ManagedFacts DEF workspace, Pythons, ProjectHealthy, Missing, Has
    <2>6. ASSUME NEW p \in (Pythons \cap Targets') \ amiss'
          PROVE  /\ \A d \in Central[p] : Has(p, d)'
                 /\ options'.clean => dists'[p] \subseteq Brought(Wanted(p))
                 /\ Preferred[p] # "none" /\ p \notin repulled' => cv'[p] = Preferred[p]
      <3>1. p \in Watched
        BY <1>1, <2>1, <2>6 DEF Watched, Targets, Scope
      <3>2. IsServed(p) /\ (options.clean => IsFresh(p))
        BY <1>1, <3>1 DEF StepsInv, Served, Fresh
      <3>3. QED
        BY <1>1, <3>2 DEF IsServed, IsFresh, Has, workspace
    <2>7. QED
      BY <2>3, <2>4, <2>5, <2>6 DEF SuccessIsHealthy
  <1>7. QED
    BY <1>4, <1>5, <1>6 DEF StepsInv, Replacing, Swapping, Copied, Fresh, Served

-----------------------------------------------------------------------------
(* The theorems.                                                            *)

LEMMA StepsInitInv == Init => StepsInv
  <1> SUFFICES ASSUME Init PROVE StepsInv
    OBVIOUS
  <1>1. PICK w \in Spaces : /\ venv = w.venv /\ dists = w.dists /\ cv = w.cv
                            /\ mods = w.mods /\ pkg = w.pkg /\ file = w.file
    BY DEF Init
  <1>2. /\ w \in Workspaces
        /\ \A p \in Projects : w.venv[p] # "valid" => w.dists[p] = {} /\ w.cv[p] = "none"
    BY StepsAssumption, Zenon
  <1>3. /\ host \in Hosts /\ options = [full |-> FALSE, clean |-> FALSE, target |-> "all"]
        /\ step = 0 /\ phase = "idle" /\ todo = <<>> /\ seen = [done |-> FALSE, npm |-> {}]
        /\ failures = {} /\ last = "idle" /\ amiss = {} /\ repulled = {} /\ misprobed = {}
        /\ faults = 0 /\ runs = 0
    BY DEF Init
  <1>4. EnvTypes /\ FileTypes
    BY <1>1, <1>2 DEF Workspaces, EnvTypes, FileTypes
  <1>5. PlaceTypes /\ TrailTypes
    <2>1. todo \in Seq(Targets) /\ MaxRuns \in Nat /\ MaxFaults \in Nat
      BY <1>3, StepsAssumption
    <2>2. QED
      BY <1>3, <2>1 DEF PlaceTypes, TrailTypes
  <1>6. StepsTypeOK
    BY <1>4, <1>5, TypeParts
  <1>7. QED
    BY <1>3, <1>6 DEF StepsInv, Replacing, Swapping, Copied, Fresh, Served, SuccessIsHealthy

LEMMA StepsNextInv == StepsInv /\ [Next]_vars => StepsInv'
  <1> SUFFICES ASSUME StepsInv, [Next]_vars PROVE StepsInv'
    OBVIOUS
  <1>1. CASE StartFull \/ StartSingle
    <2>1. CASE StartFull
      <3>1. PICK clean \in BOOLEAN, t \in {"all"} \cup Projects : Start(TRUE, clean, t, 1)
        BY <2>1 DEF StartFull
      <3>2. 1 \in 1..8 /\ TRUE \in BOOLEAN
        OBVIOUS
      <3>3. QED
        BY <3>1, <3>2, StartKeeps, Zenon
    <2>2. CASE StartSingle
      <3>1. PICK n \in 1..8, clean \in BOOLEAN, t \in {"all"} \cup Projects :
              Start(FALSE, clean, t, n)
        BY <2>2 DEF StartSingle
      <3>2. QED
        BY <3>1, StartKeeps
    <2>3. QED
      BY <1>1, <2>1, <2>2
  <1>2. CASE Break
    BY <1>2, BreakKeeps
  <1>3. CASE HardwareDiscovery \/ ToolchainAudit \/ VirtualEnvironmentsEnd \/ RequirementsInstallEnd
    BY <1>3, PlainEndKeeps
  <1>4. CASE VirtualEnvironments \/ ListProjects
    BY <1>4, LoopBeginsKeeps
  <1>5. CASE SyncManifests
    BY <1>5, SyncManifestsKeeps
  <1>6. CASE WriteBack
    BY <1>6, WriteBackKeeps
  <1>7. CASE CodebaseVerificationEnd
    BY <1>7, CodebaseVerificationEndKeeps
  <1>8. CASE HealthMatrix
    BY <1>8, HealthMatrixKeeps
  <1>9. ASSUME NEW p \in Projects,
               \/ NodeModules(p) \/ KeepVenv(p) \/ Recreate(p) \/ RemoveVenv(p) \/ BuildVenv(p)
               \/ InstallNode(p) \/ InstallPython(p) \/ UninstallVariants(p) \/ InstallVariant(p)
               \/ UpgradeNpm(p) \/ UpgradePython(p) \/ ValidateProject(p)
        PROVE  StepsInv'
    BY <1>9, NodeModulesKeeps, KeepVenvKeeps, RecreateKeeps, RemoveVenvKeeps, BuildVenvKeeps,
       InstallNodeKeeps, InstallPythonKeeps, UninstallVariantsKeeps, InstallVariantKeeps,
       UpgradeNpmKeeps, UpgradePythonKeeps, ValidateProjectKeeps
  <1>10. CASE UNCHANGED vars
    <2>1. /\ UNCHANGED <<workspace, options, step, phase, todo, seen, failures, last>>
          /\ UNCHANGED <<trail, faults, runs>>
      BY <1>10 DEF vars
    <2>2. UNCHANGED <<host, venv, dists, cv, mods, pkg, file, amiss, repulled, misprobed>>
      BY <2>1 DEF workspace, trail
    <2>3. Targets' = Targets /\ Watched' = Watched /\ Ahead' = Ahead
      BY <2>1, <2>2 DEF Targets, Scope, Watched, Ahead
    <2>4. StepsTypeOK' /\ SuccessIsHealthy'
      BY <2>1, <2>2, <2>3 DEF StepsInv, StepsTypeOK, SuccessIsHealthy, Has
    <2>5. Replacing' /\ Swapping' /\ Copied'
      BY <2>1, <2>2, <2>3 DEF StepsInv, Replacing, Swapping, Copied, Active
    <2>6. \A p : IsFresh(p)' <=> IsFresh(p)
      BY <2>2 DEF IsFresh
    <2>7. \A p : IsServed(p)' <=> IsServed(p)
      BY <2>2 DEF IsServed, Has
    <2>8. Fresh' /\ Served'
      BY <2>1, <2>3, <2>6, <2>7 DEF StepsInv, Fresh, Served
    <2>9. QED
      BY <2>4, <2>5, <2>8 DEF StepsInv
  <1>11. QED
    BY <1>1, <1>2, <1>3, <1>4, <1>5, <1>6, <1>7, <1>8, <1>9, <1>10 DEF Next

LEMMA StepsInvariant == Spec => []StepsInv
  BY StepsInitInv, StepsNextInv, PTL DEF Spec

\* Through any number of runs, full or single: an environment that is not valid
\* holds nothing, the projects ahead are those of the target, and while a run is
\* under way last_status says so.
THEOREM StepsTypes == Spec => []StepsTypeOK
  <1>1. StepsInv => StepsTypeOK
    BY DEF StepsInv
  <1>2. QED
    BY <1>1, StepsInvariant, PTL

\* run_clean_install_pipeline: a full run that ends with "success" has done for
\* each project of its target what it is there for, unless an event complained
\* of the project, whatever went wrong elsewhere.
THEOREM SuccessIsTrue == Spec => []SuccessIsHealthy
  <1>1. StepsInv => SuccessIsHealthy
    BY DEF StepsInv
  <1>2. QED
    BY <1>1, StepsInvariant, PTL

\* The steps that touch an environment or node_modules leave what is valid or
\* whole, but for the two that replace it.
LEMMA EnvironmentsStay ==
  ASSUME StepsInv, Next, NEW p \in Projects, venv[p] = "valid", venv'[p] # "valid"
  PROVE  RemoveVenv(p) \/ BuildVenv(p)
  <1>1. EnvTypes
    BY TypeParts DEF StepsInv
  <1>2. ~UNCHANGED venv
    OBVIOUS
  <1>3. PICK q \in Projects : \/ RemoveVenv(q) \/ BuildVenv(q) \/ InstallPython(q)
                              \/ UninstallVariants(q) \/ InstallVariant(q) \/ UpgradePython(q)
    BY <1>2 DEF Next, StartFull, StartSingle, Start, Break, HardwareDiscovery, ToolchainAudit,
       VirtualEnvironments, VirtualEnvironmentsEnd, SyncManifests, ListProjects,
       RequirementsInstallEnd, WriteBack, CodebaseVerificationEnd, HealthMatrix,
       NodeModules, KeepVenv, Recreate, InstallNode, UpgradeNpm, ValidateProject, workspace, envs
  <1>4. \A v, ds, files : SetEnv(q, v, ds, files) => p = q /\ v # "valid"
    BY <1>1 DEF SetEnv, EnvTypes
  <1>5. p = q /\ (RemoveVenv(q) \/ BuildVenv(q))
    <2>1. ~InstallPython(q)
      BY <1>2, <1>4 DEF InstallPython, BreaksOff, envs
    <2>2. ~UpgradePython(q)
      BY <1>2, <1>4 DEF UpgradePython, BreaksOff, envs
    <2>3. ~UninstallVariants(q) /\ ~InstallVariant(q)
      BY <1>2, <1>4 DEF UninstallVariants, InstallVariant, envs
    <2>4. p = q
      BY <1>2, <1>3, <1>4, <2>1, <2>2, <2>3 DEF RemoveVenv, BuildVenv, envs
    <2>5. QED
      BY <1>3, <2>1, <2>2, <2>3, <2>4
  <1>6. QED
    BY <1>5

LEMMA ModulesStay ==
  ASSUME StepsInv, Next, NEW p \in Projects, mods[p] = "whole", mods'[p] = "none"
  PROVE  NodeModules(p) /\ options.clean
  <1>1. FileTypes
    BY TypeParts DEF StepsInv
  <1>2. ~UNCHANGED mods
    OBVIOUS
  <1>3. PICK q \in Projects : NodeModules(q) \/ InstallNode(q) \/ UpgradeNpm(q)
    BY <1>2 DEF Next, StartFull, StartSingle, Start, Break, HardwareDiscovery, ToolchainAudit,
       VirtualEnvironments, VirtualEnvironmentsEnd, SyncManifests, ListProjects,
       RequirementsInstallEnd, WriteBack, CodebaseVerificationEnd, HealthMatrix,
       KeepVenv, Recreate, RemoveVenv, BuildVenv, InstallPython, UninstallVariants,
       InstallVariant, UpgradePython, ValidateProject, workspace
  <1>4. ~InstallNode(q) /\ ~UpgradeNpm(q)
    BY <1>1, <1>2 DEF InstallNode, UpgradeNpm, FileTypes
  <1>5. QED
    BY <1>1, <1>2, <1>3, <1>4 DEF NodeModules, FileTypes

LEMMA ValidStays ==
  StepsInv /\ [Next]_vars =>
    [\A p \in Projects :
       /\ venv[p] = "valid" /\ venv'[p] # "valid" =>
            /\ p \in Targets /\ ~(p = Self /\ host.python = "inside")
            /\ options.clean \/ p \in misprobed
       /\ mods[p] = "whole" /\ mods'[p] = "none" => options.clean /\ p \in Targets]_vars
  <1> SUFFICES ASSUME StepsInv, Next, NEW p \in Projects
               PROVE  /\ venv[p] = "valid" /\ venv'[p] # "valid" =>
                           /\ p \in Targets /\ ~(p = Self /\ host.python = "inside")
                           /\ options.clean \/ p \in misprobed
                      /\ mods[p] = "whole" /\ mods'[p] = "none" => options.clean /\ p \in Targets
    OBVIOUS
  <1>1. ASSUME todo # <<>>, p = Head(todo) PROVE p \in Targets
    <2>1. todo \in Seq(Targets)
      BY TypeParts DEF StepsInv, PlaceTypes
    <2>2. QED
      BY <1>1, <2>1
  <1>2. ASSUME venv[p] = "valid", venv'[p] # "valid"
        PROVE  /\ p \in Targets /\ ~(p = Self /\ host.python = "inside")
               /\ options.clean \/ p \in misprobed
    <2>1. RemoveVenv(p) \/ BuildVenv(p)
      BY <1>2, EnvironmentsStay
    <2>2. phase \in {"remove", "build"} /\ todo # <<>> /\ p = Head(todo)
      BY <2>1 DEF RemoveVenv, BuildVenv, At
    <2>3. QED
      BY <1>1, <1>2, <2>2 DEF StepsInv, Replacing, Active
  <1>3. ASSUME mods[p] = "whole", mods'[p] = "none" PROVE options.clean /\ p \in Targets
    <2>1. NodeModules(p) /\ options.clean
      BY <1>3, ModulesStay
    <2>2. QED
      BY <1>1, <2>1 DEF NodeModules, At
  <1>4. QED
    BY <1>2, <1>3

\* "Only clean=True deletes": in no run is a valid environment or a whole
\* node_modules lost, but those of the target in a clean run, and an environment
\* whose interpreter did not answer in this run; never the one that the server's
\* executable resolves into.
THEOREM ValidIsKept == Spec => ValidVenvKept
  BY StepsInvariant, ValidStays, PTL DEF Spec, ValidVenvKept

-----------------------------------------------------------------------------
(* What validation establishes.  First the texts: what counts of a file, and  *)
(* what the rules of ecosystem_ssot find in it.                             *)

\* The least number of a set.
LEMMA LeastNumber ==
  ASSUME NEW T \in SUBSET Nat, NEW some \in T
  PROVE  \E n \in T : \A m \in T : n <= m
  <1> DEFINE R == {ss \in Nat \X Nat : ss[1] < ss[2]}
  <1>1. IsWellFoundedOn(R, Nat)
    BY NatLessThanWellFounded DEF OpToRel
  <1>2. PICK n \in T : \A m \in T : <<m, n>> \notin R
    <2> HIDE DEF R
    <2> QED BY <1>1, WFMin
  <1>3. ASSUME NEW m \in T  PROVE n <= m
    <2>1. ~(m < n) BY <1>2
    <2> QED BY <2>1
  <1> QED BY <1>3

\* What holds of 0, and of n when it holds of n - 1, holds up to N.
LEMMA Upwards ==
  ASSUME NEW S, NEW N \in Nat, 0 \in S, \A n \in 1..N : n - 1 \in S => n \in S
  PROVE  0..N \subseteq S
  <1>1. SUFFICES ASSUME NEW x \in 0..N, x \notin S  PROVE FALSE
    OBVIOUS
  <1>2. PICK T : T = {k \in 0..N : k \notin S}
    OBVIOUS
  <1>3. T \in SUBSET Nat /\ x \in T
    BY <1>1, <1>2
  <1>4. PICK n \in T : \A m \in T : n <= m
    BY <1>3, LeastNumber
  <1>5. n \in 1..N /\ n - 1 \in 0..N /\ n - 1 \notin T
    BY <1>2, <1>4
  <1> QED BY <1>2, <1>4, <1>5

\* What SkipLevel(f)[n] is, given the levels of the lines before in g.
Level(f, g, n) ==
  IF n = 0 THEN 0
  ELSE LET line == f.text[n]
           open == IF line.heading \in 1..g[n - 1] THEN 0 ELSE g[n - 1] IN
         IF open = 0 /\ line.heading # 0 /\ line.changelog THEN line.heading ELSE open

LEMMA SkipLevelDef ==
  ASSUME NEW f
  PROVE  SkipLevel(f) = CHOOSE g : g = [n \in 0..Len(f.text) |-> Level(f, g, n)]
  BY DEF SkipLevel, Level

\* The levels satisfy their recursive definition.
LEMMA LevelOf ==
  ASSUME NEW f, Len(f.text) \in Nat
  PROVE  SkipLevel(f) = [n \in 0..Len(f.text) |-> Level(f, SkipLevel(f), n)]
  <1> DEFINE N    == Len(f.text)
             S    == {k \in 0..N : \E g : g = [n \in 0..k |-> Level(f, g, n)]}
  <1>1. 0 \in S
    <2>1. [n \in 0..0 |-> 0] = [n \in 0..0 |-> Level(f, [k \in 0..0 |-> 0], n)]
      BY DEF Level
    <2> QED BY <2>1
  <1>2. ASSUME NEW k \in 1..N, k - 1 \in S  PROVE k \in S
    <2>1. PICK g : g = [n \in 0..(k - 1) |-> Level(f, g, n)]
      BY <1>2
    <2>2. PICK h : h = [n \in 0..k |-> IF n = k THEN Level(f, g, k) ELSE g[n]]
      OBVIOUS
    <2>3. \A n \in 0..k : n # 0 => h[n - 1] = g[n - 1]
      BY <2>2
    <2>4. \A n \in 0..k : Level(f, g, n) = Level(f, h, n)
      BY <2>3 DEF Level
    <2>5. \A n \in 0..k : h[n] = Level(f, h, n)
      <3> TAKE n \in 0..k
      <3>1. CASE n = k
        BY <2>2, <2>4, <3>1
      <3>2. CASE n # k
        <4>1. n \in 0..(k - 1) BY <3>2
        <4>2. g[n] = Level(f, g, n) BY <2>1, <4>1
        <4> QED BY <2>2, <2>4, <3>2, <4>2
      <3> QED BY <3>1, <3>2
    <2>6. h = [n \in 0..k |-> Level(f, h, n)]
      BY <2>2, <2>5
    <2> QED BY <2>6
  <1>3. 0..N \subseteq S
    <2> HIDE DEF S
    <2> QED BY <1>1, <1>2, Upwards
  <1>4. \E g : g = [n \in 0..N |-> Level(f, g, n)]
    BY <1>3
  <1> QED BY <1>4, SkipLevelDef, Zenon

\* Heading o opens a changelog section that reaches line n.
Opens(f, o, n) ==
  /\ f.text[o].heading # 0 /\ f.text[o].changelog
  /\ \A k \in (o + 1)..n : f.text[k].heading \notin 1..f.text[o].heading

\* A section reaches a line if it reached the one before, and no heading ends it there.
LEMMA OpensOne ==
  ASSUME NEW f, f.text \in Seq(Lines), NEW n \in 1..Len(f.text), NEW o \in 1..(n - 1)
  PROVE  Opens(f, o, n) <=> Opens(f, o, n - 1) /\ f.text[n].heading \notin 1..f.text[o].heading
  <1>1. (o + 1)..n = ((o + 1)..(n - 1)) \cup {n}
    OBVIOUS
  <1> QED BY <1>1 DEF Opens

\* The level is that of the innermost changelog heading whose section reaches the line,
\* and 0 if there is none.
LEMMA LevelIsHistory ==
  ASSUME NEW f, f.text \in Seq(Lines), NEW n \in 0..Len(f.text)
  PROVE  /\ SkipLevel(f)[n] \in Nat
         /\ SkipLevel(f)[n] # 0 <=> \E o \in 1..n : Opens(f, o, n)
  <1> DEFINE N == Len(f.text)
             L == SkipLevel(f)
             H(k) == f.text[k].heading
             S == {k \in 0..N :
                     /\ L[k] \in Nat
                     /\ L[k] # 0 => \E o \in 1..k : Opens(f, o, k) /\ H(o) = L[k]
                     /\ \A o \in 1..k : Opens(f, o, k) => L[k] \in 1..H(o)}
  <1>1. N \in Nat /\ \A k \in 1..N : H(k) \in Nat /\ f.text[k].changelog \in BOOLEAN
    <2>1. N \in Nat /\ \A k \in 1..N : f.text[k] \in Lines
      OBVIOUS
    <2>2. \A line \in Lines : line.heading \in Nat /\ line.changelog \in BOOLEAN
      BY DEF Lines
    <2> QED BY <2>1, <2>2
  <1>2. \A k \in 0..N : L[k] = Level(f, L, k)
    BY <1>1, LevelOf
  <1>3. 0 \in S
    BY <1>1, <1>2 DEF Level
  <1>4. ASSUME NEW k \in 1..N, k - 1 \in S  PROVE k \in S
    <2> DEFINE open == IF H(k) \in 1..L[k - 1] THEN 0 ELSE L[k - 1]
    <2>1. k \in 0..N /\ L[k] = IF open = 0 /\ H(k) # 0 /\ f.text[k].changelog THEN H(k) ELSE open
      BY <1>2, <1>1 DEF Level
    <2>2. /\ L[k - 1] \in Nat
          /\ L[k - 1] # 0 => \E o \in 1..(k - 1) : Opens(f, o, k - 1) /\ H(o) = L[k - 1]
          /\ \A o \in 1..(k - 1) : Opens(f, o, k - 1) => L[k - 1] \in 1..H(o)
      BY <1>4
    <2>3. \A o \in 1..(k - 1) : Opens(f, o, k) <=> Opens(f, o, k - 1) /\ H(k) \notin 1..H(o)
      BY OpensOne
    <2>4. Opens(f, k, k) <=> H(k) # 0 /\ f.text[k].changelog
      BY <1>1 DEF Opens
    <2>5. \A o \in 1..k : o = k \/ o \in 1..(k - 1)
      OBVIOUS
    <2> HIDE DEF L, H, S
    <2>6. CASE open = 0 /\ H(k) # 0 /\ f.text[k].changelog
      <3>1. L[k] = H(k) /\ L[k] \in Nat
        BY <2>1, <2>6, <1>1
      <3>2. \A o \in 1..(k - 1) : ~Opens(f, o, k)
        <4> SUFFICES ASSUME NEW o \in 1..(k - 1), Opens(f, o, k)  PROVE FALSE
          OBVIOUS
        <4>1. L[k - 1] \in 1..H(o) /\ H(k) \notin 1..H(o) /\ H(o) \in Nat /\ H(k) \in Nat
          BY <1>1, <2>2, <2>3
        <4> QED BY <2>6, <4>1
      <3>3. L[k] \in 1..H(k) BY <3>1, <2>6
      <3> QED BY <2>1, <2>4, <2>5, <2>6, <3>1, <3>2, <3>3 DEF S
    <2>7. CASE ~(open = 0 /\ H(k) # 0 /\ f.text[k].changelog) /\ open = 0
      <3>1. L[k] = 0
        BY <2>1, <2>7
      <3>2. \A o \in 1..(k - 1) : ~Opens(f, o, k)
        <4> SUFFICES ASSUME NEW o \in 1..(k - 1), Opens(f, o, k)  PROVE FALSE
          OBVIOUS
        <4>1. L[k - 1] \in 1..H(o) /\ H(k) \notin 1..H(o) /\ H(o) \in Nat /\ H(k) \in Nat
          BY <1>1, <2>2, <2>3
        <4> QED BY <2>7, <4>1
      <3>3. ~Opens(f, k, k) BY <2>4, <2>7
      <3> QED BY <2>1, <2>5, <3>1, <3>2, <3>3 DEF S
    <2>8. CASE open # 0
      <3>1. L[k] = L[k - 1] /\ L[k] # 0 /\ H(k) \notin 1..L[k - 1] /\ L[k] \in Nat
        BY <2>1, <2>2, <2>8
      <3>2. PICK o \in 1..(k - 1) : Opens(f, o, k - 1) /\ H(o) = L[k - 1]
        BY <2>2, <3>1
      <3>3. o \in 1..k /\ Opens(f, o, k) /\ H(o) = L[k]
        BY <2>3, <3>1, <3>2
      <3>4. Opens(f, k, k) => L[k] \in 1..H(k)
        BY <1>1, <2>2, <2>4, <3>1
      <3>5. \A q \in 1..(k - 1) : Opens(f, q, k) => L[k] \in 1..H(q)
        BY <2>2, <2>3, <3>1
      <3> QED BY <2>1, <2>5, <3>1, <3>3, <3>4, <3>5 DEF S
    <2> QED BY <2>6, <2>7, <2>8
  <1>5. 0..N \subseteq S
    <2> HIDE DEF S
    <2> QED BY <1>1, <1>3, <1>4, Upwards
  <1>6. n \in S
    BY <1>5
  <1> QED BY <1>6

\* The lines that scannable_lines leaves out are those of the history.
LEMMA ScannableIsCurrent ==
  ASSUME NEW f, f.text \in Seq(Lines)
  PROVE  ScannableLines(f) = {n \in DOMAIN f.text : ~InHistory(f, n)}
  <1>1. ASSUME NEW n \in DOMAIN f.text
        PROVE  InHistory(f, n) <=> f.role = "readme" /\ SkipLevel(f)[n] # 0
    <2>1. n \in 0..Len(f.text) OBVIOUS
    <2>2. InHistory(f, n) <=> f.role = "readme" /\ \E o \in 1..n : Opens(f, o, n)
      BY DEF InHistory, Opens
    <2> QED BY <2>1, <2>2, LevelIsHistory
  <1> QED BY <1>1 DEF ScannableLines

\* Finite sets: images, unions, and what it is to have three members.
LEMMA ImageFinite ==
  ASSUME NEW S, IsFiniteSet(S), NEW g
  PROVE  IsFiniteSet({g[x] : x \in S})
  <1> DEFINE T == {g[x] : x \in S}
             h == [x \in S |-> g[x]]
  <1>1. h \in Surjection(S, T)
    BY DEF Surjection
  <1> QED BY <1>1, FS_Surjection

LEMMA UnionFinite ==
  ASSUME NEW N \in Nat, NEW D, \A n \in 1..N : IsFiniteSet(D[n])
  PROVE  IsFiniteSet(UNION {D[n] : n \in 1..N})
  <1> DEFINE U(k) == UNION {D[n] : n \in 1..k}
             S == {k \in 0..N : IsFiniteSet(U(k))}
  <1>1. 0 \in S
    <2>1. U(0) = {} OBVIOUS
    <2> QED BY <2>1, FS_EmptySet
  <1>2. ASSUME NEW k \in 1..N, k - 1 \in S  PROVE k \in S
    <2>1. IsFiniteSet(U(k - 1)) BY <1>2
    <2>2. 1..k = (1..(k - 1)) \cup {k} OBVIOUS
    <2>3. U(k) = U(k - 1) \cup D[k] BY <2>2
    <2>4. IsFiniteSet(U(k))
      <3>1. PICK V, W : V = U(k - 1) /\ W = D[k] OBVIOUS
      <3>2. IsFiniteSet(V) /\ IsFiniteSet(W) BY <2>1, <3>1
      <3>3. IsFiniteSet(V \cup W) BY <3>2, FS_Union
      <3> QED BY <2>3, <3>1, <3>3
    <2> QED BY <2>4
  <1>3. 0..N \subseteq S
    <2> HIDE DEF S
    <2> QED BY <1>1, <1>2, Upwards
  <1> QED BY <1>3

LEMMA ThreeOf ==
  ASSUME NEW T, IsFiniteSet(T)
  PROVE  Cardinality(T) >= 3 <=> \E a, b, c \in T : a # b /\ a # c /\ b # c
  <1>1. Cardinality(T) \in Nat /\ (Cardinality(T) = 0 <=> T = {})
    BY FS_CardinalityType, FS_EmptySet
  <1>2. ASSUME Cardinality(T) >= 3
        PROVE  \E a, b, c \in T : a # b /\ a # c /\ b # c
    <2>1. PICK a : a \in T BY <1>1, <1>2
    <2>2. IsFiniteSet(T \ {a}) /\ Cardinality(T \ {a}) = Cardinality(T) - 1
      BY <2>1, FS_RemoveElement
    <2>3. PICK b : b \in T \ {a} BY <1>1, <1>2, <2>2, FS_EmptySet
    <2>4. IsFiniteSet((T \ {a}) \ {b}) /\ Cardinality((T \ {a}) \ {b}) = Cardinality(T) - 2
      <3>1. Cardinality((T \ {a}) \ {b}) = Cardinality(T \ {a}) - 1 /\ IsFiniteSet((T \ {a}) \ {b})
        BY <2>2, <2>3, FS_RemoveElement
      <3> QED BY <1>1, <2>2, <3>1
    <2>5. PICK c : c \in (T \ {a}) \ {b} BY <1>1, <1>2, <2>4, FS_EmptySet
    <2> QED BY <2>1, <2>3, <2>5
  <1>3. ASSUME NEW a \in T, NEW b \in T, NEW c \in T, a # b, a # c, b # c
        PROVE  Cardinality(T) >= 3
    <2>1. PICK A : A = {a} OBVIOUS
    <2>2. PICK B : B = A \cup {b} OBVIOUS
    <2>3. PICK C : C = B \cup {c} OBVIOUS
    <2>4. IsFiniteSet(A) /\ Cardinality(A) = 1 BY <2>1, FS_Singleton, Zenon
    <2>5. IsFiniteSet(B) /\ Cardinality(B) = 2
      <3>1. b \notin A BY <1>3, <2>1
      <3>2. IsFiniteSet(B) /\ Cardinality(B) = Cardinality(A) + 1
        BY <2>2, <2>4, <3>1, FS_AddElement, Zenon
      <3> QED BY <2>4, <3>2
    <2>6. IsFiniteSet(C) /\ Cardinality(C) = 3
      <3>1. c \notin B BY <1>3, <2>1, <2>2
      <3>2. IsFiniteSet(C) /\ Cardinality(C) = Cardinality(B) + 1
        BY <2>3, <2>5, <3>1, FS_AddElement, Zenon
      <3> QED BY <2>5, <3>2
    <2>7. C \in SUBSET T BY <1>3, <2>1, <2>2, <2>3
    <2>8. Cardinality(C) <= Cardinality(T) BY <2>7, FS_Subset
    <2> QED BY <1>1, <2>6, <2>8
  <1> QED BY <1>2, <1>3

LEMMA AreThree ==
  ASSUME NEW a, NEW b, NEW c
  PROVE  Cardinality({a, b, c}) = 3 <=> a # b /\ a # c /\ b # c
  <1>1. PICK A : A = {a} OBVIOUS
  <1>2. PICK B : B = A \cup {b} OBVIOUS
  <1>3. PICK C : C = B \cup {c} OBVIOUS
  <1>4. IsFiniteSet(A) /\ Cardinality(A) = 1 BY <1>1, FS_Singleton, Zenon
  <1>5. IsFiniteSet(B) /\ Cardinality(B) = IF b \in A THEN Cardinality(A) ELSE Cardinality(A) + 1
    BY <1>2, <1>4, FS_AddElement, Zenon
  <1>6. Cardinality(C) = IF c \in B THEN Cardinality(B) ELSE Cardinality(B) + 1
    BY <1>3, <1>5, FS_AddElement, Zenon
  <1>7. Cardinality(C) = 3 <=> b \notin A /\ c \notin B
    BY <1>4, <1>5, <1>6
  <1>8. b \notin A /\ c \notin B <=> a # b /\ a # c /\ b # c
    BY <1>1, <1>2
  <1>9. C = {a, b, c}
    BY <1>1, <1>2, <1>3
  <1> QED BY <1>7, <1>8, <1>9, Zenon

\* The groups of ProjectList: two lines are in one exactly when no two neighbouring
\* lines between them name nothing.
LEMMA GroupsAreStretches ==
  ASSUME NEW lines \in SUBSET Nat, NEW a \in lines, NEW c \in lines, a <= c,
         NEW starts,
         \A n : n \in starts <=> n \in lines /\ \A k \in (n - 2)..(n - 1) : k \notin lines
  PROVE  (\E s \in starts : s <= a /\ \A t \in starts : ~(s < t /\ t <= c))
           <=> \A n \in a..(c - 1) : n \in lines \/ n + 1 \in lines
  <1>1. a \in Nat /\ c \in Nat /\ starts \subseteq lines /\ starts \subseteq Nat
    OBVIOUS
  <1>2. ASSUME NEW s \in starts, s <= a, \A t \in starts : ~(s < t /\ t <= c),
               NEW n \in a..(c - 1), n \notin lines, n + 1 \notin lines
        PROVE  FALSE
    <2>1. n \in Nat /\ c # n + 1 /\ c > n BY <1>1, <1>2
    <2>2. PICK T : T = {t \in lines : t > n} OBVIOUS
    <2>3. T \in SUBSET Nat /\ c \in T BY <2>1, <2>2
    <2>4. PICK t \in T : \A u \in T : t <= u BY <2>3, LeastNumber
    <2>5. t \in lines /\ t > n + 1 /\ t <= c
      <3>1. t \in lines /\ t \in Nat /\ t > n /\ t <= c /\ t # n + 1
        BY <1>2, <2>2, <2>3, <2>4
      <3> QED BY <2>1, <3>1
    <2>6. \A u \in (t - 2)..(t - 1) : u \notin lines
      <3> SUFFICES ASSUME NEW u \in (t - 2)..(t - 1), u \in lines  PROVE FALSE
        OBVIOUS
      <3>1. u >= n /\ u # n BY <1>2, <2>1, <2>5
      <3>2. u \in T /\ u < t BY <2>1, <2>2, <2>5, <3>1
      <3> QED BY <2>3, <2>4, <3>2
    <2>7. t \in starts BY <2>5, <2>6
    <2>8. s < t BY <1>1, <1>2, <2>1, <2>5
    <2> QED BY <1>2, <2>5, <2>7, <2>8
  <1>3. ASSUME \A n \in a..(c - 1) : n \in lines \/ n + 1 \in lines
        PROVE  \E s \in starts : s <= a /\ \A t \in starts : ~(s < t /\ t <= c)
    <2>1. PICK first \in lines : \A u \in lines : first <= u
      BY LeastNumber
    <2>2. first \in starts /\ first <= a
      <3>1. \A k \in (first - 2)..(first - 1) : k \notin lines BY <2>1
      <3> QED BY <2>1, <3>1
    <2>3. PICK T : T = {k \in Nat : a - k \in starts} OBVIOUS
    <2>4. T \in SUBSET Nat /\ a - first \in T
      <3>1. a - first \in Nat /\ a - (a - first) = first BY <1>1, <2>2
      <3> QED BY <2>2, <2>3, <3>1
    <2>5. PICK k \in T : \A u \in T : k <= u BY <2>4, LeastNumber
    <2>6. PICK s \in starts : s = a - k BY <2>3, <2>5
    <2>7. k \in Nat /\ s \in Nat /\ s <= a BY <1>1, <2>4, <2>5, <2>6
    <2>8. \A t \in starts : t <= a => t <= s
      <3> SUFFICES ASSUME NEW t \in starts, t <= a  PROVE t <= s
        OBVIOUS
      <3>1. a - t \in Nat /\ a - (a - t) = t BY <1>1
      <3>2. a - t \in T BY <2>3, <3>1
      <3>3. k <= a - t BY <2>5, <3>2
      <3> QED BY <1>1, <2>6, <2>7, <3>1, <3>3
    <2>9. \A t \in starts : t <= c => t <= a
      <3> SUFFICES ASSUME NEW t \in starts, t <= c, ~(t <= a)  PROVE FALSE
        OBVIOUS
      <3>1. t \in Nat /\ \A n \in (t - 2)..(t - 1) : n \notin lines BY <1>1
      <3>2. t - 2 \notin lines /\ t - 1 \notin lines BY <3>1
      <3>3. t - 2 \in a..(c - 1) /\ (t - 2) + 1 = t - 1 BY <1>1, <3>1, <3>2
      <3> QED BY <1>3, <3>2, <3>3
    <2> QED BY <1>1, <2>7, <2>8, <2>9
  <1> QED BY <1>2, <1>3

\* The parts of a line.
LEMMA LineFacts ==
  ASSUME NEW f, f.text \in Seq(Lines), NEW n \in 1..Len(f.text)
  PROVE  /\ f.text[n].heading \in Nat /\ f.text[n].changelog \in BOOLEAN
         /\ DOMAIN f.text[n].says = 1..Len(f.text[n].says) /\ Len(f.text[n].says) \in Nat
  <1>1. f.text[n] \in Lines
    OBVIOUS
  <1>2. \A line \in Lines : /\ line.heading \in Nat /\ line.changelog \in BOOLEAN
                            /\ line.says \in Seq([kind : STRING, of : STRING])
    BY DEF Lines
  <1>3. PICK q \in Seq([kind : STRING, of : STRING]) : q = f.text[n].says
    BY <1>1, <1>2
  <1>4. DOMAIN q = 1..Len(q) /\ Len(q) \in Nat
    OBVIOUS
  <1> QED BY <1>1, <1>2, <1>3, <1>4

\* What the rules of ecosystem_ssot scan for, and what counts.
LEMMA CountsAre ==
  ASSUME NEW f, f.text \in Seq(Lines), NEW c
  PROVE  c \in Counts(f) <=> \E n \in ScannableLines(f) : \E i \in DOMAIN f.text[n].says : c = <<n, i>>
  <1>1. PICK L : L = ScannableLines(f) OBVIOUS
  <1>2. Counts(f) = UNION {{<<n, i>> : i \in DOMAIN f.text[n].says} : n \in L}
    BY <1>1, ScannableIsCurrent, Zenon DEF Counts
  <1> QED BY <1>1, <1>2

LEMMA CountsHave ==
  ASSUME NEW f, f.text \in Seq(Lines), NEW c \in Counts(f)
  PROVE  /\ c = <<c[1], c[2]>> /\ c[1] \in ScannableLines(f) /\ c[2] \in DOMAIN f.text[c[1]].says
         /\ c[1] \in 1..Len(f.text) /\ c[1] \in Nat /\ c[2] \in Nat
  <1>1. PICK n \in ScannableLines(f) : \E i \in DOMAIN f.text[n].says : c = <<n, i>>
    BY CountsAre
  <1>2. PICK i \in DOMAIN f.text[n].says : c = <<n, i>>
    BY <1>1
  <1>3. n \in 1..Len(f.text) /\ n \in Nat
    BY DEF ScannableLines
  <1>4. i \in Nat
    BY <1>3, LineFacts
  <1> QED BY <1>2, <1>3, <1>4

\* The mentions the rules scan for are those that count, of the kinds asked for.
LEMMA MentionsAre ==
  ASSUME NEW f, f.text \in Seq(Lines), NEW kinds, NEW m
  PROVE  m \in Mentions(f, kinds) <=>
           \E c \in Counts(f) : Mention(f, c).kind \in kinds /\ m = <<c[1], c[2], Mention(f, c).of>>
  <1>1. PICK L : L = ScannableLines(f) OBVIOUS
  <1>2. Mentions(f, kinds) =
          UNION {{<<n, i, f.text[n].says[i].of>> :
                    i \in {k \in DOMAIN f.text[n].says : f.text[n].says[k].kind \in kinds}} : n \in L}
    BY <1>1, Zenon DEF Mentions
  <1>3. m \in Mentions(f, kinds) <=>
          \E n \in L : \E i \in DOMAIN f.text[n].says :
            f.text[n].says[i].kind \in kinds /\ m = <<n, i, f.text[n].says[i].of>>
    BY <1>2
  <1>4. ASSUME NEW n \in L, NEW i \in DOMAIN f.text[n].says
        PROVE  /\ <<n, i>> \in Counts(f) /\ Mention(f, <<n, i>>) = f.text[n].says[i]
               /\ <<n, i>>[1] = n /\ <<n, i>>[2] = i
    BY <1>1, CountsAre DEF Mention
  <1>5. ASSUME NEW c \in Counts(f)
        PROVE  c[1] \in L /\ c[2] \in DOMAIN f.text[c[1]].says /\ Mention(f, c) = f.text[c[1]].says[c[2]]
    BY <1>1, CountsHave DEF Mention
  <1>6. ASSUME NEW n \in L, NEW i \in DOMAIN f.text[n].says,
               f.text[n].says[i].kind \in kinds, m = <<n, i, f.text[n].says[i].of>>
        PROVE  \E c \in Counts(f) : Mention(f, c).kind \in kinds /\ m = <<c[1], c[2], Mention(f, c).of>>
    <2>1. PICK c : c = <<n, i>> OBVIOUS
    <2> QED BY <1>4, <1>6, <2>1
  <1>7. ASSUME NEW c \in Counts(f), Mention(f, c).kind \in kinds, m = <<c[1], c[2], Mention(f, c).of>>
        PROVE  m \in Mentions(f, kinds)
    BY <1>3, <1>5, <1>7
  <1> QED BY <1>3, <1>6, <1>7

LEMMA CountsFinite ==
  ASSUME NEW f, f.text \in Seq(Lines)
  PROVE  IsFiniteSet(Counts(f))
  <1> DEFINE D == [n \in 1..Len(f.text) |-> {<<n, i>> : i \in DOMAIN f.text[n].says}]
  <1>1. ASSUME NEW n \in 1..Len(f.text)  PROVE IsFiniteSet(D[n])
    <2>1. PICK k \in Nat : DOMAIN f.text[n].says = 1..k BY LineFacts
    <2>2. IsFiniteSet(1..k) BY FS_Interval
    <2>3. PICK g : g = [i \in 1..k |-> <<n, i>>] OBVIOUS
    <2>4. IsFiniteSet({g[i] : i \in 1..k}) BY <2>2, ImageFinite
    <2>5. {g[i] : i \in 1..k} = D[n] BY <2>1, <2>3
    <2> QED BY <2>4, <2>5
  <1>2. PICK U : U = UNION {D[n] : n \in 1..Len(f.text)} OBVIOUS
  <1>3. IsFiniteSet(U)
    <2>1. Len(f.text) \in Nat OBVIOUS
    <2> HIDE DEF D
    <2> QED BY <1>1, <1>2, <2>1, UnionFinite
  <1>4. Counts(f) \subseteq U
    <2> SUFFICES ASSUME NEW c \in Counts(f)  PROVE c \in U
      OBVIOUS
    <2>1. c[1] \in 1..Len(f.text) /\ c \in D[c[1]] BY CountsHave
    <2> QED BY <1>2, <2>1
  <1> QED BY <1>3, <1>4, FS_Subset

LEMMA FlagIsEmpty ==
  ASSUME NEW found, NEW kind
  PROVE  Flag(found, kind) = {} <=> ~found
  BY Zenon DEF Flag

\* Of the mentions of some kinds, what none of them is of.
LEMMA MentionOf ==
  ASSUME NEW f, f.text \in Seq(Lines), NEW kinds
  PROVE  /\ \A m \in Mentions(f, kinds) :
              \E c \in Counts(f) : Mention(f, c).kind \in kinds /\ Of(m) = Mention(f, c).of
         /\ \A c \in Counts(f) : Mention(f, c).kind \in kinds =>
              \E m \in Mentions(f, kinds) : Of(m) = Mention(f, c).of
  <1>1. ASSUME NEW m \in Mentions(f, kinds)
        PROVE  \E c \in Counts(f) : Mention(f, c).kind \in kinds /\ Of(m) = Mention(f, c).of
    <2>1. PICK c \in Counts(f) : Mention(f, c).kind \in kinds /\ m = <<c[1], c[2], Mention(f, c).of>>
      BY MentionsAre
    <2> QED BY <2>1 DEF Of
  <1>2. ASSUME NEW c \in Counts(f), Mention(f, c).kind \in kinds
        PROVE  \E m \in Mentions(f, kinds) : Of(m) = Mention(f, c).of
    <2>1. PICK m : m = <<c[1], c[2], Mention(f, c).of>> OBVIOUS
    <2>2. m \in Mentions(f, kinds) BY <1>2, <2>1, MentionsAre
    <2> QED BY <2>1, <2>2 DEF Of
  <1> QED BY <1>1, <1>2

LEMMA AllMentions ==
  ASSUME NEW f, f.text \in Seq(Lines), NEW kinds, NEW values
  PROVE  /\ (\A m \in Mentions(f, kinds) : Of(m) \in values) <=>
              \A c \in Counts(f) : Mention(f, c).kind \in kinds => Mention(f, c).of \in values
         /\ (\A m \in Mentions(f, kinds) : Of(m) \notin values) <=>
              \A c \in Counts(f) : Mention(f, c).kind \in kinds => Mention(f, c).of \notin values
  <1>1. PICK M : M = Mentions(f, kinds) OBVIOUS
  <1>2. \A m \in M : \E c \in Counts(f) : Mention(f, c).kind \in kinds /\ Of(m) = Mention(f, c).of
    BY <1>1, MentionOf
  <1>3. \A c \in Counts(f) : Mention(f, c).kind \in kinds => \E m \in M : Of(m) = Mention(f, c).of
    BY <1>1, MentionOf
  <1> QED BY <1>1, <1>2, <1>3

\* The rules that look at one mention at a time.
LEMMA PlainRules ==
  ASSUME NEW f, f.text \in Seq(Lines)
  PROVE  /\ PortLiteral(f) = {} <=>
              \A c \in Counts(f) : Mention(f, c).kind \in {"port", "address"} => Mention(f, c).of = "none"
         /\ KaggleOwnerLiteral(f) = {} <=>
              \A c \in Counts(f) : Mention(f, c).kind \in {"owner", "reference"} => Mention(f, c).of # "ours"
         /\ DocsUrlLiteral(f) = {} <=>
              \A c \in Counts(f) : Mention(f, c).kind = "url" =>
                                     Mention(f, c).of \notin {"base", "below", "beside"}
         /\ WrongKaggleOwner(f) = {} <=>
              \A c \in Counts(f) : Mention(f, c).kind = "reference" => Mention(f, c).of = "ours"
         /\ WrongDocsUrl(f) = {} <=>
              \A c \in Counts(f) : Mention(f, c).kind = "url" => Mention(f, c).of \notin {"host", "beside"}
         /\ LegacyFolder(f) = {} <=> \A c \in Counts(f) : Mention(f, c).kind # "legacy"
  <1>1. PortLiteral(f) = {} <=>
          \A c \in Counts(f) : Mention(f, c).kind \in {"port", "address"} => Mention(f, c).of = "none"
    <2>1. PortLiteral(f) = {} <=> \A m \in Mentions(f, {"port", "address"}) : Of(m) = "none"
      BY FlagIsEmpty, Zenon DEF PortLiteral
    <2> QED BY <2>1, MentionOf
  <1>2. KaggleOwnerLiteral(f) = {} <=>
          \A c \in Counts(f) : Mention(f, c).kind \in {"owner", "reference"} => Mention(f, c).of # "ours"
    <2>1. KaggleOwnerLiteral(f) = {} <=> \A m \in Mentions(f, {"owner", "reference"}) : Of(m) # "ours"
      BY FlagIsEmpty, Zenon DEF KaggleOwnerLiteral
    <2>2. PICK values : values = {"ours"} OBVIOUS
    <2>3. PICK kinds : kinds = {"owner", "reference"} OBVIOUS
    <2>4. (\A m \in Mentions(f, kinds) : Of(m) \notin values) <=>
            \A c \in Counts(f) : Mention(f, c).kind \in kinds => Mention(f, c).of \notin values
      BY AllMentions
    <2> QED BY <2>1, <2>2, <2>3, <2>4
  <1>3. DocsUrlLiteral(f) = {} <=>
          \A c \in Counts(f) : Mention(f, c).kind = "url" =>
                                 Mention(f, c).of \notin {"base", "below", "beside"}
    <2>1. DocsUrlLiteral(f) = {} <=> \A m \in Mentions(f, {"url"}) : Of(m) \notin {"base", "below", "beside"}
      BY FlagIsEmpty, Zenon DEF DocsUrlLiteral
    <2>2. PICK values : values = {"base", "below", "beside"} OBVIOUS
    <2>3. PICK kinds : kinds = {"url"} OBVIOUS
    <2>4. (\A m \in Mentions(f, kinds) : Of(m) \notin values) <=>
            \A c \in Counts(f) : Mention(f, c).kind \in kinds => Mention(f, c).of \notin values
      BY AllMentions
    <2> QED BY <2>1, <2>2, <2>3, <2>4
  <1>4. WrongKaggleOwner(f) = {} <=>
          \A c \in Counts(f) : Mention(f, c).kind = "reference" => Mention(f, c).of = "ours"
    <2>1. WrongKaggleOwner(f) = {} <=> \A m \in Mentions(f, {"reference"}) : Of(m) = "ours"
      BY FlagIsEmpty, Zenon DEF WrongKaggleOwner
    <2> QED BY <2>1, MentionOf
  <1>5. WrongDocsUrl(f) = {} <=>
          \A c \in Counts(f) : Mention(f, c).kind = "url" => Mention(f, c).of \notin {"host", "beside"}
    <2>1. WrongDocsUrl(f) = {} <=> \A m \in Mentions(f, {"url"}) : Of(m) \notin {"host", "beside"}
      BY FlagIsEmpty, Zenon DEF WrongDocsUrl
    <2>2. PICK values : values = {"host", "beside"} OBVIOUS
    <2>3. PICK kinds : kinds = {"url"} OBVIOUS
    <2>4. (\A m \in Mentions(f, kinds) : Of(m) \notin values) <=>
            \A c \in Counts(f) : Mention(f, c).kind \in kinds => Mention(f, c).of \notin values
      BY AllMentions
    <2> QED BY <2>1, <2>2, <2>3, <2>4
  <1>6. LegacyFolder(f) = {} <=> \A c \in Counts(f) : Mention(f, c).kind # "legacy"
    <2>1. LegacyFolder(f) = {} <=> Mentions(f, {"legacy"}) = {}
      BY FlagIsEmpty, Zenon DEF LegacyFolder
    <2> QED BY <2>1, MentionOf
  <1> QED BY <1>1, <1>2, <1>3, <1>4, <1>5, <1>6

Services(f, line, end) == {s \in Mentions(f, {"service"}) : s[1] = line /\ s[2] < end}

\* Some service is named last before a place in a line, and no other one.
LEMMA LastService ==
  ASSUME NEW f, f.text \in Seq(Lines), NEW line, NEW end \in Nat, NEW B,
         B = Services(f, line, end), B # {}
  PROVE  /\ \E s \in B : \A t \in B : t[2] <= s[2]
         /\ \A s, t \in B : s[2] = t[2] => s = t
         /\ \A s \in B : \E c \in Counts(f) : /\ s = <<c[1], c[2], Mention(f, c).of>>
                                               /\ Mention(f, c).kind = "service"
  <1>1. \A s \in B : \E c \in Counts(f) : /\ s = <<c[1], c[2], Mention(f, c).of>>
                                          /\ Mention(f, c).kind = "service"
    BY MentionsAre DEF Services
  <1>2. \A s \in B : s[1] = line /\ s[2] \in Nat /\ s[2] < end
    <2> SUFFICES ASSUME NEW s \in B  PROVE s[1] = line /\ s[2] \in Nat /\ s[2] < end
      OBVIOUS
    <2>1. PICK c \in Counts(f) : s = <<c[1], c[2], Mention(f, c).of>> BY <1>1
    <2>2. c[2] \in Nat BY CountsHave
    <2> QED BY <2>1, <2>2 DEF Services
  <1>3. \E s \in B : \A t \in B : t[2] <= s[2]
    <2>1. PICK T : T = {k \in Nat : \E s \in B : k = end - s[2]} OBVIOUS
    <2>2. PICK any \in B : TRUE OBVIOUS
    <2>3. T \in SUBSET Nat /\ end - any[2] \in T BY <1>2, <2>1, <2>2
    <2>4. PICK k \in T : \A u \in T : k <= u BY <2>3, LeastNumber
    <2>5. PICK s \in B : k = end - s[2] BY <2>1, <2>4
    <2>6. ASSUME NEW t \in B  PROVE t[2] <= s[2]
      <3>1. end - t[2] \in T BY <1>2, <2>1
      <3>2. k <= end - t[2] BY <2>4, <3>1
      <3> QED BY <1>2, <2>5, <3>2
    <2> QED BY <2>6
  <1>4. ASSUME NEW s \in B, NEW t \in B, s[2] = t[2]  PROVE s = t
    <2>1. PICK c \in Counts(f) : s = <<c[1], c[2], Mention(f, c).of>> BY <1>1
    <2>2. PICK d \in Counts(f) : t = <<d[1], d[2], Mention(f, d).of>> BY <1>1
    <2>3. c[1] = d[1] /\ c[2] = d[2] BY <1>2, <1>4, <2>1, <2>2
    <2>4. c = <<c[1], c[2]>> /\ d = <<d[1], d[2]>> BY CountsHave
    <2>5. c = d BY <2>3, <2>4
    <2> QED BY <2>1, <2>2, <2>5
  <1> QED BY <1>1, <1>3, <1>4

\* The port that an address gives is that of the service named last before it in its line.
LEMMA WrongPortExact ==
  ASSUME NEW f, f.text \in Seq(Lines)
  PROVE  WrongPort(f) = {} <=>
           \A c \in Counts(f) : Mention(f, c).kind = "address" =>
             \A s \in NamedLast(f, c) : Mention(f, s).of = Mention(f, c).of
  <1> DEFINE B(m) == Services(f, m[1], m[2])
             near(m) == CHOOSE s \in B(m) : \A t \in B(m) : t[2] <= s[2]
  <1>1. WrongPort(f) = {} <=>
          \A m \in Mentions(f, {"address"}) : B(m) # {} => Of(near(m)) = Of(m)
    BY FlagIsEmpty, Zenon DEF WrongPort, Services
  <1>2. ASSUME NEW m, m[2] \in Nat, B(m) # {}
        PROVE  /\ near(m) \in B(m) /\ \A t \in B(m) : t[2] <= near(m)[2]
               /\ \A s \in B(m) : (\A t \in B(m) : t[2] <= s[2]) => s = near(m)
    <2>1. PICK S : S = B(m) OBVIOUS
    <2>2. PICK n : n = CHOOSE s \in S : \A t \in S : t[2] <= s[2] OBVIOUS
    <2>3. /\ \E s \in S : \A t \in S : t[2] <= s[2]
          /\ \A s, t \in S : s[2] = t[2] => s = t
      BY <1>2, <2>1, LastService
    <2>4. n \in S /\ \A t \in S : t[2] <= n[2]
      BY <2>2, <2>3, Zenon
    <2>5. \A s \in S : s[2] \in Nat
      <3> SUFFICES ASSUME NEW s \in S  PROVE s[2] \in Nat
        OBVIOUS
      <3>1. PICK c \in Counts(f) : s = <<c[1], c[2], Mention(f, c).of>>
        BY <1>2, <2>1, LastService
      <3> QED BY <3>1, CountsHave
    <2>6. \A s \in S : (\A t \in S : t[2] <= s[2]) => s = n
      BY <2>3, <2>4, <2>5
    <2>7. n = near(m) BY <2>1, <2>2, Zenon
    <2> QED BY <2>1, <2>4, <2>6, <2>7
  <1>3. ASSUME NEW c \in Counts(f), NEW s, s \in Counts(f), Mention(f, s).kind = "service",
               s[1] = c[1], s[2] < c[2]
        PROVE  <<s[1], s[2], Mention(f, s).of>> \in Services(f, c[1], c[2])
    <2>1. PICK x : x = <<s[1], s[2], Mention(f, s).of>> OBVIOUS
    <2>2. x \in Mentions(f, {"service"}) BY <1>3, <2>1, MentionsAre
    <2> QED BY <1>3, <2>1, <2>2 DEF Services
  <1> HIDE DEF near
  <1>4. ASSUME WrongPort(f) = {}, NEW c \in Counts(f), Mention(f, c).kind = "address",
               NEW s \in NamedLast(f, c)
        PROVE  Mention(f, s).of = Mention(f, c).of
    <2>0. /\ s \in Counts(f) /\ s[1] = c[1] /\ s[2] < c[2] /\ Mention(f, s).kind = "service"
          /\ \A t \in Counts(f) : t[1] = c[1] /\ s[2] < t[2] /\ t[2] < c[2]
                                    => Mention(f, t).kind # "service"
      BY <1>4 DEF NamedLast
    <2>1. PICK m : m = <<c[1], c[2], Mention(f, c).of>> OBVIOUS
    <2>2. m \in Mentions(f, {"address"}) /\ m[1] = c[1] /\ m[2] = c[2] /\ m[2] \in Nat /\ Of(m) = Mention(f, c).of
      BY <1>4, <2>1, MentionsAre, CountsHave DEF Of
    <2>3. PICK x : x = <<s[1], s[2], Mention(f, s).of>> OBVIOUS
    <2>4. x \in B(m) /\ x[2] = s[2] /\ s[2] \in Nat /\ Of(x) = Mention(f, s).of
      BY <1>3, <2>0, <2>2, <2>3, CountsHave DEF Of
    <2>5. ASSUME NEW y \in B(m)  PROVE y[2] <= x[2]
      <3>1. PICK t \in Counts(f) : y = <<t[1], t[2], Mention(f, t).of>> /\ Mention(f, t).kind = "service"
        BY <2>2, LastService
      <3>2. t[1] = c[1] /\ t[2] < c[2] /\ t[2] \in Nat
        BY <2>2, <3>1, CountsHave DEF Services
      <3> QED BY <2>0, <2>4, <3>1, <3>2
    <2>6. x = near(m) BY <1>2, <2>2, <2>4, <2>5
    <2> QED BY <1>1, <1>4, <2>2, <2>4, <2>6
  <1>5. ASSUME \A c \in Counts(f) : Mention(f, c).kind = "address" =>
                 \A s \in NamedLast(f, c) : Mention(f, s).of = Mention(f, c).of,
               NEW m \in Mentions(f, {"address"}), B(m) # {}
        PROVE  Of(near(m)) = Of(m)
    <2>1. PICK c \in Counts(f) : m = <<c[1], c[2], Mention(f, c).of>> /\ Mention(f, c).kind = "address"
      BY MentionsAre
    <2>2. m[1] = c[1] /\ m[2] = c[2] /\ m[2] \in Nat /\ Of(m) = Mention(f, c).of
      BY <2>1, CountsHave DEF Of
    <2>3. near(m) \in B(m) /\ \A t \in B(m) : t[2] <= near(m)[2]
      BY <1>2, <1>5, <2>2
    <2>4. PICK s \in Counts(f) : near(m) = <<s[1], s[2], Mention(f, s).of>> /\ Mention(f, s).kind = "service"
      BY <2>2, <2>3, LastService
    <2>5. s[1] = c[1] /\ s[2] < c[2] /\ s[2] \in Nat /\ near(m)[2] = s[2] /\ Of(near(m)) = Mention(f, s).of
      BY <2>2, <2>3, <2>4, CountsHave DEF Services, Of
    <2>6. ASSUME NEW t \in Counts(f), t[1] = c[1], s[2] < t[2], t[2] < c[2], Mention(f, t).kind = "service"
          PROVE  FALSE
      <3>1. <<t[1], t[2], Mention(f, t).of>> \in B(m) BY <1>3, <2>2, <2>6
      <3>2. <<t[1], t[2], Mention(f, t).of>>[2] = t[2] /\ t[2] \in Nat BY CountsHave
      <3>3. t[2] <= near(m)[2] BY <2>3, <3>1, <3>2
      <3> QED BY <2>5, <2>6, <3>2, <3>3
    <2>7. s \in NamedLast(f, c)
      BY <2>4, <2>5, <2>6 DEF NamedLast
    <2> QED BY <1>5, <2>1, <2>2, <2>5, <2>7
  <1> QED BY <1>1, <1>4, <1>5

\* Three of a set, from the first to the last.
LEMMA InOrder ==
  ASSUME NEW G, \A m \in G : m[1] \in Nat,
         NEW a \in G, NEW b \in G, NEW c \in G, Of(a) # Of(b), Of(a) # Of(c), Of(b) # Of(c)
  PROVE  \E x, y, z \in G : /\ Of(x) # Of(y) /\ Of(x) # Of(z) /\ Of(y) # Of(z)
                            /\ x[1] <= y[1] /\ y[1] <= z[1]
  <1>1. a[1] \in Nat /\ b[1] \in Nat /\ c[1] \in Nat OBVIOUS
  <1>2. CASE a[1] <= b[1] /\ b[1] <= c[1] BY <1>2
  <1>3. CASE a[1] <= c[1] /\ c[1] <= b[1] BY <1>3
  <1>4. CASE b[1] <= a[1] /\ a[1] <= c[1] BY <1>4
  <1>5. CASE b[1] <= c[1] /\ c[1] <= a[1] BY <1>5
  <1>6. CASE c[1] <= a[1] /\ a[1] <= b[1] BY <1>6
  <1>7. CASE c[1] <= b[1] /\ b[1] <= a[1] BY <1>7
  <1> QED BY <1>1, <1>2, <1>3, <1>4, <1>5, <1>6, <1>7

\* The list of projects is found exactly where the text holds one.
LEMMA ProjectListExact ==
  ASSUME NEW f, f.text \in Seq(Lines)
  PROVE  ProjectList(f) = {} <=> ~ListsProjects(f)
  <1>1. PICK named : named = Mentions(f, {"folder"}) OBVIOUS
  <1>2. PICK lines : lines = {m[1] : m \in named} OBVIOUS
  <1>3. PICK starts : starts = {n \in lines : lines \cap ((n - 2)..(n - 1)) = {}} OBVIOUS
  <1> DEFINE group(s) == {m \in named : m[1] >= s /\ ~\E t \in starts : s < t /\ t <= m[1]}
             told(s)  == {Of(m) : m \in group(s)}
  <1>4. ProjectList(f) = {} <=> ~\E s \in starts : Cardinality(told(s)) >= 3
    <2>1. ProjectList(f) = Flag(\E s \in starts : Cardinality(told(s)) >= 3, "ssot_project_list")
      BY <1>1, <1>2, <1>3 DEF ProjectList, ProjectListGap, ProjectListMinimum
    <2> QED BY <2>1, FlagIsEmpty, Zenon
  <1>5. /\ \A c \in Folders(f) : <<c[1], c[2], Mention(f, c).of>> \in named
        /\ \A m \in named : \E c \in Folders(f) : m = <<c[1], c[2], Mention(f, c).of>>
        /\ \A c \in Folders(f) : c \in Counts(f) /\ c[1] \in Nat
    <2>1. \A c \in Folders(f) : c \in Counts(f) /\ c[1] \in Nat
      BY CountsHave DEF Folders
    <2>2. ASSUME NEW c \in Folders(f)  PROVE <<c[1], c[2], Mention(f, c).of>> \in named
      <3>1. PICK m : m = <<c[1], c[2], Mention(f, c).of>> OBVIOUS
      <3>2. c \in Counts(f) /\ Mention(f, c).kind = "folder" BY DEF Folders
      <3> QED BY <1>1, <3>1, <3>2, MentionsAre
    <2>3. ASSUME NEW m \in named  PROVE \E c \in Folders(f) : m = <<c[1], c[2], Mention(f, c).of>>
      <3>1. PICK c \in Counts(f) : Mention(f, c).kind \in {"folder"} /\ m = <<c[1], c[2], Mention(f, c).of>>
        BY <1>1, MentionsAre
      <3> QED BY <3>1 DEF Folders
    <2> QED BY <2>1, <2>2, <2>3
  <1>6. /\ \A m \in named : \E c \in Folders(f) : c[1] = m[1] /\ Of(m) = Mention(f, c).of
        /\ \A c \in Folders(f) : \E m \in named : c[1] = m[1] /\ Of(m) = Mention(f, c).of
    <2>1. ASSUME NEW m \in named  PROVE \E c \in Folders(f) : c[1] = m[1] /\ Of(m) = Mention(f, c).of
      <3>1. PICK c \in Folders(f) : m = <<c[1], c[2], Mention(f, c).of>> BY <1>5
      <3> QED BY <3>1 DEF Of
    <2>2. ASSUME NEW c \in Folders(f)  PROVE \E m \in named : c[1] = m[1] /\ Of(m) = Mention(f, c).of
      <3>1. PICK m : m = <<c[1], c[2], Mention(f, c).of>> OBVIOUS
      <3>2. m \in named /\ m[1] = c[1] /\ Of(m) = Mention(f, c).of BY <1>5, <3>1 DEF Of
      <3> QED BY <3>2
    <2> QED BY <2>1, <2>2
  <1>7. lines \in SUBSET Nat /\ \A m \in named : m[1] \in lines /\ m[1] \in Nat
    <2>1. ASSUME NEW m \in named  PROVE m[1] \in lines /\ m[1] \in Nat
      BY <1>2, <1>5, <1>6
    <2> QED BY <1>2, <2>1
  <1>8. \A n : n \in lines <=> \E c \in Folders(f) : c[1] = n
    BY <1>2, <1>6
  <1>9. \A n : n \in starts <=> n \in lines /\ \A k \in (n - 2)..(n - 1) : k \notin lines
    BY <1>3
  <1>10. ASSUME NEW k \in lines, NEW m \in lines, k <= m
         PROVE  (\E s \in starts : s <= k /\ \A t \in starts : ~(s < t /\ t <= m))
                  <=> \A n \in k..(m - 1) : n \in lines \/ n + 1 \in lines
    <2>1. lines \in SUBSET Nat BY <1>7
    <2> QED BY <1>9, <1>10, <2>1, GroupsAreStretches
  <1>11. ASSUME NEW s \in starts  PROVE IsFiniteSet(told(s))
    <2>1. PICK S : S = Folders(f) OBVIOUS
    <2>2. IsFiniteSet(S)
      BY <2>1, CountsFinite, FS_Subset DEF Folders
    <2>3. PICK g : g = [c \in S |-> Mention(f, c).of] OBVIOUS
    <2>4. IsFiniteSet({g[c] : c \in S}) BY <2>2, ImageFinite
    <2>5. told(s) \subseteq {g[c] : c \in S} BY <1>6, <2>1, <2>3
    <2> QED BY <2>4, <2>5, FS_Subset
  <1>12. ASSUME NEW s \in starts, Cardinality(told(s)) >= 3  PROVE ListsProjects(f)
    <2>1. PICK T : T = told(s) OBVIOUS
    <2>2. PICK d \in group(s), e \in group(s), g \in group(s) : Of(d) # Of(e) /\ Of(d) # Of(g) /\ Of(e) # Of(g)
      <3>1. \E x, y, z \in T : x # y /\ x # z /\ y # z BY <1>11, <1>12, <2>1, ThreeOf
      <3> QED BY <2>1, <3>1
    <2>3. PICK x \in group(s), y \in group(s), z \in group(s) :
            /\ Of(x) # Of(y) /\ Of(x) # Of(z) /\ Of(y) # Of(z)
            /\ x[1] <= y[1] /\ y[1] <= z[1]
      <3>1. PICK G : G = group(s) OBVIOUS
      <3>2. \A m \in G : m[1] \in Nat BY <1>7, <3>1
      <3> QED BY <2>2, <3>1, <3>2, InOrder
    <2>4. \A n \in x[1]..(z[1] - 1) : n \in lines \/ n + 1 \in lines
      <3>1. PICK k, m : k = x[1] /\ m = z[1] OBVIOUS
      <3>2. k \in lines /\ m \in lines /\ k <= m
        <4>1. x[1] \in Nat /\ y[1] \in Nat /\ z[1] \in Nat BY <1>7
        <4> QED BY <1>7, <2>3, <3>1, <4>1
      <3>3. s <= k /\ \A t \in starts : ~(s < t /\ t <= m)
        BY <3>1
      <3>4. \A n \in k..(m - 1) : n \in lines \/ n + 1 \in lines
        BY <1>10, <3>2, <3>3
      <3> QED BY <3>1, <3>4
    <2>5. PICK a \in Folders(f), b \in Folders(f), c \in Folders(f) :
            /\ a[1] = x[1] /\ Of(x) = Mention(f, a).of
            /\ b[1] = y[1] /\ Of(y) = Mention(f, b).of
            /\ c[1] = z[1] /\ Of(z) = Mention(f, c).of
      BY <1>6
    <2>6. Cardinality({Mention(f, a).of, Mention(f, b).of, Mention(f, c).of}) = 3
      <3>1. PICK u, v, w : u = Of(x) /\ v = Of(y) /\ w = Of(z) OBVIOUS
      <3>2. u # v /\ u # w /\ v # w BY <2>3, <3>1
      <3>3. Cardinality({u, v, w}) = 3 BY <3>2, AreThree, ZenonT(40)
      <3> QED BY <2>5, <3>1, <3>3
    <2>7. \A n \in a[1]..(c[1] - 1) : \E m \in Folders(f) : m[1] \in {n, n + 1}
      BY <1>8, <2>4, <2>5
    <2> QED BY <2>3, <2>5, <2>6, <2>7 DEF ListsProjects
  <1>13. ASSUME ListsProjects(f)  PROVE \E s \in starts : Cardinality(told(s)) >= 3
    <2>1. PICK a \in Folders(f), b \in Folders(f), c \in Folders(f) :
            /\ Cardinality({Mention(f, a).of, Mention(f, b).of, Mention(f, c).of}) = 3
            /\ a[1] <= b[1] /\ b[1] <= c[1]
            /\ \A n \in a[1]..(c[1] - 1) : \E m \in Folders(f) : m[1] \in {n, n + 1}
      BY <1>13 DEF ListsProjects
    <2>2. PICK x \in named, y \in named, z \in named :
            /\ a[1] = x[1] /\ Of(x) = Mention(f, a).of
            /\ b[1] = y[1] /\ Of(y) = Mention(f, b).of
            /\ c[1] = z[1] /\ Of(z) = Mention(f, c).of
      BY <1>6
    <2>3. Of(x) # Of(y) /\ Of(x) # Of(z) /\ Of(y) # Of(z)
      <3>1. PICK u, v, w : u = Mention(f, a).of /\ v = Mention(f, b).of /\ w = Mention(f, c).of
        OBVIOUS
      <3>2. Cardinality({u, v, w}) = 3 BY <2>1, <3>1, Zenon
      <3>3. u # v /\ u # w /\ v # w BY <3>2, AreThree, Zenon
      <3> QED BY <2>2, <3>1, <3>3
    <2>4. PICK k, m : k = x[1] /\ m = z[1] OBVIOUS
    <2>5. k \in lines /\ m \in lines /\ k <= y[1] /\ y[1] <= m /\ k <= m /\ y[1] \in Nat
      <3>1. x[1] \in Nat /\ y[1] \in Nat /\ z[1] \in Nat BY <1>7
      <3> QED BY <1>7, <2>1, <2>2, <2>4, <3>1
    <2>6. \A n \in k..(m - 1) : n \in lines \/ n + 1 \in lines
      BY <1>8, <2>1, <2>2, <2>4
    <2>7. PICK s \in starts : s <= k /\ \A t \in starts : ~(s < t /\ t <= m)
      BY <1>10, <2>5, <2>6
    <2>8. x \in group(s) /\ y \in group(s) /\ z \in group(s)
      <3>1. \A u \in named : u[1] \in {k, y[1], m} => u \in group(s)
        <4> SUFFICES ASSUME NEW u \in named, u[1] \in {k, y[1], m}  PROVE u \in group(s)
          OBVIOUS
        <4>1. u[1] \in Nat /\ k \in Nat /\ m \in Nat /\ s \in Nat /\ u[1] <= m /\ k <= u[1]
          <5>1. k \in Nat /\ m \in Nat BY <1>7, <2>5
          <5>2. s \in Nat BY <1>7, <1>9
          <5>3. u[1] \in Nat BY <1>7
          <5> QED BY <2>5, <5>1, <5>2, <5>3
        <4>2. u[1] >= s BY <2>7, <4>1
        <4>3. \A t \in starts : ~(s < t /\ t <= u[1])
          <5> SUFFICES ASSUME NEW t \in starts, s < t, t <= u[1]  PROVE FALSE
            OBVIOUS
          <5>1. t \in Nat BY <1>7, <1>9
          <5> QED BY <2>7, <4>1, <5>1
        <4> QED BY <4>2, <4>3
      <3> QED BY <2>4, <3>1
    <2>9. PICK T : T = told(s) OBVIOUS
    <2>10. IsFiniteSet(T) /\ Of(x) \in T /\ Of(y) \in T /\ Of(z) \in T
      BY <1>11, <2>8, <2>9
    <2>11. Cardinality(T) >= 3 BY <2>3, <2>10, ThreeOf
    <2> QED BY <2>9, <2>11
  <1> QED BY <1>4, <1>12, <1>13

-----------------------------------------------------------------------------
(* The gates that run an external tool.                                     *)

Gate(p, tool) ==
  CASE tool = "yamllint"      -> Yamllint(p)
    [] tool = "markdownlint"  -> Markdownlint(p)
    [] tool = "eslint"        -> Eslint(p)
    [] tool = "tsc"           -> Tsc(p)
    [] tool = "html-validate" -> HtmlValidate(p)
    [] tool = "pa11y"         -> Pa11y(p)
    [] tool = "pssa"          -> PSScriptAnalyzer(p)
    [] tool = "pylint"        -> Pylint(p)

\* A process, field by field, and its exit status by the way it ends.
LEMMA ProcessFields ==
  ASSUME NEW p, NEW tool, NEW found
  PROVE  /\ Process(p, tool, found).raised = (p.tools[tool] = "raises")
         /\ Process(p, tool, found).parsed = (found /\ p.tools[tool] \in {"well", "partial"})
         /\ Process(p, tool, found).report = (p.tools[tool] \in {"well", "partial"})
  BY Zenon DEF Process

LEMMA ExitStatus ==
  ASSUME NEW p, NEW tool \in Tools, NEW found
  PROVE  /\ p.tools[tool] = "well" =>
              Process(p, tool, found).exit = IF found THEN FindingExit[tool] ELSE 0
         /\ p.tools[tool] = "missing" => Process(p, tool, found).exit = 1
         /\ p.tools[tool] = "usage" =>
              Process(p, tool, found).exit = IF tool = "pylint" THEN 32 ELSE 2
         /\ p.tools[tool] = "partial" =>
              Process(p, tool, found).exit = IF tool = "pylint" THEN 1 ELSE 2
         /\ p.tools[tool] = "killed" => Process(p, tool, found).exit = -9
  <1>1. PICK how : how = p.tools[tool] OBVIOUS
  <1>2. PICK met : met = IF found THEN FindingExit[tool] ELSE 0 OBVIOUS
  <1>3. Process(p, tool, found).exit =
          CASE how = "well"    -> met
            [] how = "missing" -> 1
            [] how = "usage"   -> IF tool = "pylint" THEN 32 ELSE 2
            [] how = "partial" -> IF tool = "pylint" THEN 1 ELSE 2
            [] how = "killed"  -> -9
            [] OTHER           -> 0
    BY <1>1, <1>2, Zenon DEF Process
  <1> QED BY <1>1, <1>2, <1>3

\* A linter reports nothing exactly when its process did its work and found nothing.
LEMMA LintExact ==
  ASSUME NEW p, NEW tool \in Tools, p.tools[tool] \in Endings, NEW found \in BOOLEAN
  PROVE  Lint(p, tool, found) = {} <=> p.tools[tool] = "well" /\ ~found
  <1>1. PICK how : how = p.tools[tool] OBVIOUS
  <1>2. PICK proc : proc = Process(p, tool, found) OBVIOUS
  <1>3. /\ proc.raised <=> how = "raises"
        /\ proc.parsed <=> found /\ how \in {"well", "partial"}
    BY <1>1, <1>2, ProcessFields, Zenon
  <1>4. Lint(p, tool, found) = {} <=> ~proc.raised /\ ~proc.parsed /\ (proc.exit = 0 \/ proc.parsed)
    <2>1. Lint(p, tool, found) = IF proc.raised THEN {"tool_error"}
                                 ELSE Flag(proc.parsed, tool) \cup UnexplainedExit(proc)
      BY <1>2, Zenon DEF Lint
    <2>2. UnexplainedExit(proc) = {} <=> ~(proc.exit # 0 /\ ~proc.parsed)
      BY FlagIsEmpty, Zenon DEF UnexplainedExit
    <2>3. Flag(proc.parsed, tool) = {} <=> ~proc.parsed BY FlagIsEmpty, Zenon
    <2> QED BY <2>1, <2>2, <2>3
  <1>5. /\ how = "well" /\ ~found => proc.exit = 0
        /\ how = "missing" => proc.exit = 1
        /\ how = "usage" => proc.exit \in {2, 32}
        /\ how = "partial" => proc.exit \in {1, 2}
        /\ how = "killed" => proc.exit = -9
    <2>1. (IF tool = "pylint" THEN 32 ELSE 2) \in {2, 32} OBVIOUS
    <2>2. (IF tool = "pylint" THEN 1 ELSE 2) \in {1, 2} OBVIOUS
    <2>3. ~found => (IF found THEN FindingExit[tool] ELSE 0) = 0 BY Zenon
    <2> QED BY <1>1, <1>2, <2>1, <2>2, <2>3, ExitStatus, ZenonT(60)
  <1>6. how \in Endings BY <1>1
  <1>7. /\ ~found /\ how # "raises" => (proc.exit = 0 <=> how = "well")
        /\ found /\ ~proc.parsed /\ ~proc.raised => proc.exit # 0
        /\ ~found => ~proc.parsed
    BY <1>3, <1>5, <1>6 DEF Endings
  <1>9. p.tools[tool] = "well" <=> how = "well" BY <1>1, Zenon
  <1> QED BY <1>3, <1>4, <1>7, <1>9

\* What a gate reports, of a tool that runs: nothing, exactly when the tool did its
\* work and found nothing.  A tool that is missing, misconfigured, killed, broken off
\* or timed out never leaves a gate silent, whatever it had found by then.
THEOREM GatesAreExact ==
  ASSUME NEW p, NEW tool \in Tools, p.tools[tool] \in Endings, Runs(p, tool)
  PROVE  Gate(p, tool) = {} <=> p.tools[tool] = "well" /\ Flawless(p, tool)
  <1> DEFINE found == Faulty(RunOn(p, tool))
  <1>1. found \in BOOLEAN BY DEF Faulty
  <1>3. Lint(p, tool, found) = {} <=> p.tools[tool] = "well" /\ ~found
    BY <1>1, LintExact, Zenon
  <1>4. tool # "pa11y" => (Flawless(p, tool) <=> ~found) BY Zenon DEF Flawless
  <1>5. PICK how : how = p.tools[tool] OBVIOUS
  <1>6. PICK proc : proc = Process(p, tool, found) OBVIOUS
  <1>7. /\ proc.raised <=> how = "raises"
        /\ proc.parsed <=> found /\ how \in {"well", "partial"}
        /\ proc.report <=> how \in {"well", "partial"}
    BY <1>5, <1>6, ProcessFields, Zenon
  <1>8. /\ how = "well" => proc.exit = IF found THEN FindingExit[tool] ELSE 0
        /\ how = "missing" => proc.exit = 1
        /\ how = "usage" => proc.exit = IF tool = "pylint" THEN 32 ELSE 2
        /\ how = "partial" => proc.exit = IF tool = "pylint" THEN 1 ELSE 2
        /\ how = "killed" => proc.exit = -9
    BY <1>5, <1>6, ExitStatus, ZenonT(60)
  <1>9. how \in Endings BY <1>5
  <1>10. how = p.tools[tool] /\ (Flag(proc.parsed, tool) = {} <=> ~proc.parsed)
    BY <1>5, FlagIsEmpty, Zenon
  <1>11. CASE tool \in {"markdownlint", "tsc", "html-validate"}
    <2>1. Gate(p, tool) = Lint(p, tool, found)
      <3>1. CASE tool = "markdownlint"
        BY <3>1, Zenon DEF Runs, RunOn, Gate, Markdownlint
      <3>2. CASE tool = "tsc"
        BY <3>2, Zenon DEF Runs, RunOn, Gate, Tsc
      <3>3. CASE tool = "html-validate"
        BY <3>3, Zenon DEF Runs, RunOn, Gate, HtmlValidate
      <3> QED BY <1>11, <3>1, <3>2, <3>3
    <2> QED BY <1>3, <1>4, <1>11, <2>1, Zenon
  <1>12. CASE tool = "yamllint"
    <2>1. Gate(p, tool) = Lint(p, tool, found)
                            \cup Flag(~proc.raised /\ proc.exit \notin {0, 1}, "tool_error")
      BY <1>6, <1>12, Zenon DEF Runs, RunOn, Gate, Yamllint
    <2>2. how = "well" /\ ~found => proc.exit = 0 BY <1>8, Zenon
    <2>3. Flag(~proc.raised /\ proc.exit \notin {0, 1}, "tool_error") = {}
            <=> ~(~proc.raised /\ proc.exit \notin {0, 1})
      BY FlagIsEmpty, Zenon
    <2>4. Lint(p, tool, found) = {} => ~(~proc.raised /\ proc.exit \notin {0, 1})
      BY <1>3, <1>5, <2>2, Zenon
    <2> QED BY <1>3, <1>4, <1>12, <2>1, <2>3, <2>4
  <1>13. CASE tool = "pssa"
    <2>1. Gate(p, tool) = IF how = "missing" THEN {"tool_error"} ELSE Lint(p, tool, found)
      BY <1>5, <1>13, Zenon DEF Runs, RunOn, Gate, PSScriptAnalyzer
    <2> QED BY <1>3, <1>4, <1>5, <1>13, <2>1
  <1>14. CASE tool = "eslint"
    <2>1. Gate(p, tool) = IF proc.raised \/ ~proc.report THEN {"tool_error"}
                          ELSE Flag(proc.parsed, tool) \cup Flag(proc.exit \notin {0, 1}, "tool_error")
      BY <1>6, <1>14, Zenon DEF Runs, RunOn, Gate, Eslint
    <2>2. how = "well" /\ ~found => proc.exit = 0 BY <1>8, Zenon
    <2>3. how = "partial" => proc.exit = 2
      <3>1. (IF tool = "pylint" THEN 1 ELSE 2) = 2 BY <1>14
      <3> QED BY <1>8, <3>1, Zenon
    <2>4. Flag(proc.exit \notin {0, 1}, "tool_error") = {} <=> proc.exit \in {0, 1}
      BY FlagIsEmpty, Zenon
    <2>5. Gate(p, tool) = {} <=> ~proc.raised /\ proc.report /\ ~proc.parsed /\ proc.exit \in {0, 1}
      BY <1>10, <2>1, <2>4
    <2>6. how \in {"well", "partial"} /\ ~found /\ proc.exit \in {0, 1} => how = "well"
      BY <2>3
    <2>7. Gate(p, tool) = {} <=> how = "well" /\ ~found
      BY <1>7, <2>2, <2>5, <2>6, Zenon
    <2> QED BY <1>4, <1>10, <1>14, <2>7, Zenon
  <1>15. CASE tool = "pylint"
    <2>1. Gate(p, tool) = IF proc.raised \/ (FatalOrUsage(proc.exit) /\ ~proc.parsed)
                          THEN {"tool_error"} ELSE Flag(proc.parsed, tool)
      BY <1>6, <1>15, Zenon DEF Runs, RunOn, Gate, Pylint
    <2>2. /\ how = "well" /\ ~found => proc.exit = 0
          /\ how = "missing" => proc.exit = 1
          /\ how = "usage" => proc.exit = 32
          /\ how = "partial" => proc.exit = 1
          /\ how = "killed" => proc.exit = -9
      BY <1>8, <1>15, Zenon
    <2>3. ~FatalOrUsage(0) /\ FatalOrUsage(1) /\ FatalOrUsage(32) /\ FatalOrUsage(-9)
      <3>1. 0 % 2 = 0 /\ 0 \div 32 = 0 /\ 1 % 2 = 1 OBVIOUS
      <3>2. 32 \div 32 = 1 OBVIOUS
      <3>3. \E n \in Int : n = -9 /\ n % 2 = 1 OBVIOUS
      <3>4. (-9) % 2 = 1 BY <3>3, Zenon
      <3>5. 0 # 1 OBVIOUS
      <3> QED BY <3>1, <3>2, <3>4, <3>5, Zenon DEF FatalOrUsage
    <2>4. how # "raises" /\ ~found => (FatalOrUsage(proc.exit) <=> how # "well")
      BY <1>9, <2>2, <2>3 DEF Endings
    <2>5. how \notin {"raises", "well", "partial"} => FatalOrUsage(proc.exit)
      BY <1>9, <2>2, <2>3 DEF Endings
    <2>6. Gate(p, tool) = {} <=>
            ~proc.raised /\ ~proc.parsed /\ ~(FatalOrUsage(proc.exit) /\ ~proc.parsed)
      BY <1>10, <2>1
    <2>7. Gate(p, tool) = {} <=> how = "well" /\ ~found
      BY <1>7, <2>4, <2>5, <2>6, Zenon
    <2> QED BY <1>4, <1>10, <1>15, <2>7, Zenon
  <1>16. CASE tool = "pa11y"
    <2>1. Gate(p, tool) = UNION {Lint(p, tool, "wcag" \in f.flaws) : f \in RunOn(p, tool)}
      BY <1>16, Zenon DEF RunOn, Gate, Pa11y
    <2>2. \A f \in RunOn(p, tool) :
            Lint(p, tool, "wcag" \in f.flaws) = {} <=> how = "well" /\ "wcag" \notin f.flaws
      <3> TAKE f \in RunOn(p, tool)
      <3>1. ("wcag" \in f.flaws) \in BOOLEAN OBVIOUS
      <3> QED BY <1>5, <3>1, LintExact, Zenon
    <2>3. Gate(p, tool) = {} <=> \A f \in RunOn(p, tool) : Lint(p, tool, "wcag" \in f.flaws) = {}
      <3>1. PICK R : R = RunOn(p, tool) OBVIOUS
      <3>2. PICK L : L = [f \in R |-> Lint(p, tool, "wcag" \in f.flaws)] OBVIOUS
      <3>3. \A f \in R : L[f] = Lint(p, tool, "wcag" \in f.flaws) BY <3>2, Zenon
      <3>4. Gate(p, tool) = UNION {L[f] : f \in R} BY <2>1, <3>1, <3>3, Zenon
      <3>5. Gate(p, tool) = {} <=> \A f \in R : L[f] = {} BY <3>4
      <3> QED BY <3>1, <3>3, <3>5, Zenon
    <2>4. RunOn(p, tool) # {} BY <1>16, Zenon DEF Runs
    <2>5. Flawless(p, tool) <=> \A f \in RunOn(p, tool) : "wcag" \notin f.flaws
      BY <1>16, Zenon DEF Flawless
    <2> QED BY <1>10, <2>2, <2>3, <2>4, <2>5, Zenon
  <1> QED BY <1>11, <1>12, <1>13, <1>14, <1>15, <1>16 DEF Tools

-----------------------------------------------------------------------------
(* The gates that read the files.                                           *)

\* A file is skipped, or scanned in one of two modes.
LEMMA ModeIs ==
  ASSUME NEW kind, NEW f
  PROVE  FileMode(kind, f) \in {"skip", "strict", "consistency"}
  BY Zenon DEF FileMode

\* Code is clean exactly when it spells nothing out, a document when it spells it right.
LEMMA StrictExact ==
  ASSUME NEW f, f.text \in Seq(Lines)
  PROVE  StrictFindings(f) = {} <=> SpellsNothingOut(f)
  <1>1. StrictFindings(f) = {} <=>
          /\ PortLiteral(f) = {} /\ KaggleOwnerLiteral(f) = {} /\ DocsUrlLiteral(f) = {}
          /\ ProjectList(f) = {} /\ LegacyFolder(f) = {}
    BY DEF StrictFindings
  <1> QED BY <1>1, PlainRules, ProjectListExact, Zenon DEF SpellsNothingOut

LEMMA ConsistencyExact ==
  ASSUME NEW f, f.text \in Seq(Lines)
  PROVE  ConsistencyFindings(f) = {} <=> SpellsRight(f)
  <1>1. ConsistencyFindings(f) = {} <=>
          /\ WrongPort(f) = {} /\ WrongKaggleOwner(f) = {} /\ WrongDocsUrl(f) = {}
          /\ LegacyFolder(f) = {}
    BY DEF ConsistencyFindings
  <1> QED BY <1>1, PlainRules, WrongPortExact, Zenon DEF SpellsRight

\* A file that can be read is scanned to the same effect.
LEMMA ScanExact ==
  ASSUME NEW kind, NEW f, f.text \in Seq(Lines), f.readable
  PROVE  (FileMode(kind, f) # "skip" => ScanFile(f, FileMode(kind, f)) = {}) <=> TextSound(kind, f)
  <1>1. PICK mode : mode = FileMode(kind, f) OBVIOUS
  <1>2. mode \in {"skip", "strict", "consistency"} BY <1>1, ModeIs
  <1>3. ScanFile(f, mode) = IF mode = "consistency" THEN ConsistencyFindings(f) ELSE StrictFindings(f)
    BY Zenon DEF ScanFile
  <1>4. /\ mode = "strict" => (ScanFile(f, mode) = {} <=> SpellsNothingOut(f))
        /\ mode = "consistency" => (ScanFile(f, mode) = {} <=> SpellsRight(f))
    BY <1>3, StrictExact, ConsistencyExact
  <1>5. TextSound(kind, f) <=> (mode = "strict" => SpellsNothingOut(f))
                                 /\ (mode = "consistency" => SpellsRight(f))
    BY <1>1, Zenon DEF TextSound
  <1> QED BY <1>1, <1>2, <1>4, <1>5

LEMMA UnionEmpty ==
  ASSUME NEW S, NEW L
  PROVE  UNION {L[x] : x \in S} = {} <=> \A x \in S : L[x] = {}
  OBVIOUS

\* scan_project_literals finds nothing exactly when every walked text is sound.
LEMMA LiteralsExact ==
  ASSUME NEW p, \A f \in p.files : f.type \in TextTypes /\ f.text \in Seq(Lines),
         \A f \in Walked(p) : f.readable
  PROVE  SsotLiterals(p) = {} <=> \A f \in Walked(p) : TextSound(p.kind, f)
  <1>1. PICK S : S = {g \in Walked(p) : g.type \in TextTypes /\ FileMode(p.kind, g) # "skip"} OBVIOUS
  <1>2. PICK L : L = [f \in S |-> ScanFile(f, FileMode(p.kind, f))] OBVIOUS
  <1>3. SsotLiterals(p) = UNION {L[f] : f \in S}
    <2>1. \A f \in S : L[f] = ScanFile(f, FileMode(p.kind, f)) BY <1>2
    <2> QED BY <1>1, <2>1, Zenon DEF SsotLiterals
  <1>4. SsotLiterals(p) = {} <=> \A f \in S : ScanFile(f, FileMode(p.kind, f)) = {}
    BY <1>2, <1>3, UnionEmpty
  <1>5. ASSUME NEW f \in Walked(p)
        PROVE  (f \in S => ScanFile(f, FileMode(p.kind, f)) = {}) <=> TextSound(p.kind, f)
    <2>1. f.type \in TextTypes /\ f.text \in Seq(Lines) /\ f.readable BY DEF Walked
    <2>2. f \in S <=> FileMode(p.kind, f) # "skip" BY <1>1, <2>1, Zenon
    <2>3. (FileMode(p.kind, f) # "skip" => ScanFile(f, FileMode(p.kind, f)) = {}) <=> TextSound(p.kind, f)
      BY <2>1, ScanExact
    <2> QED BY <2>2, <2>3, Zenon
  <1>6. S \subseteq Walked(p) BY <1>1
  <1> QED BY <1>4, <1>5, <1>6, Zenon

\* The gates that read the files find nothing exactly when every file is sound.
LEMMA FilesExact ==
  ASSUME NEW p, \A f \in p.files : f.type \in TextTypes /\ f.text \in Seq(Lines)
  PROVE  (/\ CompileErrors(p) = {} /\ EmojiViolations(p) = {} /\ Suppressions(p) = {}
          /\ AbsolutePaths(p) = {} /\ Jsonlint(p) = {} /\ SsotLiterals(p) = {})
           <=> \A f \in p.files : FileSound(p.kind, f)
  <1>1. CompileErrors(p) = {} <=> \A f \in Walked(p) : f.type = "py" => f.readable /\ f.parses
    BY FlagIsEmpty, Zenon DEF CompileErrors
  <1>2. EmojiViolations(p) = {} <=>
          \A f \in Walked(p) : f.type \in Scannable => f.readable /\ "emoji" \notin f.flaws
    BY FlagIsEmpty, Zenon DEF EmojiViolations
  <1>3. AbsolutePaths(p) = {} <=>
          \A f \in Walked(p) : f.type \in TextTypes => f.readable /\ "path" \notin f.flaws
    BY FlagIsEmpty, Zenon DEF AbsolutePaths
  <1>4. Suppressions(p) = {} <=>
          \A f \in Walked(p) : f.type \in {"py", "ts", "js", "rs"} =>
            f.readable /\ ~("suppression" \in f.flaws /\ (f.type = "py" => f.parses))
    <2>1. PICK read : read = {f \in Walked(p) : f.type \in {"py", "ts", "js", "rs"}} OBVIOUS
    <2>2. Suppressions(p) = Flag(\E f \in read : ~f.readable, "read_error")
            \cup Flag(\E f \in read : "suppression" \in f.flaws /\ (f.type = "py" => f.parses), "suppression")
      BY <2>1, Zenon DEF Suppressions
    <2>3. Flag(\E f \in read : ~f.readable, "read_error") = {} <=> \A f \in read : f.readable
      BY FlagIsEmpty, Zenon
    <2>4. Flag(\E f \in read : "suppression" \in f.flaws /\ (f.type = "py" => f.parses), "suppression") = {}
            <=> \A f \in read : ~("suppression" \in f.flaws /\ (f.type = "py" => f.parses))
      BY FlagIsEmpty, Zenon
    <2>5. Suppressions(p) = {} <=>
            \A f \in read : f.readable /\ ~("suppression" \in f.flaws /\ (f.type = "py" => f.parses))
      BY <2>2, <2>3, <2>4
    <2> QED BY <2>1, <2>5, Zenon
  <1>5. Jsonlint(p) = {} <=>
          \A f \in p.files : f.place \in {"source", "images"} /\ f.type = "json" => f.readable /\ f.parses
    <2>1. Jsonlint(p) = {} <=> \A f \in In(p, {"source", "images"}, {"json"}) : f.readable /\ f.parses
      BY FlagIsEmpty, Zenon DEF Jsonlint
    <2>2. PICK S : S = In(p, {"source", "images"}, {"json"}) OBVIOUS
    <2>3. S = {f \in p.files : f.place \in {"source", "images"} /\ f.type = "json"}
      BY <2>2 DEF In
    <2> QED BY <2>1, <2>2, <2>3, Zenon
  <1>6. PICK W : W = Walked(p) OBVIOUS
  <1>7. W = {f \in p.files : f.place = "source" /\ ~f.big} BY <1>6 DEF Walked
  <1>8. \A f \in W : f.type \in TextTypes BY <1>7
  <1>9. (\A f \in W : f.readable) => (SsotLiterals(p) = {} <=> \A f \in W : TextSound(p.kind, f))
    BY <1>6, LiteralsExact, Zenon
  <1>10. \A f : (\A flaw \in DOMAIN Sought : f.type \in Sought[flaw] => flaw \notin f.flaws) <=>
                  /\ f.type \in Scannable => "emoji" \notin f.flaws
                  /\ f.type \in {"py", "ts", "js", "rs"} => "suppression" \notin f.flaws
                  /\ f.type \in TextTypes => "path" \notin f.flaws
    <2>1. /\ DOMAIN Sought = {"emoji", "suppression", "path"} /\ Sought["emoji"] = Scannable
          /\ Sought["suppression"] = {"py", "ts", "js", "rs"} /\ Sought["path"] = TextTypes
      BY DEF Sought
    <2> QED BY <2>1
  <1>11. (\A f \in p.files : FileSound(p.kind, f)) <=>
           /\ \A f \in W : /\ f.readable /\ (f.type = "py" => f.parses) /\ TextSound(p.kind, f)
                           /\ f.type \in Scannable => "emoji" \notin f.flaws
                           /\ f.type \in {"py", "ts", "js", "rs"} => "suppression" \notin f.flaws
                           /\ f.type \in TextTypes => "path" \notin f.flaws
           /\ \A f \in p.files : f.place \in {"source", "images"} /\ f.type = "json" => f.readable /\ f.parses
    <2>1. \A f \in p.files : FileSound(p.kind, f) <=>
            /\ f \in W => /\ f.readable /\ (f.type = "py" => f.parses) /\ TextSound(p.kind, f)
                          /\ f.type \in Scannable => "emoji" \notin f.flaws
                          /\ f.type \in {"py", "ts", "js", "rs"} => "suppression" \notin f.flaws
                          /\ f.type \in TextTypes => "path" \notin f.flaws
            /\ f.place \in {"source", "images"} /\ f.type = "json" => f.readable /\ f.parses
      BY <1>7, <1>10, Zenon DEF FileSound
    <2>2. W \subseteq p.files BY <1>7
    <2> QED BY <2>1, <2>2, Zenon
  <1>12. \A f \in W : f.type = "py" => f.type \in {"py", "ts", "js", "rs"} OBVIOUS
  <1>13. ASSUME \A f \in W : f.readable
         PROVE  (/\ CompileErrors(p) = {} /\ EmojiViolations(p) = {} /\ Suppressions(p) = {}
                 /\ AbsolutePaths(p) = {})
                  <=> \A f \in W : /\ f.type = "py" => f.parses
                                   /\ f.type \in Scannable => "emoji" \notin f.flaws
                                   /\ f.type \in {"py", "ts", "js", "rs"} => "suppression" \notin f.flaws
                                   /\ f.type \in TextTypes => "path" \notin f.flaws
    BY <1>1, <1>2, <1>3, <1>4, <1>6, <1>12, <1>13, Zenon
  <1>14. AbsolutePaths(p) = {} => \A f \in W : f.readable
    BY <1>3, <1>6, <1>8, Zenon
  <1> QED BY <1>5, <1>9, <1>11, <1>13, <1>14, Zenon

-----------------------------------------------------------------------------
(* The registry of gates, the repository and the single projects.           *)

\* The gates of these tools are registered with a condition on the project.
Registered(p, tool) ==
  /\ tool \in {"eslint", "tsc"} => IsNode(p)
  /\ tool \in {"html-validate", "pa11y"} => HasStaticHtml(p)

\* Such a gate is silent when its tool has nothing to do.
LEMMA NothingToDo ==
  ASSUME NEW p, NEW tool \in Tools, Registered(p, tool), ~Runs(p, tool)
  PROVE  Gate(p, tool) = {}
  <1>1. CASE tool = "yamllint" BY <1>1, Zenon DEF Runs, RunOn, Gate, Yamllint
  <1>2. CASE tool = "markdownlint" BY <1>2, Zenon DEF Runs, RunOn, Gate, Markdownlint
  <1>3. CASE tool = "eslint"
    <2>1. Registered(p, "eslint") /\ ~Runs(p, "eslint") BY <1>3
    <2>2. "eslint config" \notin p.has BY <2>1 DEF Registered, Runs
    <2> QED BY <1>3, <2>2, Zenon DEF Gate, Eslint
  <1>4. CASE tool = "tsc"
    <2>1. Registered(p, "tsc") /\ ~Runs(p, "tsc") BY <1>4
    <2>2. "tsconfig" \notin p.has BY <2>1 DEF Registered, Runs
    <2> QED BY <1>4, <2>2, Zenon DEF Gate, Tsc
  <1>5. CASE tool = "html-validate"
    <2>1. Registered(p, "html-validate") /\ ~Runs(p, "html-validate") BY <1>5
    <2>2. RunOn(p, "html-validate") = {} BY <2>1 DEF Registered, Runs
    <2> QED BY <1>5, <2>2, Zenon DEF RunOn, Gate, HtmlValidate
  <1>6. CASE tool = "pa11y"
    <2>1. Registered(p, "pa11y") /\ ~Runs(p, "pa11y") BY <1>6
    <2>2. RunOn(p, "pa11y") = {} BY <2>1 DEF Registered, Runs
    <2>3. RunOn(p, "pa11y") = Audited(p) BY Zenon DEF RunOn
    <2>4. Pa11y(p) = {} BY <2>2, <2>3 DEF Pa11y
    <2> QED BY <1>6, <2>4, Zenon DEF Gate
  <1>7. CASE tool = "pssa" BY <1>7, Zenon DEF Runs, RunOn, Gate, PSScriptAnalyzer
  <1>8. CASE tool = "pylint" BY <1>8, Zenon DEF Runs, Gate, Pylint
  <1> QED BY <1>1, <1>2, <1>3, <1>4, <1>5, <1>6, <1>7, <1>8 DEF Tools

\* The gates of the tools are silent exactly when the tools are sound.
LEMMA ToolsExact ==
  ASSUME NEW p, \A tool \in Tools : p.tools[tool] \in Endings
  PROVE  (\A tool \in Tools : Registered(p, tool) => Gate(p, tool) = {}) <=> ToolsSound(p)
  <1>1. ASSUME NEW tool \in Tools
        PROVE  (Registered(p, tool) => Gate(p, tool) = {})
                 <=> (Runs(p, tool) => p.tools[tool] = "well" /\ Flawless(p, tool))
    <2>1. Runs(p, tool) => Registered(p, tool)
      <3>1. CASE tool = "eslint" BY <3>1, Zenon DEF Registered, Runs
      <3>2. CASE tool = "tsc" BY <3>2, Zenon DEF Registered, Runs
      <3>3. CASE tool \in {"html-validate", "pa11y"} BY <3>3 DEF Registered, Runs
      <3>4. CASE tool \notin {"eslint", "tsc", "html-validate", "pa11y"} BY <3>4 DEF Registered
      <3> QED BY <3>1, <3>2, <3>3, <3>4
    <2>2. CASE Runs(p, tool) BY <2>1, <2>2, GatesAreExact, Zenon
    <2>3. CASE ~Runs(p, tool) BY <2>3, NothingToDo, Zenon
    <2> QED BY <2>2, <2>3
  <1> QED BY <1>1, Zenon DEF ToolsSound

\* The gates of the tools, one by one.
LEMMA RegisteredGates ==
  ASSUME NEW p
  PROVE  (\A tool \in Tools : Registered(p, tool) => Gate(p, tool) = {}) <=>
           /\ Yamllint(p) = {} /\ Markdownlint(p) = {} /\ PSScriptAnalyzer(p) = {} /\ Pylint(p) = {}
           /\ IsNode(p) => Eslint(p) = {} /\ Tsc(p) = {}
           /\ HasStaticHtml(p) => HtmlValidate(p) = {} /\ Pa11y(p) = {}
  <1>1. /\ Gate(p, "yamllint") = Yamllint(p) /\ Gate(p, "markdownlint") = Markdownlint(p)
        /\ Gate(p, "pssa") = PSScriptAnalyzer(p) /\ Gate(p, "pylint") = Pylint(p)
        /\ Gate(p, "eslint") = Eslint(p) /\ Gate(p, "tsc") = Tsc(p)
        /\ Gate(p, "html-validate") = HtmlValidate(p) /\ Gate(p, "pa11y") = Pa11y(p)
    BY DEF Gate
  <1>2. /\ Registered(p, "yamllint") /\ Registered(p, "markdownlint")
        /\ Registered(p, "pssa") /\ Registered(p, "pylint")
        /\ (Registered(p, "eslint") <=> IsNode(p)) /\ (Registered(p, "tsc") <=> IsNode(p))
        /\ Registered(p, "html-validate") <=> HasStaticHtml(p)
        /\ Registered(p, "pa11y") <=> HasStaticHtml(p)
    BY DEF Registered
  <1> QED BY <1>1, <1>2 DEF Tools

\* What the gates of single projects find.
DomainFound(p) ==
  CASE p.kind = "docs"     -> DocsSync(p.domain) \cup DocsManifests(p.domain)
                                \cup DocsSuite(p.domain)
    [] p.kind = "datasets" -> DatasetManifests(p.domain)
    [] p.kind = "training" -> TrainingSuite(p.domain)
    [] p.kind = "models"   -> ModelsHub(p.domain)
    [] OTHER               -> {}

\* The registry finds nothing when none of its gates does.
LEMMA FoundParts ==
  ASSUME NEW p
  PROVE  Found(p) = {} <=>
           /\ \A tool \in Tools : Registered(p, tool) => Gate(p, tool) = {}
           /\ Jsonlint(p) = {} /\ Suppressions(p) = {} /\ AbsolutePaths(p) = {}
           /\ GitHooks(p) = {} /\ SsotLiterals(p) = {} /\ GuiParity(p) = {}
           /\ p.kind # "asset" => ReadmeChangelog(p) = {}
           /\ DomainFound(p) = {}
  <1> DEFINE node == IF IsNode(p) THEN Eslint(p) \cup Tsc(p) ELSE {}
             pages == IF HasStaticHtml(p) THEN HtmlValidate(p) \cup Pa11y(p) ELSE {}
             history == IF p.kind # "asset" THEN ReadmeChangelog(p) ELSE {}
  <1>1. Found(p) = {} <=>
           /\ Yamllint(p) = {} /\ Jsonlint(p) = {} /\ Markdownlint(p) = {}
           /\ PSScriptAnalyzer(p) = {} /\ Pylint(p) = {}
           /\ Suppressions(p) = {} /\ AbsolutePaths(p) = {}
           /\ GitHooks(p) = {} /\ EcosystemSsot(p) = {}
           /\ node = {} /\ pages = {} /\ history = {} /\ DomainFound(p) = {}
    <2>1. Found(p) = UNION {Yamllint(p), Jsonlint(p), Markdownlint(p), PSScriptAnalyzer(p), Pylint(p),
                      Suppressions(p), AbsolutePaths(p), GitHooks(p), EcosystemSsot(p),
                      node, pages, history, DomainFound(p)}
      BY Zenon DEF Found, DomainFound
    <2> HIDE DEF node, pages, history
    <2> QED BY <2>1
  <1>2. node = {} <=> (IsNode(p) => Eslint(p) = {} /\ Tsc(p) = {}) OBVIOUS
  <1>3. pages = {} <=> (HasStaticHtml(p) => HtmlValidate(p) = {} /\ Pa11y(p) = {}) OBVIOUS
  <1>4. history = {} <=> (p.kind # "asset" => ReadmeChangelog(p) = {}) OBVIOUS
  <1>5. EcosystemSsot(p) = {} <=> SsotLiterals(p) = {} /\ GuiParity(p) = {} BY DEF EcosystemSsot
  <1> HIDE DEF node, pages, history
  <1> QED BY <1>1, <1>2, <1>3, <1>4, <1>5, RegisteredGates, Zenon

\* The remaining gates, each against the part of Sound(p) it is there for.
LEMMA ChangelogExact ==
  ASSUME NEW p, p.git.status \in Statuses, p.git.diff = "first" => p.git.last = {}
  PROVE  /\ (p.kind # "asset" => ReadmeChangelog(p) = {}) <=> ChangelogKept(p) \/ ChangelogSkipped(p)
         /\ ~(ChangelogKept(p) /\ ChangelogSkipped(p))
  <1>1. PICK changed : changed = Modified(p.git) OBVIOUS
  <1>2. PICK told : told = Uncommitted(p.git) OBVIOUS
  <1>3. ReadmeChangelog(p) = {} <=>
          \/ changed \subseteq {"readme"} \/ p.readme = "unreadable"
          \/ p.readme = "changelog" /\ ~("readme" \notin changed /\ told # {})
    <2>1. ReadmeChangelog(p) = IF changed \subseteq {"readme"} \/ p.readme = "unreadable" THEN {}
            ELSE Flag(p.readme # "changelog", "readme_changelog_missing")
                   \cup Flag(p.readme = "changelog" /\ "readme" \notin changed /\ told # {},
                             "readme_changelog_unupdated")
      BY <1>1, <1>2, Zenon DEF ReadmeChangelog
    <2>2. Flag(p.readme # "changelog", "readme_changelog_missing") = {} <=> ~(p.readme # "changelog")
      BY FlagIsEmpty, Zenon
    <2>3. Flag(p.readme = "changelog" /\ "readme" \notin changed /\ told # {},
               "readme_changelog_unupdated") = {}
            <=> ~(p.readme = "changelog" /\ "readme" \notin changed /\ told # {})
      BY FlagIsEmpty, Zenon
    <2> QED BY <2>1, <2>2, <2>3
  <1>4. CASE p.kind = "asset" BY <1>4 DEF ChangelogKept, ChangelogSkipped
  <1>5. CASE p.kind # "asset" /\ ~GitWorked(p.git)
    <2>1. told = {} BY <1>2, <1>5 DEF Uncommitted, GitWorked
    <2> QED BY <1>1, <1>3, <1>5, <2>1 DEF ChangelogKept, ChangelogSkipped
  <1>6. CASE p.kind # "asset" /\ GitWorked(p.git) /\ p.git.dirty = {}
    <2>1. told = {} BY <1>2, <1>6 DEF Uncommitted
    <2>2. changed = p.git.last BY <1>1, <1>2, <1>6, <2>1 DEF Modified, GitWorked
    <2> QED BY <1>1, <1>3, <1>6, <2>1, <2>2 DEF ChangelogKept, ChangelogSkipped
  <1>7. CASE p.kind # "asset" /\ GitWorked(p.git) /\ p.git.dirty # {}
    <2>1. told = p.git.dirty BY <1>2, <1>7 DEF Uncommitted, GitWorked
    <2>2. changed = p.git.dirty BY <1>1, <1>2, <1>7, <2>1 DEF Modified
    <2>3. p.git.dirty \subseteq {"readme"} <=> p.git.dirty = {"readme"} BY <1>7
    <2> QED BY <1>1, <1>3, <1>7, <2>1, <2>2, <2>3 DEF ChangelogKept, ChangelogSkipped
  <1> QED BY <1>4, <1>5, <1>6, <1>7

LEMMA HooksExact ==
  ASSUME NEW p, \A h \in p.hooks : {h.sample, h.readable, h.inComment} \subseteq BOOLEAN
  PROVE  GitHooks(p) = {} <=> HooksSound(p)
  <1>1. PICK hooks : hooks = {h \in p.hooks : ~h.sample} OBVIOUS
  <1>2. PICK S : S = {k \in hooks : k.readable /\ ~k.inComment} OBVIOUS
  <1>3. GitHooks(p) = Flag(\E h \in hooks : ~h.readable, "git_hook_read_error")
                        \cup UNION {h.cites : h \in S}
    BY <1>1, <1>2, Zenon DEF GitHooks
  <1>4. Flag(\E h \in hooks : ~h.readable, "git_hook_read_error") = {} <=> \A h \in hooks : h.readable
    BY FlagIsEmpty, Zenon
  <1>5. UNION {h.cites : h \in S} = {} <=> \A h \in S : h.cites = {}
    OBVIOUS
  <1>6. GitHooks(p) = {} <=> (\A h \in hooks : h.readable) /\ \A h \in S : h.cites = {}
    BY <1>3, <1>4, <1>5
  <1> QED BY <1>1, <1>2, <1>6, Zenon DEF HooksSound

LEMMA GuiExact ==
  ASSUME NEW p,
         "tauri config" \in p.has =>
           {p.gui.snapshot, p.gui.csp, p.gui.openapi, p.gui.npm} \subseteq Shapes
  PROVE  GuiParity(p) = {} <=> GuiSound(p)
  <1>1. CASE "tauri config" \notin p.has BY <1>1 DEF GuiParity, GuiSound
  <1>2. CASE "tauri config" \in p.has
    <2>1. PICK steps : steps = IF p.gui.ownSteps THEN "absent" ELSE p.gui.snapshot OBVIOUS
    <2>2. PICK health : health = IF p.gui.interface THEN p.gui.openapi ELSE "absent" OBVIOUS
    <2>3. GuiParity(p) = Flag(p.gui.snapshot \in {"garbled", "differs"}, "ssot_snapshot")
           \cup Flag(p.gui.csp \in {"garbled", "differs"}, "ssot_csp")
           \cup Flag(steps = "garbled" \/ (steps = "differs" /\ p.gui.stepsDiffer), "ssot_steps")
           \cup Flag(health \in {"garbled", "differs"}, "ssot_project_health")
           \cup Flag(p.gui.npm \in {"garbled", "differs"}, "ssot_npm_manifest")
      BY <1>2, <2>1, <2>2, Zenon DEF GuiParity
    <2>4. /\ Flag(p.gui.snapshot \in {"garbled", "differs"}, "ssot_snapshot") = {}
               <=> ~(p.gui.snapshot \in {"garbled", "differs"})
          /\ Flag(p.gui.csp \in {"garbled", "differs"}, "ssot_csp") = {}
               <=> ~(p.gui.csp \in {"garbled", "differs"})
          /\ Flag(steps = "garbled" \/ (steps = "differs" /\ p.gui.stepsDiffer), "ssot_steps") = {}
               <=> ~(steps = "garbled" \/ (steps = "differs" /\ p.gui.stepsDiffer))
          /\ Flag(health \in {"garbled", "differs"}, "ssot_project_health") = {}
               <=> ~(health \in {"garbled", "differs"})
          /\ Flag(p.gui.npm \in {"garbled", "differs"}, "ssot_npm_manifest") = {}
               <=> ~(p.gui.npm \in {"garbled", "differs"})
      BY FlagIsEmpty, Zenon
    <2>5. GuiParity(p) = {} <=>
            /\ ~(p.gui.snapshot \in {"garbled", "differs"})
            /\ ~(p.gui.csp \in {"garbled", "differs"})
            /\ ~(steps = "garbled" \/ (steps = "differs" /\ p.gui.stepsDiffer))
            /\ ~(health \in {"garbled", "differs"})
            /\ ~(p.gui.npm \in {"garbled", "differs"})
      BY <2>3, <2>4
    <2>6. GuiParity(p) = {} <=>
            /\ p.gui.snapshot \notin {"garbled", "differs"} /\ p.gui.csp \notin {"garbled", "differs"}
            /\ health \notin {"garbled", "differs"} /\ p.gui.npm \notin {"garbled", "differs"}
      BY <2>1, <2>5
    <2>7. p.gui.snapshot \in Shapes /\ p.gui.csp \in Shapes /\ p.gui.openapi \in Shapes
          /\ p.gui.npm \in Shapes
      BY <1>2
    <2>8. GuiSound(p) <=>
            /\ p.gui.snapshot \in {"absent", "same"} /\ p.gui.csp \in {"absent", "same"}
            /\ p.gui.npm \in {"absent", "same"}
            /\ p.gui.interface => p.gui.openapi \in {"absent", "same"}
      BY <1>2 DEF GuiSound
    <2> QED BY <2>2, <2>6, <2>7, <2>8 DEF Shapes
  <1> QED BY <1>1, <1>2

\* The bounds on the lengths are the ratios of the code, in whole numbers.
LEMMA PaperExact ==
  ASSUME NEW q, {q.headings, q.tables} \subseteq Int, {q.htmlLength, q.mdLength} \subseteq Nat
  PROVE  PaperViolations(q) = {} <=> PaperSound(q)
  <1>1. PICK h \in Nat : h = q.htmlLength OBVIOUS
  <1>2. PICK m \in Nat : m = q.mdLength OBVIOUS
  <1>3. PICK t \in Int : t = q.tables OBVIOUS
  <1>4. (20 * h <= 100 * m /\ 100 * m <= 300 * h) <=> (h <= 5 * m /\ m <= 3 * h) OBVIOUS
  <1>5. t \in -1..1 <=> t \in {-1, 0, 1} OBVIOUS
  <1>6. /\ Flag(q.headings # 0, "doc_heading_mismatch") = {} <=> ~(q.headings # 0)
        /\ Flag(q.tables \notin -1..1, "doc_table_mismatch") = {} <=> ~(q.tables \notin -1..1)
        /\ Flag(q.htmlLength = 0 \/ ~(/\ 20 * q.htmlLength <= 100 * q.mdLength
                                      /\ 100 * q.mdLength <= 300 * q.htmlLength),
                "doc_ratio_anomaly") = {}
             <=> ~(q.htmlLength = 0 \/ ~(/\ 20 * q.htmlLength <= 100 * q.mdLength
                                         /\ 100 * q.mdLength <= 300 * q.htmlLength))
    BY FlagIsEmpty, Zenon
  <1>7. q.html /\ q.md =>
          PaperViolations(q) = Flag(q.headings # 0, "doc_heading_mismatch")
            \cup Flag(q.tables \notin -1..1, "doc_table_mismatch")
            \cup Flag(q.htmlLength = 0 \/ ~(/\ 20 * q.htmlLength <= 100 * q.mdLength
                                            /\ 100 * q.mdLength <= 300 * q.htmlLength),
                      "doc_ratio_anomaly")
    BY Zenon DEF PaperViolations
  <1>8. q.html /\ q.md =>
          (PaperViolations(q) = {} <=>
             /\ q.headings = 0 /\ t \in {-1, 0, 1} /\ h # 0 /\ h <= 5 * m /\ m <= 3 * h)
    <2>1. q.html /\ q.md =>
            (PaperViolations(q) = {} <=>
               /\ ~(q.headings # 0) /\ ~(q.tables \notin -1..1)
               /\ ~(q.htmlLength = 0 \/ ~(/\ 20 * q.htmlLength <= 100 * q.mdLength
                                          /\ 100 * q.mdLength <= 300 * q.htmlLength)))
      <3> DEFINE A == Flag(q.headings # 0, "doc_heading_mismatch")
                 B == Flag(q.tables \notin -1..1, "doc_table_mismatch")
                 C == Flag(q.htmlLength = 0 \/ ~(/\ 20 * q.htmlLength <= 100 * q.mdLength
                                                 /\ 100 * q.mdLength <= 300 * q.htmlLength),
                           "doc_ratio_anomaly")
      <3>1. q.html /\ q.md => PaperViolations(q) = A \cup B \cup C BY <1>7, Zenon
      <3>2. A \cup B \cup C = {} <=> A = {} /\ B = {} /\ C = {} OBVIOUS
      <3> QED BY <1>6, <3>1, <3>2, Zenon
    <2> QED BY <1>1, <1>2, <1>3, <1>4, <1>5, <2>1, Zenon
  <1>9. ~(q.html /\ q.md) => PaperViolations(q) # {}
    <2>1. ~q.html => PaperViolations(q) = {"doc_html_missing"} BY Zenon DEF PaperViolations
    <2>2. q.html /\ ~q.md => PaperViolations(q) = {"doc_md_missing"} BY Zenon DEF PaperViolations
    <2> QED BY <2>1, <2>2
  <1> QED BY <1>1, <1>2, <1>3, <1>8, <1>9, Zenon DEF PaperSound

LEMMA MappingExact ==
  ASSUME NEW doc, NEW keys
  PROVE  MappingViolations(doc, keys) = {} <=> MappingSound(doc, keys)
  <1>1. MappingViolations(doc, keys) =
          IF doc.form = "absent" THEN {}
          ELSE IF doc.form = "garbled" THEN {"parse_error"}
          ELSE Flag(doc.form # "mapping" \/ ~(keys \subseteq doc.keys), "schema_error")
    BY Zenon DEF MappingViolations
  <1>2. Flag(doc.form # "mapping" \/ ~(keys \subseteq doc.keys), "schema_error") = {}
          <=> ~(doc.form # "mapping" \/ ~(keys \subseteq doc.keys))
    BY FlagIsEmpty, Zenon
  <1> QED BY <1>1, <1>2 DEF MappingSound

LEMMA ResidueExact ==
  ASSUME NEW d
  PROVE  Residue(d) = {} <=> NothingLeft(d)
  <1>1. Residue(d) = {} <=> d.top \cap {"staging entry", "temporary file"} = {}
    BY FlagIsEmpty, Zenon DEF Residue
  <1> QED BY <1>1 DEF NothingLeft

LEMMA ManifoldExact ==
  ASSUME NEW m
  PROVE  ManifoldViolations(m) = {} <=>
           /\ ManifoldFiles \subseteq m.files
           /\ m.forex => "dataset-metadata.json" \in m.files /\ m.parquets = 8
  <1>1. /\ Flag(~(ManifoldFiles \subseteq m.files), "manifold_missing_file") = {}
             <=> ManifoldFiles \subseteq m.files
        /\ Flag(m.forex /\ "dataset-metadata.json" \notin m.files, "manifold_missing_file") = {}
             <=> ~(m.forex /\ "dataset-metadata.json" \notin m.files)
        /\ Flag(m.forex /\ m.parquets # 8, "manifold_parquet_count") = {}
             <=> ~(m.forex /\ m.parquets # 8)
    BY FlagIsEmpty, Zenon
  <1>2. ManifoldViolations(m) = Flag(~(ManifoldFiles \subseteq m.files), "manifold_missing_file")
          \cup Flag(m.forex /\ "dataset-metadata.json" \notin m.files, "manifold_missing_file")
          \cup Flag(m.forex /\ m.parquets # 8, "manifold_parquet_count")
    BY Zenon DEF ManifoldViolations
  <1> QED BY <1>1, <1>2

LEMMA DatasetsExact ==
  ASSUME NEW d
  PROVE  DatasetManifests(d) = {} <=> DatasetsSound(d)
  <1>1. PICK A : A = MappingViolations(d.unified, {"_registry_metadata"}) OBVIOUS
  <1>2. PICK B : B = MappingViolations(d.models, {"task_metadata"}) OBVIOUS
  <1>3. PICK L : L = [i \in d.infos |-> MappingViolations(i, {"count", "task"})] OBVIOUS
  <1>4. PICK M : M = [m \in d.manifolds |-> ManifoldViolations(m)] OBVIOUS
  <1>5. /\ \A i \in d.infos : L[i] = MappingViolations(i, {"count", "task"})
        /\ \A m \in d.manifolds : M[m] = ManifoldViolations(m)
    BY <1>3, <1>4
  <1>6. DatasetManifests(d) =
          A \cup B \cup (UNION {L[i] : i \in d.infos}) \cup (UNION {M[m] : m \in d.manifolds})
            \cup Residue(d)
    BY <1>1, <1>2, <1>5, ZenonT(60) DEF DatasetManifests
  <1>7. DatasetManifests(d) = {} <=>
          /\ A = {} /\ B = {} /\ Residue(d) = {}
          /\ UNION {L[i] : i \in d.infos} = {} /\ UNION {M[m] : m \in d.manifolds} = {}
    <2>1. PICK X : X = UNION {L[i] : i \in d.infos} OBVIOUS
    <2>2. PICK Y : Y = UNION {M[m] : m \in d.manifolds} OBVIOUS
    <2>3. DatasetManifests(d) = A \cup B \cup X \cup Y \cup Residue(d) BY <1>6, <2>1, <2>2
    <2>4. DatasetManifests(d) = {} <=> A = {} /\ B = {} /\ Residue(d) = {} /\ X = {} /\ Y = {}
      BY <2>3
    <2> QED BY <2>1, <2>2, <2>4, Zenon
  <1>8. /\ UNION {L[i] : i \in d.infos} = {} <=> \A i \in d.infos : L[i] = {}
        /\ UNION {M[m] : m \in d.manifolds} = {} <=> \A m \in d.manifolds : M[m] = {}
    BY UnionEmpty, Zenon
  <1>9. /\ A = {} <=> MappingSound(d.unified, {"_registry_metadata"})
        /\ B = {} <=> MappingSound(d.models, {"task_metadata"})
        /\ \A i \in d.infos : L[i] = {} <=> MappingSound(i, {"count", "task"})
    BY <1>1, <1>2, <1>5, MappingExact, Zenon
  <1>10. \A m \in d.manifolds : M[m] = {} <=>
           /\ ManifoldFiles \subseteq m.files
           /\ m.forex => "dataset-metadata.json" \in m.files /\ m.parquets = 8
    BY <1>5, ManifoldExact, Zenon
  <1> QED BY <1>7, <1>8, <1>9, <1>10, ResidueExact, Zenon DEF DatasetsSound

LEMMA ModelsExact ==
  ASSUME NEW d
  PROVE  ModelsHub(d) = {} <=> ModelsSound(d)
  <1>1. /\ Flag(~d.readme, "missing_readme") = {} <=> d.readme
        /\ Flag(\E m \in d.models : ~m.readme, "missing_model_readme") = {}
             <=> \A m \in d.models : m.readme
        /\ Flag(\E m \in d.models : 0 \in m.checkpoints, "corrupt_checkpoint") = {}
             <=> \A m \in d.models : 0 \notin m.checkpoints
    BY FlagIsEmpty, Zenon
  <1>2. ModelsHub(d) = Flag(~d.readme, "missing_readme")
          \cup Flag(\E m \in d.models : ~m.readme, "missing_model_readme")
          \cup Flag(\E m \in d.models : 0 \in m.checkpoints, "corrupt_checkpoint")
          \cup Residue(d)
    BY Zenon DEF ModelsHub
  <1>3. ModelsHub(d) = {} <=> /\ d.readme /\ Residue(d) = {}
                              /\ \A m \in d.models : m.readme
                              /\ \A m \in d.models : 0 \notin m.checkpoints
    BY <1>1, <1>2
  <1> QED BY <1>3, ResidueExact, Zenon DEF ModelsSound

LEMMA DocsExact ==
  ASSUME NEW d, \A q \in d.papers : {q.headings, q.tables} \subseteq Int
                                      /\ {q.htmlLength, q.mdLength} \subseteq Nat
  PROVE  DocsSync(d) \cup DocsManifests(d) \cup DocsSuite(d) = {} <=> DocsSound(d)
  <1>1. PICK L : L = [q \in d.papers |-> PaperViolations(q)] OBVIOUS
  <1>2. \A q \in d.papers : L[q] = PaperViolations(q) BY <1>1
  <1>3. DocsSync(d) = {} <=> \/ "documents" \notin d.present
                             \/ ~d.garbled /\ \A q \in d.papers : PaperSound(q)
    <2>1. DocsSync(d) = IF "documents" \notin d.present THEN {}
                        ELSE IF d.garbled THEN {"doc_parity_audit_error"}
                        ELSE UNION {L[q] : q \in d.papers}
      BY <1>2, Zenon DEF DocsSync
    <2>2. UNION {L[q] : q \in d.papers} = {} <=> \A q \in d.papers : L[q] = {} BY UnionEmpty, Zenon
    <2>3. \A q \in d.papers : L[q] = {} <=> PaperSound(q) BY <1>2, PaperExact, Zenon
    <2>4. {"doc_parity_audit_error"} # {} OBVIOUS
    <2> QED BY <2>1, <2>2, <2>3, <2>4, Zenon
  <1>4. DocsManifests(d) = {} <=>
          /\ {"documents", "json", "yaml"} \subseteq d.present /\ ~d.garbled
          /\ d.sameBaseline /\ d.total = d.listed /\ d.sameContent
    <2>1. DocsManifests(d) =
            IF ~({"documents", "json", "yaml"} \subseteq d.present) THEN {"manifest_missing"}
            ELSE IF d.garbled THEN {"manifest_parse_error"}
            ELSE Flag(~d.sameBaseline, "manifest_baseline_mismatch")
                   \cup Flag(d.total # d.listed, "manifest_count_mismatch")
                   \cup Flag(~d.sameContent, "manifest_content_drift")
      BY Zenon DEF DocsManifests
    <2>2. /\ Flag(~d.sameBaseline, "manifest_baseline_mismatch") = {} <=> d.sameBaseline
          /\ Flag(d.total # d.listed, "manifest_count_mismatch") = {} <=> d.total = d.listed
          /\ Flag(~d.sameContent, "manifest_content_drift") = {} <=> d.sameContent
      BY FlagIsEmpty, Zenon
    <2> QED BY <2>1, <2>2
  <1>5. DocsSuite(d) = {} <=> d.tests \in {"absent", "pass"}
    BY FlagIsEmpty, Zenon DEF DocsSuite
  <1>6. {"documents", "json", "yaml"} \subseteq d.present => "documents" \in d.present OBVIOUS
  <1>7. DocsSync(d) \cup DocsManifests(d) \cup DocsSuite(d) = {} <=>
          DocsSync(d) = {} /\ DocsManifests(d) = {} /\ DocsSuite(d) = {}
    OBVIOUS
  <1> QED BY <1>3, <1>4, <1>5, <1>6, <1>7, Zenon DEF DocsSound

LEMMA DomainExact ==
  ASSUME NEW p, WellFormed(p)
  PROVE  DomainFound(p) = {} <=> DomainSound(p)
  <1>1. CASE p.kind = "docs"
    <2>1. \A q \in p.domain.papers : {q.headings, q.tables} \subseteq Int
                                      /\ {q.htmlLength, q.mdLength} \subseteq Nat
      BY <1>1 DEF WellFormed
    <2>2. DomainFound(p) = DocsSync(p.domain) \cup DocsManifests(p.domain) \cup DocsSuite(p.domain)
      BY <1>1 DEF DomainFound
    <2>3. DomainSound(p) <=> DocsSound(p.domain) BY <1>1 DEF DomainSound
    <2> QED BY <2>1, <2>2, <2>3, DocsExact
  <1>2. CASE p.kind = "datasets"
    <2>1. DomainFound(p) = DatasetManifests(p.domain) BY <1>2 DEF DomainFound
    <2>2. DomainSound(p) <=> DatasetsSound(p.domain) BY <1>2 DEF DomainSound
    <2> QED BY <2>1, <2>2, DatasetsExact, Zenon
  <1>3. CASE p.kind = "training"
    <2>1. DomainFound(p) = MappingViolations(p.domain.registry, {"_registry_metadata"})
      BY <1>3 DEF DomainFound, TrainingSuite
    <2>2. DomainSound(p) <=> MappingSound(p.domain.registry, {"_registry_metadata"})
      BY <1>3 DEF DomainSound
    <2> QED BY <2>1, <2>2, MappingExact, Zenon
  <1>4. CASE p.kind = "models"
    <2>1. DomainFound(p) = ModelsHub(p.domain) BY <1>4 DEF DomainFound
    <2>2. DomainSound(p) <=> ModelsSound(p.domain) BY <1>4 DEF DomainSound
    <2> QED BY <2>1, <2>2, ModelsExact, Zenon
  <1>5. CASE p.kind \in {"code", "asset"} BY <1>5 DEF DomainFound, DomainSound
  <1> QED BY <1>1, <1>2, <1>3, <1>4, <1>5 DEF WellFormed

\* Every gate against its part of Sound(p).
LEMMA PassedExact ==
  ASSUME NEW p, WellFormed(p)
  PROVE  Passed(p) <=> SoundButChangelog(p) /\ (ChangelogKept(p) \/ ChangelogSkipped(p))
  <1>1. /\ \A f \in p.files : f.type \in TextTypes /\ f.text \in Seq(Lines)
        /\ \A tool \in Tools : p.tools[tool] \in Endings
        /\ p.git.status \in Statuses /\ (p.git.diff = "first" => p.git.last = {})
        /\ \A h \in p.hooks : {h.sample, h.readable, h.inComment} \subseteq BOOLEAN
        /\ "tauri config" \in p.has =>
             {p.gui.snapshot, p.gui.csp, p.gui.openapi, p.gui.npm} \subseteq Shapes
    BY Zenon DEF WellFormed
  <1>2. (/\ CompileErrors(p) = {} /\ EmojiViolations(p) = {} /\ Suppressions(p) = {}
         /\ AbsolutePaths(p) = {} /\ Jsonlint(p) = {} /\ SsotLiterals(p) = {})
          <=> \A f \in p.files : FileSound(p.kind, f)
    BY <1>1, FilesExact, Zenon
  <1>3. (\A tool \in Tools : Registered(p, tool) => Gate(p, tool) = {}) <=> ToolsSound(p)
    BY <1>1, ToolsExact, Zenon
  <1>4. (p.kind # "asset" => ReadmeChangelog(p) = {}) <=> ChangelogKept(p) \/ ChangelogSkipped(p)
    BY <1>1, ChangelogExact, Zenon
  <1>5. GitHooks(p) = {} <=> HooksSound(p) BY <1>1, HooksExact, Zenon
  <1>6. GuiParity(p) = {} <=> GuiSound(p) BY <1>1, GuiExact, Zenon
  <1>7. DomainFound(p) = {} <=> DomainSound(p) BY DomainExact, Zenon
  <1> QED BY <1>2, <1>3, <1>4, <1>5, <1>6, <1>7, FoundParts, Zenon DEF Passed, SoundButChangelog

\* validate_project: a sound project passes, and one that passes is sound unless the
\* audit of its changelog gave up.  No gate passes over a file, a text, a tool or a
\* manifest that is not as it should be, and none complains of one that is, for any
\* files, any texts and any way a tool or git may end.
THEOREM PassedIsSound ==
  ASSUME NEW p, WellFormed(p)
  PROVE  Sound(p) <=> Passed(p) /\ ~ChangelogSkipped(p)
  <1>1. ~(ChangelogKept(p) /\ ChangelogSkipped(p))
    BY ChangelogExact, Zenon DEF WellFormed
  <1> QED BY <1>1, PassedExact, Zenon DEF Sound

-----------------------------------------------------------------------------
(* The verdict of step 6.                                                   *)

\* What step 6 has established so far: the verdict, and of which projects.
Judging ==
  /\ passed <=> \A v \in judged : v.grade # "unsound"
  /\ step \in 1..5 \/ (step = 6 /\ phase = "enter") => judged = {}
  /\ step = 6 /\ phase = "next" => {v.project : v \in judged} \cup Ahead = Targets

LEMMA JudgingInit == Init => Judging
  BY DEF Init, Judging

\* A verdict is what module Validation finds, so it is that of the grade.
LEMMA VerdictsAreTrue ==
  ASSUME NEW v \in Verdicts
  PROVE  v.passed <=> v.grade # "unsound"
  <1>1. PICK c \in Cases : v = [passed |-> Passed(c), grade |-> Grade(c)]
    BY Zenon DEF Verdicts
  <1>2. WellFormed(c)
    BY StepsAssumption, Zenon
  <1>3. Passed(c) <=> Sound(c) \/ (SoundButChangelog(c) /\ ChangelogSkipped(c))
    BY <1>2, PassedExact, Zenon DEF Sound
  <1>4. Grade(c) # "unsound" <=> Sound(c) \/ (SoundButChangelog(c) /\ ChangelogSkipped(c))
    BY DEF Grade
  <1>5. PICK a, b : a = Passed(c) /\ b = Grade(c)
    OBVIOUS
  <1>6. v.passed = a /\ v.grade = b
    BY <1>1, <1>5
  <1>7. QED
    BY <1>3, <1>4, <1>5, <1>6, Zenon

LEMMA ValidateProjectJudges ==
  ASSUME StepsTypeOK, Judging, NEW p \in Projects, ValidateProject(p)
  PROVE  Judging'
  <1>1. /\ step = 6 /\ phase = "next" /\ todo # <<>> /\ p = Head(todo)
        /\ step' = 6 /\ phase' = "next" /\ todo' = Tail(todo) /\ UNCHANGED options
    BY DEF ValidateProject, At, NextProject
  <1>2. PICK v \in Verdicts : /\ passed' = (passed /\ v.passed)
                              /\ judged' = judged \cup {[project |-> p, grade |-> v.grade]}
    BY DEF ValidateProject
  <1>3. v.passed <=> v.grade # "unsound"
    BY VerdictsAreTrue
  <1>4. passed' <=> \A w \in judged' : w.grade # "unsound"
    <2>1. PICK r : r = [project |-> p, grade |-> v.grade]
      OBVIOUS
    <2>2. r.grade = v.grade
      BY <2>1
    <2>3. passed <=> \A w \in judged : w.grade # "unsound"
      BY DEF Judging
    <2>4. judged' = judged \cup {r}
      BY <1>2, <2>1
    <2>5. QED
      BY <1>2, <1>3, <2>2, <2>3, <2>4
  <1>5. {w.project : w \in judged'} \cup Ahead' = Targets'
    <2>1. Ahead = {p} \cup Ahead'
      <3>1. todo \in Seq(Targets)
        BY TypeParts DEF PlaceTypes
      <3>2. QED
        BY <1>1, <3>1, LoopFacts DEF Ahead
    <2>2. {w.project : w \in judged'} = {w.project : w \in judged} \cup {p}
      <3>1. PICK r : r = [project |-> p, grade |-> v.grade]
        OBVIOUS
      <3>2. r.project = p /\ judged' = judged \cup {r}
        BY <1>2, <3>1
      <3>3. QED
        BY <3>2
    <2>3. {w.project : w \in judged} \cup Ahead = Targets /\ Targets' = Targets
      BY <1>1 DEF Judging, Targets, Scope
    <2>4. QED
      BY <2>1, <2>2, <2>3
  <1>6. QED
    BY <1>1, <1>4, <1>5 DEF Judging

\* The other steps leave the verdict alone: those that end one go on to the next,
\* and those of a loop stay in it.
LEMMA EndStepJudges ==
  ASSUME Judging, StepsTypeOK, UNCHANGED <<passed, judged>>, step # 0, NEW status, EndStep(status)
  PROVE  Judging'
  <1>1. step \in 0..7
    BY DEF StepsTypeOK
  <1>2. step' = 0 \/ (step' = step + 1 /\ step < 7)
    BY DEF EndStep
  <1>3. step' \in 1..5 \/ (step' = 6 /\ phase' = "enter") => step \in 1..5
    BY <1>1, <1>2
  <1>4. phase' \in {"enter", "idle"}
    BY DEF EndStep
  <1>5. QED
    BY <1>1, <1>2, <1>3, <1>4 DEF Judging

LEMMA OthersJudge ==
  ASSUME Judging, StepsTypeOK, UNCHANGED <<passed, judged>>, step \in 3..5, step' = step
  PROVE  Judging'
  BY DEF Judging

LEMMA LoopBeginsJudges ==
  ASSUME Judging, StepsTypeOK, VirtualEnvironments \/ ListProjects
  PROVE  Judging'
  <1>1. /\ UNCHANGED <<passed, judged, options, step>> /\ step \in 3..6
        /\ step = 6 => phase = "enter"
        /\ phase' = "next" /\ todo' = Scope
    BY DEF VirtualEnvironments, ListProjects, trail
  <1>2. judged = {} /\ judged' = {}
    BY <1>1 DEF Judging
  <1>3. Targets' = Targets /\ Ahead' = Targets
    BY <1>1 DEF Targets, Scope, Ahead
  <1>4. QED
    BY <1>1, <1>2, <1>3 DEF Judging

LEMMA JudgingNext == StepsTypeOK /\ Judging /\ [Next]_vars => Judging'
  <1> SUFFICES ASSUME StepsTypeOK, Judging, [Next]_vars PROVE Judging'
    OBVIOUS
  <1>1. CASE StartFull \/ StartSingle
    <2>1. passed' = TRUE /\ judged' = {} /\ (phase' = "enter" \/ step' = 0)
      BY <1>1 DEF StartFull, StartSingle, Start
    <2>2. QED
      BY <2>1 DEF Judging
  <1>2. CASE Break
    <2>1. step' = 0 /\ UNCHANGED <<passed, judged>>
      BY <1>2 DEF Break, trail
    <2>2. QED
      BY <2>1 DEF Judging
  <1>3. CASE \/ HardwareDiscovery \/ ToolchainAudit \/ VirtualEnvironmentsEnd
             \/ RequirementsInstallEnd \/ WriteBack \/ CodebaseVerificationEnd \/ HealthMatrix
    <2>1. step # 0 /\ UNCHANGED <<passed, judged>> /\ \E status : EndStep(status)
      <3>1. CASE HealthMatrix
        <4>1. step = 7 /\ UNCHANGED <<passed, judged>>
          BY <3>1 DEF HealthMatrix
        <4>2. \E status : EndStep(status)
          BY <3>1, Zenon DEF HealthMatrix
        <4>3. QED
          BY <4>1, <4>2
      <3>2. CASE ~HealthMatrix
        BY <1>3, <3>2 DEF HardwareDiscovery, ToolchainAudit, VirtualEnvironmentsEnd,
           RequirementsInstallEnd, WriteBack, CodebaseVerificationEnd, trail
      <3>3. QED
        BY <3>1, <3>2
    <2>2. QED
      BY <2>1, EndStepJudges
  <1>4. CASE VirtualEnvironments \/ ListProjects
    BY <1>4, LoopBeginsJudges
  <1>5. CASE SyncManifests
    <2>1. step = 4 /\ step' = step /\ UNCHANGED <<passed, judged>>
      BY <1>5 DEF SyncManifests
    <2>2. QED
      BY <2>1, OthersJudge
  <1>6. ASSUME NEW p \in Projects,
               \/ NodeModules(p) \/ KeepVenv(p) \/ Recreate(p) \/ RemoveVenv(p) \/ BuildVenv(p)
               \/ InstallNode(p) \/ InstallPython(p) \/ UninstallVariants(p) \/ InstallVariant(p)
               \/ UpgradeNpm(p) \/ UpgradePython(p)
        PROVE  Judging'
    <2>1. step \in 3..5 /\ step' = step /\ UNCHANGED <<passed, judged>>
      <3>1. CASE NodeModules(p)
        BY <3>1 DEF NodeModules, NextProject, GoOn, At
      <3>2. CASE KeepVenv(p)
        BY <3>2 DEF KeepVenv, NextProject, GoOn, At
      <3>3. CASE Recreate(p)
        BY <3>3 DEF Recreate, NextProject, GoOn, At
      <3>4. CASE RemoveVenv(p)
        BY <3>4 DEF RemoveVenv, NextProject, GoOn, At
      <3>5. CASE BuildVenv(p)
        BY <3>5 DEF BuildVenv, NextProject, GoOn, At
      <3>6. CASE InstallNode(p)
        BY <3>6 DEF InstallNode, NextProject, GoOn, At
      <3>7. CASE InstallPython(p)
        <4>1. NextProject \/ GoOn("uninstall")
          BY <3>7 DEF InstallPython
        <4>2. step = 4 /\ UNCHANGED <<passed, judged>>
          BY <3>7 DEF InstallPython, At
        <4>3. QED
          BY <4>1, <4>2 DEF NextProject, GoOn
      <3>8. CASE UninstallVariants(p)
        <4>1. NextProject \/ GoOn("install")
          BY <3>8 DEF UninstallVariants
        <4>2. step = 4 /\ UNCHANGED <<passed, judged>>
          BY <3>8 DEF UninstallVariants, At
        <4>3. QED
          BY <4>1, <4>2 DEF NextProject, GoOn
      <3>9. CASE InstallVariant(p)
        BY <3>9 DEF InstallVariant, NextProject, GoOn, At
      <3>10. CASE UpgradeNpm(p)
        BY <3>10 DEF UpgradeNpm, NextProject, GoOn, At
      <3>11. CASE UpgradePython(p)
        BY <3>11 DEF UpgradePython, NextProject, GoOn, At
      <3>12. QED
        BY <1>6, <3>1, <3>2, <3>3, <3>4, <3>5, <3>6, <3>7, <3>8, <3>9, <3>10, <3>11
    <2>2. QED
      BY <2>1, OthersJudge
  <1>7. ASSUME NEW p \in Projects, ValidateProject(p) PROVE Judging'
    BY <1>7, ValidateProjectJudges
  <1>8. CASE UNCHANGED vars
    <2>1. UNCHANGED <<options, step, phase, todo, passed, judged>>
      BY <1>8 DEF vars, trail
    <2>2. Ahead' = Ahead /\ Targets' = Targets
      BY <2>1 DEF Ahead, Targets, Scope
    <2>3. QED
      BY <2>1, <2>2 DEF Judging
  <1>9. QED
    BY <1>1, <1>2, <1>3, <1>4, <1>5, <1>6, <1>7, <1>8 DEF Next

\* codebase_verification: when it says that all projects passed, it has looked at
\* every project of its target, and each of them is sound but for a changelog whose
\* audit gave up; and if they all are, it says so, for any projects and any of the
\* states validate_project may find.
THEOREM VerifiedIsSound == Spec => []VerifiedMeansChecked
  <1>1. StepsInv => StepsTypeOK
    BY DEF StepsInv
  <1>2. Spec => []Judging
    BY <1>1, JudgingInit, JudgingNext, StepsInvariant, PTL DEF Spec
  <1>3. Judging => VerifiedMeansChecked
    <2>1. todo = <<>> => Ahead = {}
      BY DEF Ahead
    <2>2. QED
      BY <2>1 DEF Judging, VerifiedMeansChecked
  <1>4. QED
    BY <1>2, <1>3, PTL
=============================================================================
