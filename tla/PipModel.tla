------------------------------ MODULE PipModel ------------------------------
(***************************************************************************)
(* What the environment manager relies on when it calls pip: how a virtual *)
(* environment, a package index and pip's resolver fit together.  External *)
(* to the repository; modelled from the calls in env_manager/upgrade and   *)
(* env_manager/resolver.                                                   *)
(*                                                                         *)
(* A version is a number, the newest on the index is MaxVersion.  The      *)
(* index's metadata is a set of requirements: "package `by` at version     *)
(* `at` needs package `on` at one of the versions `in`".                   *)
(***************************************************************************)
EXTENDS Naturals, FiniteSets

CONSTANTS Packages, MaxVersion,
          Unfrozen     \* what `pip freeze` does not list: pip itself and its companions

ASSUME MaxVersionAssumption == MaxVersion \in Nat \ {0}
ASSUME UnfrozenAssumption == Unfrozen \subseteq Packages

Versions == 1..MaxVersion
Absent == 0

\* What a virtual environment holds: the version of each package.
Venvs == [Packages -> 0..MaxVersion]

Requirements == [by : Packages, at : Versions, on : Packages, in : SUBSET Versions]

Installed(venv) == {p \in Packages : venv[p] # Absent}

\* A requirement that binds the installed packages and is met by them.
InForce(rq, venv) == venv[rq.by] = rq.at
Met(rq, venv) == InForce(rq, venv) => venv[rq.on] \in rq.in

\* What `pip check` looks at: every requirement of every installed package.
Consistent(index, venv) == \A rq \in index : Met(rq, venv)

\* The least set of packages that contains `start` and follows the requirements
\* in force in `venv` that are in `edges`.
Reach(start, edges, venv) ==
  {p \in Packages :
     \A closed \in SUBSET Packages :
       /\ start \subseteq closed
       /\ \A rq \in edges : (rq.by \in closed /\ InForce(rq, venv)) => rq.on \in closed
       => p \in closed}

\* What a call of `pip install` that names `named` may leave: the resolver
\* honours the requirements of the packages named and of those they need, not
\* those of the packages it does not reach; it removes nothing; and what it was
\* not asked for it changes only when a requirement that leads there from the
\* packages named, along versions it keeps or has had to change, is not met by
\* the version installed.
Resolves(index, before, named, after) ==
  LET tree     == Reach(named, index, after)
      followed == {rq \in index : before[rq.on] \in rq.in => after[rq.on] = before[rq.on]}
  IN /\ \A p \in named \cup Installed(before) : after[p] # Absent
     /\ \A rq \in index : rq.by \in tree => Met(rq, after)
     /\ {p \in Packages : after[p] # before[p]} \subseteq Reach(named, followed, after)

\* `pip install name==version ...`.
PinnedInstalls(index, before, pins) ==
  {after \in Venvs : /\ \A p \in DOMAIN pins : after[p] = pins[p]
                     /\ Resolves(index, before, DOMAIN pins, after)}

\* A resolution that has no newer versions of the named packages beside it.
Newest(candidates, named) ==
  {w \in candidates :
     ~ \E x \in candidates :
         /\ \A p \in named : x[p] >= w[p]
         /\ \E p \in named : x[p] > w[p]}

\* `pip install --dry-run --upgrade --constraint ...` for `named`, every other
\* installed package constrained to the version it has.
UpgradeDryRuns(index, before, named) ==
  Newest({after \in Venvs :
            /\ \A p \in Installed(before) \ named : after[p] = before[p]
            /\ Resolves(index, before, named, after)},
         named)

\* An install that fails half-way: some of the packages it was to change are
\* changed, some are gone, some are as before; pip itself is not gone, or it
\* could not be called to restore anything.
Interrupted(index, before, pins) ==
  {after \in Venvs :
     \E target \in PinnedInstalls(index, before, pins)
                   \cup {[p \in Packages |-> IF p \in DOMAIN pins THEN pins[p] ELSE before[p]]} :
       \A p \in Packages : after[p] \in {before[p], target[p]}
                           \cup (IF target[p] # before[p] /\ p \notin Unfrozen THEN {Absent} ELSE {})}

\* What `pip freeze`, run without --all, prints of an environment.
Frozen(venv) == [p \in Packages |-> IF p \in Unfrozen THEN Absent ELSE venv[p]]

\* `pip install --force-reinstall --no-deps -r <freeze>`: the frozen packages
\* are back at their versions, the others are left alone.
Restored(before, freeze) ==
  [p \in Packages |-> IF freeze[p] = Absent THEN before[p] ELSE freeze[p]]

\* The same call failing half-way.
HalfRestored(before, freeze) ==
  {after \in Venvs :
     \A p \in Packages : after[p] \in {before[p], Restored(before, freeze)[p]}
                         \cup (IF freeze[p] # Absent THEN {Absent} ELSE {})}
=============================================================================
