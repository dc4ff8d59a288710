--------------------------- MODULE MCSafeUpgrade ---------------------------
(***************************************************************************)
(* A small instance of SafeUpgrade: two ordinary packages and one of the   *)
(* torch family, three versions to a package, under eight package indexes. *)
(* b stands for pip and its companions, which `pip freeze` does not list.  *)
(***************************************************************************)
EXTENDS SafeUpgrade

CONSTANTS a, b, t

MCPackages == {a, b, t}
MCTorch == {t}
MCTwins == {<<a, b>>, <<b, a>>}

Needs(p, v, q, versions) == [by |-> p, at |-> v, on |-> q, in |-> versions]

\* Requirements of newest, middle and old versions, between candidates and
\* against packages that are none.
A3NeedsOldB == Needs(a, 3, b, {1})
A3NeedsNewB == Needs(a, 3, b, {3})
B3NeedsNewA == Needs(b, 3, a, {3})
B1NeedsOldA == Needs(b, 1, a, {1, 2})
B3NeedsNewT == Needs(b, 3, t, {2, 3})
T3NeedsOldA == Needs(t, 3, a, {1})

MCIndexes == {{}, {A3NeedsOldB}, {A3NeedsNewB, B3NeedsNewA}, {B1NeedsOldA},
              {B1NeedsOldA, B3NeedsNewA}, {A3NeedsOldB, B3NeedsNewT},
              {T3NeedsOldA}, {B1NeedsOldA, A3NeedsNewB}}
MCStartVenvs ==
  {venv0 \in [MCPackages -> 0..3] : venv0[a] = 1 /\ venv0[b] # 3 /\ venv0[t] # 2}
=============================================================================
