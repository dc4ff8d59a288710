----------------------------- MODULE LegacySeeds -----------------------------
(***************************************************************************)
(* What the vault holds before its first save: the records read from the   *)
(* legacy credential files (env_manager/secrets_vault.py).  A root gives   *)
(* the entries of .kaggle_users, the single-token files in the order of    *)
(* their sources, and the fields of .mt5_credentials; a file that is not   *)
(* there or cannot be read has no entries, no token, no user.              *)
(***************************************************************************)
EXTENDS Sequences

CONSTANT NoToken

NoUser == "no user"

SeedRecord(id, kaggle, default, named, token) ==
  [id |-> id, kaggle |-> kaggle, default |-> default, named |-> named, token |-> token]

\* _seed_kaggle_users: entries with a user name and a token; the first is the
\* default account.
SeedKaggleUsers(entries) ==
  LET kept == SelectSeq(entries, LAMBDA e : e.user # NoUser /\ e.token # NoToken) IN
    [i \in DOMAIN kept |-> SeedRecord(kept[i].user, TRUE, i = 1, TRUE, kept[i].token)]

\* _seed_single_tokens
SeedSingleTokens(sources) ==
  LET kept == SelectSeq(sources, LAMBDA s : s.token # NoToken) IN
    [i \in DOMAIN kept |-> SeedRecord(kept[i].id, FALSE, TRUE, FALSE, kept[i].token)]

\* _seed_mt5: the account is kept without its password too.
SeedMt5(account) ==
  IF account.user = NoUser THEN <<>>
  ELSE <<SeedRecord(account.user, FALSE, TRUE, TRUE, account.token)>>

SeedFromLegacyFiles(root) ==
  SeedKaggleUsers(root.kaggle) \o SeedSingleTokens(root.single) \o SeedMt5(root.mt5)
=============================================================================
