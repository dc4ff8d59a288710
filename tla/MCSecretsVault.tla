---------------------------- MODULE MCSecretsVault ----------------------------
(* Two ids, one of them always a Kaggle account, two tokens.  A list has at  *)
(* most two items; the accounts may have no user name, be the default one,   *)
(* or share an id.                                                           *)
EXTENDS SecretsVault

CONSTANTS k, g, t1, t2

Seeder == INSTANCE LegacySeeds

Item(id, kg, default, named, token) ==
  [id |-> id, kaggle |-> kg, default |-> default, named |-> named, token |-> token]

KaggleItems == {Item(k, TRUE, d, n, t) : d, n \in BOOLEAN, t \in {t1, t2, NoToken}}
OtherItems  == {Item(g, kg, FALSE, TRUE, t) : kg \in BOOLEAN, t \in {t1, NoToken}}

MCPayloads ==
  {<<a>> : a \in KaggleItems} \cup {<<a, b>> : a \in KaggleItems, b \in OtherItems}
    \cup {<<b>> : b \in OtherItems}
    \cup {<<Item(k, TRUE, FALSE, TRUE, t1), Item(k, TRUE, TRUE, TRUE, t)>> : t \in {t2, NoToken}}

\* Nothing; one account with its token; an account that is there twice; an
\* account without a token and a trading account.
MCRoot == [kaggle |-> <<>>, single |-> <<>>, mt5 |-> [user |-> Seeder!NoUser, token |-> NoToken]]
MCSeeds ==
  {Seeder!SeedFromLegacyFiles(root) : root \in
     {MCRoot,
      [MCRoot EXCEPT !.kaggle = <<[user |-> k, token |-> t1]>>, !.single = <<[id |-> g, token |-> t2]>>],
      [MCRoot EXCEPT !.kaggle = <<[user |-> k, token |-> t1], [user |-> k, token |-> t2]>>],
      [MCRoot EXCEPT !.kaggle = <<[user |-> Seeder!NoUser, token |-> t1], [user |-> k, token |-> NoToken]>>,
                     !.single = <<[id |-> g, token |-> NoToken]>>, !.mt5 = [user |-> g, token |-> t1]]}}
=============================================================================
