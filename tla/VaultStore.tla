------------------------------ MODULE VaultStore ------------------------------
(***************************************************************************)
(* What the secrets vault promises (env_manager/secrets_vault.py): it      *)
(* holds one list of records; a save replaces the whole list by the list   *)
(* sent, an empty token standing for the one stored under the same id, and *)
(* is refused when no Kaggle token would be left.  Nothing else changes    *)
(* the list, and there is nothing in between.                              *)
(***************************************************************************)
EXTENDS Integers, Sequences

CONSTANTS Ids, Tokens, NoToken,
          Payloads,  \* the lists of items that clients send
          Seeds      \* what the vault may hold before its first save

Items == [id : Ids, kaggle : BOOLEAN, default : BOOLEAN, named : BOOLEAN,
          token : Tokens \cup {NoToken}]

\* Where the dict of stored records finds an id: the last record that has it.
LastAt(records, id) ==
  {i \in DOMAIN records :
     /\ records[i].id = id
     /\ \A j \in DOMAIN records : records[j].id = id => j <= i}

\* The previous token under an id, empty when there is none.
StoredToken(records, id) ==
  IF LastAt(records, id) = {} THEN NoToken
  ELSE records[CHOOSE i \in LastAt(records, id) : TRUE].token

\* Mutant: an empty token is stored as it is sent.
Merge_TakesEmpty(records, items) == items

\* _merge: the records sent, in the order sent; ids left out are gone.
Merge(records, items) ==
  [i \in DOMAIN items |->
     IF items[i].token # NoToken THEN items[i]
     ELSE [items[i] EXCEPT !.token = StoredToken(records, items[i].id)]]

\* The places of the Kaggle records that have a token.
Usable(records) == {i \in DOMAIN records : records[i].kaggle /\ records[i].token # NoToken}

VARIABLE contents

Init == contents \in Seeds

Save(p) ==
  /\ contents' = Merge(contents, p)
  /\ Usable(contents') # {}

Next == \E p \in Payloads : Save(p)

Spec == Init /\ [][Next]_contents
=============================================================================
