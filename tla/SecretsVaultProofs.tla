-------------------------- MODULE SecretsVaultProofs --------------------------
(***************************************************************************)
(* Proofs about SecretsVault, for every set of ids, tokens, payloads and   *)
(* legacy seeds.                                                           *)
(***************************************************************************)
EXTENDS SecretsVault, WellFoundedInduction, TLAPS

\* The previous token under an id is a token of the list, or none.
LEMMA StoredTokenType ==
  ASSUME NEW rs \in Whole, NEW id
  PROVE  Store!StoredToken(rs, id) \in Tokens \cup {NoToken}
<1>1. CASE Store!LastAt(rs, id) = {}
  BY <1>1 DEF Store!StoredToken
<1>2. CASE Store!LastAt(rs, id) # {}
  <2> DEFINE i == CHOOSE i \in Store!LastAt(rs, id) : TRUE
  <2>1. i \in DOMAIN rs
    BY <1>2 DEF Store!LastAt
  <2>2. rs[i] \in Store!Items
    BY <2>1 DEF Whole
  <2> QED
    BY <1>2, <2>2 DEF Store!StoredToken, Store!Items
<1> QED
  BY <1>1, <1>2

\* Merging keeps a list of items a list of items, as long as the one sent.
LEMMA MergeType ==
  ASSUME NEW rs \in Whole, NEW p \in Whole
  PROVE  Store!Merge(rs, p) \in Whole
<1>1. \A i \in DOMAIN p : p[i] \in Store!Items
  BY DEF Whole
<1>2. \A i \in DOMAIN p : Store!StoredToken(rs, p[i].id) \in Tokens \cup {NoToken}
  BY StoredTokenType
<1>3. \A i \in DOMAIN p : Store!Merge(rs, p)[i] \in Store!Items
  <2> SUFFICES ASSUME NEW i \in DOMAIN p PROVE Store!Merge(rs, p)[i] \in Store!Items
    OBVIOUS
  <2>1. p[i] \in Store!Items /\ Store!StoredToken(rs, p[i].id) \in Tokens \cup {NoToken}
    BY <1>1, <1>2
  <2> DEFINE tk == Store!StoredToken(rs, p[i].id)
  <2>2. [p[i] EXCEPT !.token = tk] \in Store!Items
    <3> HIDE DEF tk
    <3>1. tk \in Tokens \cup {NoToken}
      BY <2>1 DEF tk
    <3> QED
      BY <2>1, <3>1 DEF Store!Items
  <2> QED
    BY <2>1, <2>2 DEF Store!Merge
<1>4. DOMAIN p = 1..Len(p) /\ Len(p) \in Nat
  BY DEF Whole
<1> QED
  BY <1>3, <1>4 DEF Store!Merge, Whole

\* A set of naturals that is not empty has a least element.
LEMMA LeastExists ==
  ASSUME NEW S \in SUBSET Nat, S # {}
  PROVE  \E i \in S : \A j \in S : i <= j
<1> DEFINE R == OpToRel(<, Nat)
<1>1. IsWellFoundedOn(R, Nat)
  BY NatLessThanWellFounded
<1>2. PICK i \in S : \A j \in S : ~ (<<j, i>> \in R)
  <2> HIDE DEF R
  <2> QED BY <1>1, WFMin
<1>3. \A j \in S : ~ (j < i)
  BY <1>2 DEF OpToRel
<1> QED
  BY <1>3

\* With a usable record there is a default one, and it is in the list.
LEMMA DefaultInList ==
  ASSUME NEW rs \in Whole, Store!Usable(rs) # {}
  PROVE  \E i \in Store!Usable(rs) : DefaultRecord(rs) = rs[i] /\ rs[i] \in Store!Items
<1> DEFINE usable == Store!Usable(rs)
           marked == {i \in usable : rs[i].default}
           choice == IF marked = {} THEN usable ELSE marked
           least  == CHOOSE i \in choice : \A j \in choice : i <= j
<1>1. choice \in SUBSET Nat /\ choice # {} /\ choice \subseteq usable
  BY DEF Store!Usable, Whole
<1>2. least \in choice
  <2>1. \E i \in choice : \A j \in choice : i <= j
    <3> HIDE DEF choice
    <3> QED BY <1>1, LeastExists
  <2> HIDE DEF choice
  <2> QED BY <2>1
<1>3. least \in usable /\ rs[least] \in Store!Items
  <2> HIDE DEF choice, least
  <2> QED BY <1>1, <1>2 DEF Store!Usable, Whole
<1>4. DefaultRecord(rs) = rs[least]
  BY DEF DefaultRecord
<1> QED
  BY <1>3, <1>4

-----------------------------------------------------------------------------
\* What links the phase of a save to the files: the inductive invariant.
SaveInv ==
  /\ VaultTypeOK
  /\ vault = NoFile => bak = NoFile /\ previous = NoFile
  /\ bak \in {vault, previous, Torn}
  /\ pc \notin {"idle"} => Store!Usable(records) # {} /\ answer = "none"
  /\ pc \in {"open", "dump", "replace"} => bak = vault
  /\ pc = "replace" => tmp = records
  /\ pc \in {"propagate", "write"} =>
       /\ vault = records /\ bak = previous
       /\ DefaultRecord(records) \in kept
  /\ answer \in {"saved", "saved_skipped", "saved_failed"} => bak = previous
  /\ answer = "saved" => kaggle = DefaultRecord(vault)
  /\ kaggle \in kept \cup {NoFile, Torn}

LEMMA InitSaveInv == Init => SaveInv
BY VaultAssumption DEF Init, SaveInv, VaultTypeOK, Phases, Whole

LEMMA LoadedType ==
  ASSUME SaveInv
  PROVE  Loaded \in Whole
BY VaultAssumption DEF SaveInv, VaultTypeOK, Loaded, Whole

LEMMA NextSaveInv ==
  ASSUME SaveInv, [Next]_vars
  PROVE  SaveInv'
<1> USE VaultAssumption DEF files, history, Phases
<1>1. ASSUME NEW p \in Payloads, Save(p) PROVE SaveInv'
  <2>1. Store!Merge(Loaded, p) \in Whole
    BY LoadedType, MergeType DEF Whole
  <2> QED
    BY <1>1, <2>1 DEF Save, SaveInv, VaultTypeOK
<1>2. CASE SaveUnreadable
  BY <1>2 DEF SaveUnreadable, SaveInv, VaultTypeOK
<1>3. CASE Backup
  BY <1>3 DEF Backup, SaveInv, VaultTypeOK
<1>4. CASE Copy
  BY <1>4 DEF Copy, SaveInv, VaultTypeOK
<1>5. CASE OpenTmp
  BY <1>5 DEF OpenTmp, SaveInv, VaultTypeOK
<1>6. CASE Dump
  BY <1>6 DEF Dump, SaveInv, VaultTypeOK
<1>7. CASE Replace
  <2>1. DefaultRecord(tmp) \in Store!Items
    BY <1>7, DefaultInList DEF Replace, SaveInv, VaultTypeOK
  <2> QED
    BY <1>7, <2>1 DEF Replace, SaveInv, VaultTypeOK, Whole
<1>8. CASE Propagate
  <2>1. DefaultRecord(records) \in Store!Items
    BY <1>8, DefaultInList DEF Propagate, SaveInv, VaultTypeOK
  <2> QED
    BY <1>8, <2>1 DEF Propagate, SaveInv, VaultTypeOK
<1>9. CASE WriteKaggle
  <2>1. DefaultRecord(records) \in Store!Items
    BY <1>9, DefaultInList DEF WriteKaggle, SaveInv, VaultTypeOK
  <2> QED
    BY <1>9, <2>1 DEF WriteKaggle, SaveInv, VaultTypeOK
<1>10. CASE WriteFails
  BY <1>10 DEF WriteFails, SaveInv, VaultTypeOK
<1>11. CASE PropagateFails
  BY <1>11 DEF PropagateFails, SaveInv, VaultTypeOK
<1>12. CASE Crash
  BY <1>12 DEF Crash, SaveInv, VaultTypeOK
<1>13. CASE UNCHANGED vars
  BY <1>13 DEF vars, SaveInv, VaultTypeOK
<1> QED
  BY <1>1, <1>2, <1>3, <1>4, <1>5, <1>6, <1>7, <1>8, <1>9, <1>10, <1>11, <1>12, <1>13
  DEF Next, SaveStep

THEOREM SpecSaveInv == Spec => []SaveInv
BY InitSaveInv, NextSaveInv, PTL DEF Spec

\* Every file, at every moment, holds what its writer puts there.
THEOREM VaultTypeCorrect == Spec => []VaultTypeOK
<1>1. SaveInv => VaultTypeOK
  BY DEF SaveInv
<1> QED
  BY <1>1, SpecSaveInv, PTL

\* There is always a version to go back to (_write_atomically).
THEOREM BackupCorrect == Spec => []BackupIsOneBack
<1>1. SaveInv => BackupIsOneBack
  BY DEF SaveInv, BackupIsOneBack
<1> QED
  BY <1>1, SpecSaveInv, PTL

\* kaggle.json never runs ahead of the vault (save, _Propagator.run).
THEOREM KaggleCorrect == Spec => []KaggleFollowsVault
<1>1. SaveInv => KaggleFollowsVault
  BY DEF SaveInv, KaggleFollowsVault
<1> QED
  BY <1>1, SpecSaveInv, PTL

\* A masked list sent back as it is changes no token (_merge, list_masked).
LEMMA ResaveKeeps ==
  ASSUME Loaded \in Whole
  PROVE  ResaveKeepsTokens
<1> SUFFICES ASSUME \A i, j \in DOMAIN Loaded : Loaded[i].id = Loaded[j].id => i = j
             PROVE  Store!Merge(Loaded, Echo(Loaded)) = Loaded
  BY DEF ResaveKeepsTokens
<1> DEFINE rs == Loaded
           ec == Echo(rs)
<1>0. rs \in Whole
  OBVIOUS
<1> HIDE DEF rs
<1>1. DOMAIN ec = DOMAIN rs
  BY DEF Echo
<1>2. ASSUME NEW i \in DOMAIN rs PROVE Store!Merge(rs, ec)[i] = rs[i]
  <2>1. rs[i] \in Store!Items /\ i \in Nat
    BY <1>0 DEF Whole
  <2>2. ec[i].token = NoToken /\ ec[i].id = rs[i].id
    BY <2>1 DEF Echo, Store!Items
  <2>3. Store!LastAt(rs, rs[i].id) = {i}
    BY <1>0, <2>1 DEF Store!LastAt, rs, Whole
  <2>4. Store!StoredToken(rs, rs[i].id) = rs[i].token
    BY <2>3 DEF Store!StoredToken
  <2>5. Store!Merge(rs, ec)[i] = [ec[i] EXCEPT !.token = rs[i].token]
    BY <1>1, <2>2, <2>4 DEF Store!Merge
  <2>6. [ec[i] EXCEPT !.token = rs[i].token] = rs[i]
    BY <2>1 DEF Echo, Store!Items
  <2> QED
    BY <2>5, <2>6
<1>3. Store!Merge(rs, ec) = [i \in DOMAIN rs |-> rs[i]]
  BY <1>1, <1>2 DEF Store!Merge
<1>4. rs = [i \in DOMAIN rs |-> rs[i]]
  BY <1>0 DEF Whole
<1> QED
  BY <1>3, <1>4 DEF rs

THEOREM ResaveCorrect == Spec => []ResaveKeepsTokens
<1>1. SaveInv => ResaveKeepsTokens
  BY LoadedType, ResaveKeeps
<1> QED
  BY <1>1, SpecSaveInv, PTL

\* Until they replace the file, the records of a save are what merging its
\* payload into the vault gives.
MergedInv ==
  pc \in {"backup", "copy", "open", "dump", "replace"} =>
    \E p \in Payloads : records = Store!Merge(Loaded, p)

LEMMA NextMergedInv ==
  ASSUME SaveInv, MergedInv, [Next]_vars
  PROVE  MergedInv'
<1> USE DEF files, history, MergedInv, Loaded
<1>1. ASSUME NEW p \in Payloads, Save(p) PROVE MergedInv'
  BY <1>1 DEF Save
<1>2. CASE SaveUnreadable
  BY <1>2 DEF SaveUnreadable
<1>3. CASE Backup \/ Copy \/ OpenTmp \/ Dump
  BY <1>3 DEF Backup, Copy, OpenTmp, Dump
<1>4. CASE Replace \/ Propagate \/ WriteKaggle
  BY <1>4 DEF Replace, Propagate, WriteKaggle
<1>5. CASE WriteFails \/ PropagateFails \/ Crash
  BY <1>5 DEF WriteFails, PropagateFails, Crash
<1>6. CASE UNCHANGED vars
  BY <1>6 DEF vars
<1> QED
  BY <1>1, <1>2, <1>3, <1>4, <1>5, <1>6 DEF Next, SaveStep

\* Only the replacement changes what a reader finds.
LEMMA StepRefines ==
  ASSUME SaveInv, MergedInv, [Next]_vars
  PROVE  [Store!Next]_Loaded
<1> USE DEF files, history, Loaded
<1>1. CASE Replace
  <2>1. PICK p \in Payloads : records = Store!Merge(Loaded, p)
    BY <1>1 DEF Replace, MergedInv
  <2>2. Loaded' = records /\ Store!Usable(records) # {}
    BY <1>1, VaultAssumption DEF Replace, SaveInv, VaultTypeOK, Whole
  <2>3. Store!Save(p)
    BY <2>1, <2>2 DEF Store!Save
  <2> QED
    BY <2>3 DEF Store!Next
<1>2. ASSUME NEW p \in Payloads, Save(p) PROVE UNCHANGED Loaded
  BY <1>2 DEF Save
<1>3. CASE SaveUnreadable \/ Backup \/ Copy \/ OpenTmp \/ Dump
  BY <1>3 DEF SaveUnreadable, Backup, Copy, OpenTmp, Dump
<1>4. CASE Propagate \/ WriteKaggle \/ WriteFails \/ PropagateFails \/ Crash
  BY <1>4 DEF Propagate, WriteKaggle, WriteFails, PropagateFails, Crash
<1>5. CASE UNCHANGED vars
  BY <1>5 DEF vars
<1> QED
  BY <1>1, <1>2, <1>3, <1>4, <1>5 DEF Next, SaveStep

\* The files implement the store: every step of a save, every failure and every
\* crash is one save of the store, or leaves it alone.
THEOREM VaultRefines == Spec => ImplementsStore
<1>1. Init => Store!Init /\ MergedInv
  BY DEF Init, Store!Init, Loaded, MergedInv
<1>2. SaveInv /\ MergedInv /\ [Next]_vars => MergedInv' /\ [Store!Next]_Loaded
  BY NextMergedInv, StepRefines
<1> QED
  BY <1>1, <1>2, SpecSaveInv, PTL DEF Spec, ImplementsStore, Store!Spec
=============================================================================
