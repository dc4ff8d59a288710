----------------------------- MODULE SecretsVault -----------------------------
(***************************************************************************)
(* The vault file and how a save writes it (env_manager/secrets_vault.py), *)
(* one file operation at a time, with a failure or a crash of the server   *)
(* before or inside any of them.  The handlers never await between reading *)
(* the vault and answering (env_manager/api/routes_workspace.py), so one   *)
(* save runs at a time.  A file is absent, whole, or torn: opened for      *)
(* writing and not yet written.                                            *)
(***************************************************************************)
EXTENDS Integers, Sequences

CONSTANTS Ids, Tokens, NoToken, Payloads, Seeds,
          NoFile, Torn,   \* a file that is absent; a file cut short
          MaxSaves        \* bound on the saves of a behaviour

VARIABLES
  vault, tmp, bak,   \* .secrets.yaml, .secrets.yaml.tmp, .secrets.yaml.bak
  kaggle,            \* ~/.kaggle/kaggle.json: the record it was written from
  seeds,             \* what the legacy credential files hold
  pc, records,       \* the save under way and the records it writes
  answer,            \* what the last save answered; "none" after a crash
  previous,          \* history: the vault file before its last replacement
  kept,              \* history: the Kaggle records that were ever the default
  saves

files   == <<vault, tmp, bak, kaggle>>
history == <<previous, kept, saves>>
vars    == <<files, seeds, pc, records, answer, history>>

\* load_records: the file, or the legacy seeds while there is none.
Loaded == IF vault = NoFile THEN seeds ELSE vault

Store == INSTANCE VaultStore WITH contents <- Loaded

ASSUME VaultAssumption ==
  /\ NoToken \notin Tokens
  /\ Payloads \subseteq Seq(Store!Items) /\ Seeds \subseteq Seq(Store!Items)
  /\ {NoFile, Torn} \cap Seq(Store!Items) = {} /\ NoFile # Torn
  /\ {NoFile, Torn} \cap Store!Items = {}
  /\ MaxSaves \in Nat

Phases == {"idle", "backup", "copy", "open", "dump", "replace", "propagate", "write"}

Init ==
  /\ seeds \in Seeds
  /\ vault = NoFile /\ tmp = NoFile /\ bak = NoFile /\ kaggle = NoFile
  /\ pc = "idle" /\ records = <<>> /\ answer = "none"
  /\ previous = NoFile /\ kept = {} /\ saves = 0

\* The record `run` writes out: the first usable one marked default, or the
\* first usable one.
DefaultRecord(rs) ==
  LET usable == Store!Usable(rs)
      marked == {i \in usable : rs[i].default}
      choice == IF marked = {} THEN usable ELSE marked
  IN rs[CHOOSE i \in choice : \A j \in choice : i <= j]

-----------------------------------------------------------------------------
\* save: merge and validate; nothing is written for a list without a Kaggle token.
Save(p) ==
  /\ pc = "idle" /\ saves < MaxSaves
  /\ LET merged == Store!Merge(Loaded, p) IN
       IF Store!Usable(merged) = {}
       THEN answer' = "invalid" /\ UNCHANGED <<pc, records>>
       ELSE pc' = "backup" /\ records' = merged /\ answer' = "none"
  /\ saves' = saves + 1
  /\ UNCHANGED <<files, seeds, previous, kept>>

\* The vault file cannot be read: the handler answers 500.
SaveUnreadable ==
  /\ pc = "idle" /\ saves < MaxSaves /\ vault # NoFile
  /\ answer' = "storage_error"
  /\ saves' = saves + 1
  /\ UNCHANGED <<files, seeds, pc, records, previous, kept>>

\* _write_atomically, the backup: write_bytes empties the old backup first.
Backup ==
  /\ pc = "backup"
  /\ IF vault = NoFile THEN pc' = "open" /\ UNCHANGED bak
                       ELSE pc' = "copy" /\ bak' = Torn
  /\ UNCHANGED <<vault, tmp, kaggle, seeds, records, answer, history>>

Copy ==
  /\ pc = "copy"
  /\ bak' = vault /\ pc' = "open"
  /\ UNCHANGED <<vault, tmp, kaggle, seeds, records, answer, history>>

\* Mutant: no temporary file, the vault itself is opened for writing.
OpenTmp_InPlace ==
  /\ pc = "open"
  /\ vault' = Torn /\ tmp' = records /\ pc' = "replace"
  /\ UNCHANGED <<bak, kaggle, seeds, records, answer, history>>

\* _write_atomically, the dump into the temporary file.
OpenTmp ==
  /\ pc = "open"
  /\ tmp' = Torn /\ pc' = "dump"
  /\ UNCHANGED <<vault, bak, kaggle, seeds, records, answer, history>>

Dump ==
  /\ pc = "dump"
  /\ tmp' = records /\ pc' = "replace"
  /\ UNCHANGED <<vault, bak, kaggle, seeds, records, answer, history>>

\* Mutant: the temporary file also becomes the backup.
Replace_BackupToo ==
  /\ pc = "replace"
  /\ vault' = tmp /\ tmp' = NoFile /\ bak' = tmp
  /\ previous' = vault /\ kept' = kept \cup {DefaultRecord(tmp)}
  /\ pc' = "propagate"
  /\ UNCHANGED <<kaggle, seeds, records, answer, saves>>

\* os.replace: the only step that changes the vault.
Replace ==
  /\ pc = "replace"
  /\ vault' = tmp /\ tmp' = NoFile
  /\ previous' = vault /\ kept' = kept \cup {DefaultRecord(tmp)}
  /\ pc' = "propagate"
  /\ UNCHANGED <<bak, kaggle, seeds, records, answer, saves>>

\* An OSError in any of these operations: 500, the files stay as they are.
WriteFails ==
  /\ pc \in {"backup", "copy", "open", "dump", "replace"}
  /\ pc' = "idle" /\ answer' = "storage_error"
  /\ UNCHANGED <<files, seeds, records, history>>

\* Mutant: the credential of the vault before this save is written out.
Propagate_Stale ==
  /\ pc = "propagate"
  /\ kaggle' = IF Store!Usable(Loaded) = {} \/ previous = NoFile \/ Store!Usable(previous) = {}
               THEN kaggle ELSE DefaultRecord(previous)
  /\ pc' = "idle" /\ answer' = "saved"
  /\ UNCHANGED <<vault, tmp, bak, seeds, records, history>>

\* _Propagator.run: a default record without a user name is skipped, and
\* kaggle.json keeps what it held; otherwise it is opened for writing.
Propagate ==
  /\ pc = "propagate"
  /\ IF DefaultRecord(records).named
     THEN kaggle' = Torn /\ pc' = "write" /\ UNCHANGED answer
     ELSE pc' = "idle" /\ answer' = "saved_skipped" /\ UNCHANGED kaggle
  /\ UNCHANGED <<vault, tmp, bak, seeds, records, history>>

WriteKaggle ==
  /\ pc = "write"
  /\ kaggle' = DefaultRecord(records) /\ pc' = "idle" /\ answer' = "saved"
  /\ UNCHANGED <<vault, tmp, bak, seeds, records, history>>

\* The config directory or the file cannot be written: reported, not raised.
PropagateFails ==
  /\ \/ pc = "propagate" /\ DefaultRecord(records).named
     \/ pc = "write"
  /\ pc' = "idle" /\ answer' = "saved_failed"
  /\ UNCHANGED <<files, seeds, records, history>>

\* The server dies in the middle of a save; the next one starts from the files.
Crash ==
  /\ pc # "idle"
  /\ pc' = "idle" /\ answer' = "none"
  /\ UNCHANGED <<files, seeds, records, history>>

SaveStep == Backup \/ Copy \/ OpenTmp \/ Dump \/ Replace \/ Propagate \/ WriteKaggle

Next ==
  \/ \E p \in Payloads : Save(p)
  \/ SaveUnreadable \/ SaveStep \/ WriteFails \/ PropagateFails \/ Crash

\* Saves stop at the bound; a save under way is never stuck.
Spec == Init /\ [][Next]_vars

-----------------------------------------------------------------------------
Whole == Seq(Store!Items)

\* Every file holds what its writer puts there, and the answers are those of save().
VaultTypeOK ==
  /\ vault \in Whole \cup {NoFile}
  /\ tmp \in Whole \cup {NoFile, Torn}
  /\ bak \in Whole \cup {NoFile, Torn}
  /\ kaggle \in Store!Items \cup {NoFile, Torn}
  /\ seeds \in Seeds
  /\ pc \in Phases /\ records \in Whole
  /\ answer \in {"none", "invalid", "storage_error", "saved", "saved_skipped", "saved_failed"}
  /\ previous \in Whole \cup {NoFile}
  /\ kept \subseteq Store!Items
  /\ saves \in 0..MaxSaves

\* The vault, seen through load_records, is a VaultStore: whatever fails or
\* crashes in whatever step, a reader finds the records of the last save that
\* got through, whole, and merged from what was stored before it.
ImplementsStore == Store!Spec

\* There is a version to go back to: once a save has replaced the vault the
\* backup is, whole, the version before it, and it stays so until a later save
\* begins to copy; a backup that is whole is never older than that.
BackupIsOneBack ==
  /\ bak \in {vault, previous, Torn}
  /\ pc = "propagate" \/ pc = "write" \/ answer \in {"saved", "saved_skipped", "saved_failed"}
       => bak = previous

\* kaggle.json follows the vault and never runs ahead of it: what it holds was
\* the default record of a vault that was written, and after a save that
\* reported it written it holds the default record of the vault as it is.
KaggleFollowsVault ==
  /\ kaggle \in kept \cup {NoFile, Torn}
  /\ pc = "idle" /\ answer = "saved" => kaggle = DefaultRecord(vault)

\* What a client that shows the masked list sends back when nothing was edited.
Echo(rs) == [i \in DOMAIN rs |-> [rs[i] EXCEPT !.token = NoToken]]

\* Saving the masked list as it was shown changes no token, from the legacy
\* seeds as well as from the file, as long as no two records share an id.
ResaveKeepsTokens ==
  (\A i, j \in DOMAIN Loaded : Loaded[i].id = Loaded[j].id => i = j)
    => Store!Merge(Loaded, Echo(Loaded)) = Loaded
=============================================================================
