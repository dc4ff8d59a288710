---------------------------- MODULE ManifestSync ----------------------------
(***************************************************************************)
(* One project's requirements: the central manifest under requirements/    *)
(* and the project's own requirements.txt, its generated copy.  Three      *)
(* kinds of call write them, from different threads and without a lock:    *)
(*   - sync copies central over the copy unless that would take something  *)
(*     away (env_manager/requirements_manager.py);                         *)
(*   - the write-back after an upgrade pins central to what is installed   *)
(*     and copies it, too (env_manager/upgrade/manifest_sync.py);          *)
(*   - the manifest editor saves a new text for the copy                   *)
(*     (env_manager/api/routes_manifests.py).                              *)
(*                                                                         *)
(* Every write opens the file, which empties it, and then writes.  A file  *)
(* is a function from packages to levels: 0 when the package is not        *)
(* listed, 1 when it is listed without a floor, above that the floor.      *)
(***************************************************************************)
EXTENDS Naturals

CONSTANTS Packages, MaxLevel,
          Protected,                \* PROTECTED_FROM_SYNC
          Syncs, WriteBacks, Saves, \* the calls, each made once
          SaveTexts,                \* what the editor may save
          NoFile, MaxCrashes

ASSUME ManifestAssumption ==
  /\ MaxLevel \in Nat /\ MaxCrashes \in Nat
  /\ Protected \subseteq Packages
  /\ Syncs \cap WriteBacks = {} /\ Syncs \cap Saves = {} /\ WriteBacks \cap Saves = {}
  /\ SaveTexts \subseteq [Packages -> 0..MaxLevel]
  /\ NoFile \notin [Packages -> 0..MaxLevel]

Calls == Syncs \cup WriteBacks \cup Saves
Files == [Packages -> 0..MaxLevel]
Empty == [p \in Packages |-> 0]

\* The package set of a virtual environment, 0 for what is not installed.
Installs == [Packages -> {0} \cup 2..MaxLevel] \ {Empty}

Text(file) == IF file = NoFile THEN Empty ELSE file

VARIABLES
  central, sibling,  \* the two files
  pc,                \* how far each call got
  held,              \* the text a call is about to write
  crashes,
  \* history: the copy that a call found at its start, whether central or the
  \* copy was changed under it by something other than an undisturbed sync
  found, disturbed

vars == <<central, sibling, pc, held, crashes, found, disturbed>>

Finished == {"done", "failed", "refused", "dead"}
Phases == {"new", "read", "open", "write", "copyOpen", "copyWrite"} \cup Finished

Init ==
  /\ central \in Files \cup {NoFile}
  /\ sibling \in Files \cup {NoFile}
  /\ pc = [c \in Calls |-> "new"]
  /\ held = [c \in Calls |-> Empty]
  /\ crashes = 0
  /\ found = [c \in Syncs \cup WriteBacks |-> Empty]
  /\ disturbed = [c \in Calls |-> FALSE]

At(c, phase) == pc[c] = phase
Go(c, phase) == pc' = [pc EXCEPT ![c] = phase]

\* The call takes up a text to write, or lets go of it.
Hold(c, text) == held' = [held EXCEPT ![c] = text]
Forget(c) == Hold(c, Empty)

\* The other calls that have started see a file change under them.
Disturb(c) ==
  disturbed' = [d \in Calls |-> disturbed[d] \/ (d # c /\ pc[d] # "new")]

\* A sync disturbs the others only when it was disturbed itself: it may be
\* about to write a central manifest of the past.
PassOn(s) == IF disturbed[s] THEN Disturb(s) ELSE UNCHANGED disturbed

\* A file operation raises OSError: the call ends, the files are as they are,
\* perhaps emptied under everybody.
Fails(c, phase) ==
  /\ At(c, phase)
  /\ Go(c, "failed")
  /\ Disturb(c)
  /\ Forget(c)
  /\ UNCHANGED <<central, sibling, crashes, found>>

-----------------------------------------------------------------------------
(* sync_manifest_to_project                                                *)

\* Mutant: a package that central does not list is not drift.
Drift_FloorsOnly(from, to) ==
  \E p \in Packages : from[p] # 0 /\ from[p] < to[p]

\* find_requirement_drift: `from` over `to` would lower a floor, drop one, or
\* drop a package.
Drift(from, to) == \E p \in Packages : from[p] < to[p]

\* Mutant: a copy that lists what central lists counts as up to date.
SyncCheck_SkipsListed(s) ==
  /\ At(s, "new")
  /\ found' = [found EXCEPT ![s] = Text(sibling)]
  /\ \/ central = NoFile /\ Go(s, "failed")
     \/ /\ central # NoFile /\ sibling # NoFile
        /\ \A p \in Packages : central[p] # 0 => sibling[p] # 0
        /\ Go(s, "done")
     \/ central # NoFile /\ sibling = NoFile /\ Go(s, "read")
  /\ UNCHANGED <<central, sibling, held, crashes, disturbed>>

\* The check reads both files; it is one step here.
SyncCheck(s) ==
  /\ At(s, "new")
  /\ \/ central = NoFile /\ Go(s, "failed") /\ UNCHANGED found
     \/ /\ central # NoFile /\ Drift(central, Text(sibling))
        /\ Go(s, "refused") /\ UNCHANGED found
     \/ /\ central # NoFile /\ ~Drift(central, Text(sibling))
        /\ Go(s, "read") /\ found' = [found EXCEPT ![s] = Text(sibling)]
  /\ UNCHANGED <<central, sibling, held, crashes, disturbed>>

\* Then central is read a second time, for its text.
SyncRead(s) ==
  /\ At(s, "read")
  /\ Hold(s, Text(central))
  /\ Go(s, "open")
  /\ UNCHANGED <<central, sibling, crashes, found, disturbed>>

SyncOpen(s) ==
  /\ At(s, "open")
  /\ sibling' = Empty
  /\ Go(s, "write")
  /\ PassOn(s)
  /\ UNCHANGED <<central, held, crashes, found>>

SyncWrite(s) ==
  /\ At(s, "write")
  /\ sibling' = held[s]
  /\ Go(s, "done")
  /\ PassOn(s)
  /\ Forget(s)
  /\ UNCHANGED <<central, crashes, found>>

Sync(s) ==
  \/ SyncCheck(s) \/ SyncRead(s) \/ SyncOpen(s) \/ SyncWrite(s)
  \/ Fails(s, "read") \/ Fails(s, "open") \/ Fails(s, "write")

-----------------------------------------------------------------------------
(* _sync_project                                                           *)

\* _synced_line for every line of the manifest.
Synced(file, installed) ==
  [p \in Packages |->
     IF file[p] = 0 \/ p \in Protected \/ installed[p] = 0 THEN file[p] ELSE installed[p]]

\* Mutant: the manifest is read without asking whether it exists.
WriteBackRead_NoGuard(w) ==
  /\ At(w, "new")
  /\ \E installed \in Installs :
       Hold(w, IF central = NoFile THEN NoFile ELSE Synced(central, installed))
  /\ found' = [found EXCEPT ![w] = Text(sibling)]
  /\ Go(w, "open")
  /\ UNCHANGED <<central, sibling, crashes, disturbed>>

\* Without a valid venv or without installed packages nothing is written; a
\* manifest that is missing counts as empty.
WriteBackRead(w) ==
  /\ At(w, "new")
  /\ \/ Go(w, "refused") /\ UNCHANGED <<held, found>>
     \/ \E installed \in Installs :
          /\ Hold(w, Synced(Text(central), installed))
          /\ found' = [found EXCEPT ![w] = Text(sibling)]
          /\ Go(w, "open")
  /\ UNCHANGED <<central, sibling, crashes, disturbed>>

WriteBackOpen(w) ==
  /\ At(w, "open")
  /\ central' = Empty
  /\ Go(w, "write")
  /\ Disturb(w)
  /\ UNCHANGED <<sibling, held, crashes, found>>

WriteBackWrite(w) ==
  /\ At(w, "write")
  /\ central' = held[w]
  /\ Go(w, "copyOpen")
  /\ Disturb(w)
  /\ Forget(w)
  /\ UNCHANGED <<sibling, crashes, found>>

\* shutil.copy2 opens the copy, then reads central as it is by then.
WriteBackCopyOpen(w) ==
  /\ At(w, "copyOpen")
  /\ sibling' = Empty
  /\ Go(w, "copyWrite")
  /\ Disturb(w)
  /\ UNCHANGED <<central, held, crashes, found>>

WriteBackCopyWrite(w) ==
  /\ At(w, "copyWrite")
  /\ sibling' = Text(central)
  /\ Go(w, "done")
  /\ Disturb(w)
  /\ UNCHANGED <<central, held, crashes, found>>

WriteBack(w) ==
  \/ WriteBackRead(w) \/ WriteBackOpen(w) \/ WriteBackWrite(w)
  \/ WriteBackCopyOpen(w) \/ WriteBackCopyWrite(w)
  \/ Fails(w, "open") \/ Fails(w, "write") \/ Fails(w, "copyOpen") \/ Fails(w, "copyWrite")

-----------------------------------------------------------------------------
(* save_manifest_content: the name of the central manifest, the path of    *)
(* the copy.                                                               *)

SaveOpen(e) ==
  /\ At(e, "new")
  /\ sibling' = Empty
  /\ \E text \in SaveTexts : Hold(e, text)
  /\ Go(e, "write")
  /\ Disturb(e)
  /\ UNCHANGED <<central, crashes, found>>

SaveWrite(e) ==
  /\ At(e, "write")
  /\ sibling' = held[e]
  /\ Go(e, "done")
  /\ Disturb(e)
  /\ Forget(e)
  /\ UNCHANGED <<central, crashes, found>>

Save(e) == SaveOpen(e) \/ SaveWrite(e) \/ Fails(e, "write")

-----------------------------------------------------------------------------

\* The server is killed: calls under way stop where they are.  Calls that
\* have not started are made of the next server.
Crash ==
  /\ crashes < MaxCrashes
  /\ crashes' = crashes + 1
  /\ pc' = [c \in Calls |-> IF pc[c] \in Finished \cup {"new"} THEN pc[c] ELSE "dead"]
  /\ disturbed' = [c \in Calls |-> disturbed[c] \/ pc[c] # "new"]
  /\ held' = [c \in Calls |-> Empty]
  /\ UNCHANGED <<central, sibling, found>>

Next ==
  \/ \E s \in Syncs : Sync(s)
  \/ \E w \in WriteBacks : WriteBack(w)
  \/ \E e \in Saves : Save(e)
  \/ Crash

Spec == Init /\ [][Next]_vars
-----------------------------------------------------------------------------
(* Properties.                                                             *)

ManifestTypeOK ==
  /\ central \in Files \cup {NoFile} /\ sibling \in Files \cup {NoFile}
  /\ pc \in [Calls -> Phases] /\ held \in [Calls -> Files]
  /\ crashes \in 0..MaxCrashes
  /\ found \in [Syncs \cup WriteBacks -> Files] /\ disturbed \in [Calls -> BOOLEAN]

Quiet == \A c \in Calls : pc[c] \in Finished \cup {"new"}

Keeps(before, after) == \A p \in Packages : before[p] <= after[p]

\* Once all calls are through, a sync that reported success and that no
\* write-back, save or crash came upon has left every package and every floor
\* its check found, however many syncs wrote the file at once, and after
\* whatever an earlier crash left of the two files.  requirements_manager.py:9, "it
\* never takes anything away from a sibling", makes no exception, but a sync that
\* is disturbed between its check (line 268) and its second reading (274) may write
\* an empty file.
SyncKeepsFloors ==
  Quiet => \A s \in Syncs : pc[s] = "done" /\ ~disturbed[s] => Keeps(found[s], Text(sibling))

\* Under the same conditions the project's file is what it is meant to be, a
\* copy of the central manifest; of a write-back this holds, too.
DoneMeansCopied ==
  Quiet => \A c \in Syncs \cup WriteBacks :
             pc[c] = "done" /\ ~disturbed[c]
               /\ (c \in WriteBacks => \A s \in Syncs : pc[s] \in {"new", "refused"})
               => sibling = central
=============================================================================
