-------------------------- MODULE ManifestSyncProofs --------------------------
(***************************************************************************)
(* What the requirements manifests of a project promise, for any packages, *)
(* levels, number of calls and crashes.  Nothing locks the two files: what *)
(* the promises rest on is that undisturbed syncs all hold one and the     *)
(* same central manifest, whose floors cover what each of them found.      *)
(***************************************************************************)
EXTENDS ManifestSync, TLAPS

Passed  == {"read", "open", "write", "done"}  \* the check let the sync through
Written == {"write", "copyOpen", "copyWrite"} \* central has been opened

\* An undisturbed sync still sees the central manifest that it checked.
Checked ==
  \A s \in Syncs : pc[s] \in Passed /\ ~disturbed[s] =>
    /\ central # NoFile /\ Keeps(found[s], central)
    /\ pc[s] \in {"open", "write"} => held[s] = central

\* After an undisturbed sync the copy is whole, or another such is writing it.
Copied ==
  \A s \in Syncs : pc[s] = "done" /\ ~disturbed[s] =>
    sibling = central \/ \E t \in Syncs : pc[t] = "write" /\ ~disturbed[t]

\* After an undisturbed write-back only a sync may have touched the copy.
CopiedBack ==
  \A w \in WriteBacks :
    /\ pc[w] \in Written => central # NoFile
    /\ pc[w] = "done" /\ ~disturbed[w] =>
         sibling = central \/ \E s \in Syncs : pc[s] \notin {"new", "refused"}

ManifestInv == ManifestTypeOK /\ Checked /\ Copied /\ CopiedBack

-----------------------------------------------------------------------------
(* The texts of the files.                                                  *)

LEMMA EmptyIsFile == Empty \in Files
  BY ManifestAssumption DEF Empty, Files

LEMMA TextIsFile ==
  ASSUME NEW file \in Files \cup {NoFile}
  PROVE  Text(file) \in Files /\ (file # NoFile => Text(file) = file)
  BY EmptyIsFile DEF Text

LEMMA SyncedIsFile ==
  ASSUME NEW file \in Files, NEW installed \in Installs
  PROVE  Synced(file, installed) \in Files
  BY ManifestAssumption DEF Synced, Files, Installs

\* The check of a sync covers every floor of the copy.
LEMMA NoDriftKeeps ==
  ASSUME NEW from \in Files, NEW to \in Files, ~Drift(from, to)
  PROVE  Keeps(to, from)
  <1> SUFFICES ASSUME NEW p \in Packages PROVE to[p] <= from[p]
    BY DEF Keeps
  <1>1. from[p] \in Nat /\ to[p] \in Nat
    BY ManifestAssumption DEF Files
  <1>2. ~(from[p] < to[p])
    BY DEF Drift
  <1>3. QED
    BY <1>1, <1>2

LEMMA InitInv == Init => ManifestInv
  <1> SUFFICES ASSUME Init PROVE ManifestInv
    OBVIOUS
  <1>1. ManifestTypeOK
    BY EmptyIsFile, ManifestAssumption DEF Init, ManifestTypeOK, Phases
  <1>2. \A c \in Calls : pc[c] = "new"
    BY DEF Init
  <1>3. Checked /\ Copied /\ CopiedBack
    BY <1>2 DEF Checked, Copied, CopiedBack, Passed, Written, Calls
  <1>4. QED
    BY <1>1, <1>3 DEF ManifestInv

-----------------------------------------------------------------------------
(* A call moves on, with the files, its text and the disturbance it causes. *)

\* What one step of one call may do to the types.
LEMMA MoveTypes ==
  ASSUME ManifestTypeOK, NEW c \in Calls, NEW phase \in Phases, Go(c, phase),
         central' \in Files \cup {NoFile}, sibling' \in Files \cup {NoFile},
         UNCHANGED held \/ \E text \in Files : Hold(c, text),
         UNCHANGED found \/ \E text \in Files : found' = [found EXCEPT ![c] = text],
         UNCHANGED disturbed \/ Disturb(c), UNCHANGED crashes
  PROVE  ManifestTypeOK'
  <1>1. pc' \in [Calls -> Phases]
    BY DEF ManifestTypeOK, Go
  <1>2. held' \in [Calls -> Files]
    BY DEF ManifestTypeOK, Hold
  <1>3. found' \in [Syncs \cup WriteBacks -> Files]
    BY DEF ManifestTypeOK
  <1>4. disturbed' \in [Calls -> BOOLEAN]
    <2>1. CASE UNCHANGED disturbed
      BY <2>1 DEF ManifestTypeOK
    <2>2. CASE Disturb(c)
      <3>1. \A d \in Calls : (disturbed[d] \/ (d # c /\ pc[d] # "new")) \in BOOLEAN
        BY DEF ManifestTypeOK
      <3>2. QED
        BY <2>2, <3>1, Zenon DEF Disturb
    <2>3. QED
      BY <2>1, <2>2
  <1>5. QED
    BY <1>1, <1>2, <1>3, <1>4 DEF ManifestTypeOK

\* A step that disturbs the others leaves no promise but its own to keep.
LEMMA DisturbingKeeps ==
  ASSUME ManifestInv, NEW c \in Calls, NEW phase \in Phases \ {"new"}, Go(c, phase), Disturb(c),
         central # NoFile => central' # NoFile,
         c \in Syncs => phase = "failed" \/ disturbed[c],
         c \in WriteBacks /\ phase \in Written => central' # NoFile,
         c \in WriteBacks /\ phase = "done" => sibling' = central'
  PROVE  Checked' /\ Copied' /\ CopiedBack'
  <1>1. \A d \in Calls : d # c => pc'[d] = pc[d] /\ (disturbed'[d] \/ pc[d] = "new")
    BY DEF ManifestInv, ManifestTypeOK, Go, Disturb
  <1>2. pc'[c] = phase /\ (disturbed[c] => disturbed'[c])
    BY DEF ManifestInv, ManifestTypeOK, Go, Disturb
  <1>3. \A s \in Syncs : pc'[s] \in Passed => disturbed'[s]
    BY <1>1, <1>2 DEF Passed, Calls
  <1>4. Checked' /\ Copied'
    BY <1>3 DEF Checked, Copied, Passed
  <1>5. ASSUME NEW w \in WriteBacks
        PROVE  /\ pc'[w] \in Written => central' # NoFile
               /\ pc'[w] = "done" /\ ~disturbed'[w] => sibling' = central'
    <2>1. CASE w = c
      BY <2>1, <1>2
    <2>2. CASE w # c
      BY <2>2, <1>1 DEF ManifestInv, CopiedBack, Calls
    <2>3. QED
      BY <2>1, <2>2
  <1>6. QED
    BY <1>4, <1>5 DEF CopiedBack

LEMMA FailsKeeps ==
  ASSUME ManifestInv, NEW c \in Calls, NEW phase \in Phases, Fails(c, phase)
  PROVE  ManifestInv'
  <1>1. /\ Go(c, "failed") /\ Disturb(c) /\ Hold(c, Empty)
        /\ UNCHANGED <<central, sibling, crashes, found>>
        /\ "failed" \in Phases \ {"new"}
    BY DEF Fails, Forget, Phases, Finished
  <1>2. ManifestTypeOK'
    BY <1>1, EmptyIsFile, MoveTypes DEF ManifestInv, ManifestTypeOK
  <1>3. Checked' /\ Copied' /\ CopiedBack'
    BY <1>1, DisturbingKeeps DEF Written
  <1>4. QED
    BY <1>2, <1>3 DEF ManifestInv

-----------------------------------------------------------------------------
(* sync_manifest_to_project.                                                *)

LEMMA SyncIsAlone ==
  ASSUME NEW s \in Syncs PROVE s \in Calls /\ s \notin WriteBacks
  BY ManifestAssumption DEF Calls

LEMMA SyncCheckKeeps ==
  ASSUME ManifestInv, NEW s \in Syncs, SyncCheck(s) PROVE ManifestInv'
  <1>1. /\ pc[s] = "new" /\ UNCHANGED <<central, sibling, held, crashes, disturbed>>
    BY DEF SyncCheck, At
  <1>2. PICK phase \in {"failed", "refused", "read"} :
          /\ Go(s, phase)
          /\ phase # "read" => UNCHANGED found
          /\ phase = "read" => central # NoFile /\ ~Drift(central, Text(sibling))
                               /\ found' = [found EXCEPT ![s] = Text(sibling)]
    BY DEF SyncCheck
  <1>3. Text(sibling) \in Files /\ phase \in Phases /\ s \in Calls /\ s \notin WriteBacks
    BY TextIsFile, SyncIsAlone DEF ManifestInv, ManifestTypeOK, Phases, Finished
  <1>4. ManifestTypeOK'
    <2>1. central' \in Files \cup {NoFile} /\ sibling' \in Files \cup {NoFile}
      BY <1>1 DEF ManifestInv, ManifestTypeOK
    <2>2. UNCHANGED found \/ \E text \in Files : found' = [found EXCEPT ![s] = text]
      BY <1>2, <1>3
    <2>3. QED
      BY <1>1, <1>2, <1>3, <2>1, <2>2, MoveTypes DEF ManifestInv
  <1>5. /\ pc'[s] = phase
        /\ \A d \in Calls : d # s => pc'[d] = pc[d]
        /\ \A d \in Syncs : d # s => found'[d] = found[d]
    BY <1>2, <1>3 DEF ManifestInv, ManifestTypeOK, Go
  <1>6. phase = "read" => Keeps(found'[s], central)
    <2>1. ASSUME phase = "read" PROVE central \in Files /\ found'[s] = Text(sibling)
      BY <1>2, <2>1 DEF ManifestInv, ManifestTypeOK
    <2>2. QED
      BY <1>2, <1>3, <2>1, NoDriftKeeps
  <1>7. Checked'
    <2> SUFFICES ASSUME NEW d \in Syncs, pc'[d] \in Passed, ~disturbed'[d]
                 PROVE  /\ central' # NoFile /\ Keeps(found[d], central)'
                        /\ pc'[d] \in {"open", "write"} => held'[d] = central'
      BY DEF Checked
    <2>1. CASE d = s
      BY <2>1, <1>1, <1>2, <1>5, <1>6 DEF Passed, Keeps
    <2>2. CASE d # s
      BY <2>2, <1>1, <1>5 DEF ManifestInv, Checked, Keeps, Calls
    <2>3. QED
      BY <2>1, <2>2
  <1>8. Copied'
    <2>1. \A t \in Syncs : pc[t] = "write" => pc'[t] = "write"
      BY <1>1, <1>5 DEF Calls
    <2>2. \A t \in Syncs : pc'[t] = "done" => pc[t] = "done"
      BY <1>5 DEF Calls
    <2>3. QED
      BY <1>1, <2>1, <2>2 DEF ManifestInv, Copied
  <1>9. CopiedBack'
    <2>1. \A w \in WriteBacks : pc'[w] = pc[w]
      BY <1>3, <1>5 DEF Calls
    <2>2. \A t \in Syncs : pc[t] \notin {"new", "refused"} => pc'[t] \notin {"new", "refused"}
      BY <1>1, <1>5 DEF Calls
    <2>3. QED
      BY <1>1, <2>1, <2>2 DEF ManifestInv, CopiedBack
  <1>10. QED
    BY <1>4, <1>7, <1>8, <1>9 DEF ManifestInv

LEMMA SyncReadKeeps ==
  ASSUME ManifestInv, NEW s \in Syncs, SyncRead(s) PROVE ManifestInv'
  <1>1. /\ pc[s] = "read" /\ Go(s, "open") /\ Hold(s, Text(central))
        /\ UNCHANGED <<central, sibling, crashes, found, disturbed>>
    BY DEF SyncRead, At
  <1>2. /\ Text(central) \in Files /\ (central # NoFile => Text(central) = central)
        /\ "open" \in Phases /\ s \in Calls /\ s \notin WriteBacks
    BY TextIsFile, SyncIsAlone DEF ManifestInv, ManifestTypeOK, Phases
  <1>3. ManifestTypeOK'
    BY <1>1, <1>2, MoveTypes DEF ManifestInv, ManifestTypeOK
  <1>4. /\ pc'[s] = "open" /\ held'[s] = Text(central)
        /\ \A d \in Calls : d # s => pc'[d] = pc[d] /\ held'[d] = held[d]
    BY <1>1, <1>2 DEF ManifestInv, ManifestTypeOK, Go, Hold
  <1>5. Checked'
    <2> SUFFICES ASSUME NEW d \in Syncs, pc'[d] \in Passed, ~disturbed'[d]
                 PROVE  /\ central' # NoFile /\ Keeps(found[d], central)'
                        /\ pc'[d] \in {"open", "write"} => held'[d] = central'
      BY DEF Checked
    <2>1. pc[d] \in Passed /\ ~disturbed[d]
      BY <1>1, <1>4 DEF Passed, Calls
    <2>2. central # NoFile /\ Keeps(found[d], central)
      BY <2>1 DEF ManifestInv, Checked
    <2>3. pc'[d] \in {"open", "write"} => held'[d] = central
      BY <1>2, <1>4, <2>1, <2>2 DEF ManifestInv, Checked, Calls
    <2>4. QED
      BY <1>1, <2>2, <2>3 DEF Keeps
  <1>6. Copied' /\ CopiedBack'
    <2>1. \A t \in Syncs : /\ pc[t] = "write" => pc'[t] = "write"
                           /\ pc'[t] = "done" => pc[t] = "done"
                           /\ pc[t] \notin {"new", "refused"} => pc'[t] \notin {"new", "refused"}
      BY <1>1, <1>4 DEF Calls
    <2>2. \A w \in WriteBacks : pc'[w] = pc[w]
      BY <1>2, <1>4 DEF Calls
    <2>3. QED
      BY <1>1, <2>1, <2>2 DEF ManifestInv, Copied, CopiedBack
  <1>7. QED
    BY <1>3, <1>5, <1>6 DEF ManifestInv

\* The two steps of the write: undisturbed, the sync holds the central manifest
\* that all undisturbed syncs hold.
LEMMA SyncWritesKeep ==
  ASSUME ManifestInv, NEW s \in Syncs, SyncOpen(s) \/ SyncWrite(s) PROVE ManifestInv'
  <1>1. PICK phase \in {"write", "done"} :
          /\ Go(s, phase) /\ PassOn(s) /\ UNCHANGED <<central, crashes, found>>
          /\ phase = "write" => pc[s] = "open" /\ sibling' = Empty /\ UNCHANGED held
          /\ phase = "done" => pc[s] = "write" /\ sibling' = held[s] /\ Hold(s, Empty)
    BY DEF SyncOpen, SyncWrite, At, Forget
  <1>2. /\ phase \in Phases \ {"new"} /\ s \in Calls /\ s \notin WriteBacks
        /\ held[s] \in Files /\ Empty \in Files
    BY EmptyIsFile, SyncIsAlone DEF ManifestInv, ManifestTypeOK, Phases, Finished
  <1>3. ManifestTypeOK'
    <2>1. central' \in Files \cup {NoFile} /\ sibling' \in Files \cup {NoFile}
      BY <1>1, <1>2 DEF ManifestInv, ManifestTypeOK
    <2>2. UNCHANGED held \/ \E text \in Files : Hold(s, text)
      BY <1>1, <1>2
    <2>3. UNCHANGED disturbed \/ Disturb(s)
      BY <1>1 DEF PassOn
    <2>4. QED
      BY <1>1, <1>2, <2>1, <2>2, <2>3, MoveTypes DEF ManifestInv
  <1>4. CASE disturbed[s]
    <2>1. Disturb(s)
      BY <1>1, <1>4 DEF PassOn
    <2>2. Checked' /\ Copied' /\ CopiedBack'
      BY <1>1, <1>2, <1>4, <2>1, DisturbingKeeps
    <2>3. QED
      BY <1>3, <2>2 DEF ManifestInv
  <1>5. CASE ~disturbed[s]
    <2>1. UNCHANGED disturbed
      BY <1>1, <1>5 DEF PassOn
    <2>2. held[s] = central
      BY <1>1, <1>5 DEF ManifestInv, Checked, Passed
    <2>3. /\ pc'[s] = phase /\ \A d \in Calls : d # s => pc'[d] = pc[d] /\ held'[d] = held[d]
          /\ phase = "write" => held' = held
      BY <1>1, <1>2 DEF ManifestInv, ManifestTypeOK, Go, Hold
    <2>4. Checked'
      <3> SUFFICES ASSUME NEW d \in Syncs, pc'[d] \in Passed, ~disturbed'[d]
                   PROVE  /\ central' # NoFile /\ Keeps(found[d], central)'
                          /\ pc'[d] \in {"open", "write"} => held'[d] = central'
        BY DEF Checked
      <3>1. pc[d] \in Passed /\ ~disturbed[d]
        BY <1>1, <2>1, <2>3 DEF Passed, Calls
      <3>2. central # NoFile /\ Keeps(found[d], central)
        BY <3>1 DEF ManifestInv, Checked
      <3>3. pc'[d] \in {"open", "write"} => held'[d] = central
        BY <1>1, <2>2, <2>3, <3>1 DEF ManifestInv, Checked, Calls
      <3>4. QED
        BY <1>1, <3>2, <3>3 DEF Keeps
    <2>5. sibling' = central' \/ (pc'[s] = "write" /\ ~disturbed'[s])
      BY <1>1, <1>5, <2>1, <2>2, <2>3
    <2>6. Copied'
      BY <2>5 DEF Copied
    <2>7. CopiedBack'
      <3>1. \A w \in WriteBacks : pc'[w] = pc[w]
        BY <1>2, <2>3 DEF Calls
      <3>2. pc'[s] \notin {"new", "refused"}
        BY <2>3
      <3>3. QED
        BY <1>1, <3>1, <3>2 DEF ManifestInv, CopiedBack
    <2>8. QED
      BY <1>3, <2>4, <2>6, <2>7 DEF ManifestInv
  <1>6. QED
    BY <1>4, <1>5

LEMMA SyncKeeps ==
  ASSUME ManifestInv, NEW s \in Syncs, Sync(s) PROVE ManifestInv'
  <1>1. s \in Calls /\ {"read", "open", "write"} \subseteq Phases
    BY DEF Calls, Phases
  <1>2. QED
    BY <1>1, SyncCheckKeeps, SyncReadKeeps, SyncWritesKeep, FailsKeeps DEF Sync

-----------------------------------------------------------------------------
(* _sync_project, save_manifest_content and a crash.                        *)

LEMMA WriteBackReadKeeps ==
  ASSUME ManifestInv, NEW w \in WriteBacks, WriteBackRead(w) PROVE ManifestInv'
  <1>1. pc[w] = "new" /\ UNCHANGED <<central, sibling, crashes, disturbed>>
    BY DEF WriteBackRead, At
  <1>2. w \in Calls /\ w \notin Syncs
    BY ManifestAssumption DEF Calls
  <1>3. PICK phase \in {"refused", "open"} :
          /\ Go(w, phase)
          /\ UNCHANGED held \/ \E text \in Files : Hold(w, text)
          /\ UNCHANGED found \/ \E text \in Files : found' = [found EXCEPT ![w] = text]
    <2>1. Text(central) \in Files /\ Text(sibling) \in Files
      BY TextIsFile DEF ManifestInv, ManifestTypeOK
    <2>2. \A installed \in Installs : Synced(Text(central), installed) \in Files
      BY <2>1, SyncedIsFile
    <2>3. QED
      BY <2>1, <2>2 DEF WriteBackRead
  <1>4. ManifestTypeOK'
    <2>1. /\ central' \in Files \cup {NoFile} /\ sibling' \in Files \cup {NoFile}
          /\ phase \in Phases
      BY <1>1 DEF ManifestInv, ManifestTypeOK, Phases, Finished
    <2>2. QED
      BY <1>1, <1>2, <1>3, <2>1, MoveTypes DEF ManifestInv
  <1>5. /\ pc'[w] = phase /\ phase \notin Written
        /\ \A d \in Calls : d # w => pc'[d] = pc[d] /\ held'[d] = held[d]
        /\ \A d \in Syncs : found'[d] = found[d]
    BY <1>2, <1>3 DEF ManifestInv, ManifestTypeOK, Go, Hold, Written
  <1>6. \A s \in Syncs : pc'[s] = pc[s] /\ held'[s] = held[s] /\ found'[s] = found[s]
    BY <1>2, <1>5 DEF Calls
  <1>7. Checked' /\ Copied'
    BY <1>1, <1>6 DEF ManifestInv, Checked, Copied, Keeps
  <1>8. CopiedBack'
    <2> SUFFICES ASSUME NEW b \in WriteBacks
                 PROVE  /\ pc'[b] \in Written => central' # NoFile
                        /\ pc'[b] = "done" /\ ~disturbed'[b] =>
                             sibling' = central' \/ \E s \in Syncs : pc'[s] \notin {"new", "refused"}
      BY DEF CopiedBack
    <2>1. CASE b = w
      BY <2>1, <1>5
    <2>2. CASE b # w
      BY <2>2, <1>1, <1>5, <1>6 DEF ManifestInv, CopiedBack, Calls
    <2>3. QED
      BY <2>1, <2>2
  <1>9. QED
    BY <1>4, <1>7, <1>8 DEF ManifestInv

\* Each step of the write and of the copy disturbs the others.
LEMMA WriteBackWritesKeep ==
  ASSUME ManifestInv, NEW w \in WriteBacks,
         \/ WriteBackOpen(w) \/ WriteBackWrite(w)
         \/ WriteBackCopyOpen(w) \/ WriteBackCopyWrite(w)
  PROVE  ManifestInv'
  <1>1. PICK phase \in Written \cup {"done"} :
          /\ Go(w, phase) /\ Disturb(w) /\ UNCHANGED <<crashes, found>>
          /\ UNCHANGED held \/ Hold(w, Empty)
          /\ phase = "write" => central' = Empty /\ sibling' = sibling
          /\ phase = "copyOpen" => central' = held[w] /\ sibling' = sibling
          /\ phase \in {"copyWrite", "done"} => pc[w] \in Written /\ central' = central
          /\ phase = "copyWrite" => sibling' = Empty
          /\ phase = "done" => sibling' = Text(central)
    BY DEF WriteBackOpen, WriteBackWrite, WriteBackCopyOpen, WriteBackCopyWrite, At, Written, Forget
  <1>2. w \in Calls /\ w \notin Syncs /\ held[w] \in Files /\ Empty \in Files
        /\ phase \in Phases \ {"new"}
    BY EmptyIsFile, ManifestAssumption DEF ManifestInv, ManifestTypeOK, Calls, Written, Phases, Finished
  <1>3. /\ central' \in Files \cup {NoFile} /\ central' # NoFile
        /\ phase = "done" => sibling' = central'
        /\ sibling' \in Files \cup {NoFile}
    <2>1. pc[w] \in Written => central # NoFile
      BY DEF ManifestInv, CopiedBack
    <2>2. Text(central) \in Files /\ (central # NoFile => Text(central) = central)
      BY TextIsFile DEF ManifestInv, ManifestTypeOK
    <2>3. NoFile \notin Files
      BY ManifestAssumption DEF Files
    <2>4. QED
      BY <1>1, <1>2, <2>1, <2>2, <2>3 DEF ManifestInv, ManifestTypeOK, Written
  <1>4. ManifestTypeOK'
    <2>1. UNCHANGED held \/ \E text \in Files : Hold(w, text)
      BY <1>1, <1>2
    <2>2. QED
      BY <1>1, <1>2, <1>3, <2>1, MoveTypes DEF ManifestInv
  <1>5. Checked' /\ Copied' /\ CopiedBack'
    BY <1>1, <1>2, <1>3, DisturbingKeeps
  <1>6. QED
    BY <1>4, <1>5 DEF ManifestInv

LEMMA WriteBackKeeps ==
  ASSUME ManifestInv, NEW w \in WriteBacks, WriteBack(w) PROVE ManifestInv'
  <1>1. w \in Calls /\ {"open", "write", "copyOpen", "copyWrite"} \subseteq Phases
    BY DEF Calls, Phases
  <1>2. QED
    BY <1>1, WriteBackReadKeeps, WriteBackWritesKeep, FailsKeeps DEF WriteBack

LEMMA SaveKeeps ==
  ASSUME ManifestInv, NEW e \in Saves, Save(e) PROVE ManifestInv'
  <1>1. e \in Calls /\ e \notin Syncs /\ e \notin WriteBacks
    BY ManifestAssumption DEF Calls
  <1>2. CASE Fails(e, "write")
    BY <1>1, <1>2, FailsKeeps DEF Phases
  <1>3. CASE SaveOpen(e) \/ SaveWrite(e)
    <2>1. PICK phase \in {"write", "done"} :
            /\ Go(e, phase) /\ Disturb(e) /\ UNCHANGED <<central, crashes, found>>
            /\ \E text \in Files : Hold(e, text)
            /\ sibling' \in Files
      BY <1>1, <1>3, EmptyIsFile, ManifestAssumption
      DEF SaveOpen, SaveWrite, Forget, ManifestInv, ManifestTypeOK, Files
    <2>2. phase \in Phases \ {"new"}
      BY DEF Phases, Finished
    <2>3. ManifestTypeOK'
      BY <1>1, <2>1, <2>2, MoveTypes DEF ManifestInv, ManifestTypeOK
    <2>4. Checked' /\ Copied' /\ CopiedBack'
      BY <1>1, <2>1, <2>2, DisturbingKeeps
    <2>5. QED
      BY <2>3, <2>4 DEF ManifestInv
  <1>4. QED
    BY <1>2, <1>3 DEF Save

\* After a crash every call that had started counts as disturbed.
LEMMA CrashKeeps ==
  ASSUME ManifestInv, Crash PROVE ManifestInv'
  <1>1. UNCHANGED <<central, sibling, found>>
    BY DEF Crash
  <1>2. \A c \in Calls : /\ pc'[c] \in Finished \cup {"new"}
                         /\ pc'[c] # "new" => disturbed'[c]
    BY DEF Crash, Finished
  <1>3. ManifestTypeOK'
    <2>1. pc' \in [Calls -> Phases]
      BY DEF Crash, ManifestInv, ManifestTypeOK, Phases, Finished
    <2>2. \A c \in Calls : (disturbed[c] \/ pc[c] # "new") \in BOOLEAN
      BY DEF ManifestInv, ManifestTypeOK
    <2>3. disturbed' \in [Calls -> BOOLEAN]
      BY <2>2, Zenon DEF Crash
    <2>4. crashes' \in 0..MaxCrashes /\ held' \in [Calls -> Files]
      BY EmptyIsFile, ManifestAssumption DEF Crash, ManifestInv, ManifestTypeOK
    <2>5. QED
      BY <1>1, <2>1, <2>3, <2>4 DEF ManifestInv, ManifestTypeOK
  <1>4. Checked' /\ Copied' /\ CopiedBack'
    BY <1>2 DEF Checked, Copied, CopiedBack, Passed, Written, Finished, Calls
  <1>5. QED
    BY <1>3, <1>4 DEF ManifestInv

LEMMA NextKeeps == ManifestInv /\ [Next]_vars => ManifestInv'
  <1> SUFFICES ASSUME ManifestInv, [Next]_vars PROVE ManifestInv'
    OBVIOUS
  <1>1. CASE UNCHANGED vars
    BY <1>1 DEF vars, ManifestInv, ManifestTypeOK, Checked, Copied, CopiedBack, Keeps
  <1>2. QED
    BY <1>1, SyncKeeps, WriteBackKeeps, SaveKeeps, CrashKeeps DEF Next

LEMMA ManifestInvariant == Spec => []ManifestInv
  BY InitInv, NextKeeps, PTL DEF Spec

-----------------------------------------------------------------------------
\* Both files hold a text or are missing, and what a call is about to write is
\* a text: a missing manifest is never carried around as one.
THEOREM ManifestTypes == Spec => []ManifestTypeOK
  <1>1. ManifestInv => ManifestTypeOK
    BY DEF ManifestInv
  <1>2. QED
    BY <1>1, ManifestInvariant, PTL

\* sync_manifest_to_project, check and write without a lock: once all calls are
\* through, an undisturbed sync that succeeded has cost the project no package
\* and no floor, however many syncs wrote its file at the same time.
THEOREM FloorsAreKept == Spec => []SyncKeepsFloors
  <1>1. ManifestInv => SyncKeepsFloors
    <2> SUFFICES ASSUME ManifestInv, Quiet, NEW s \in Syncs, pc[s] = "done", ~disturbed[s]
                 PROVE  Keeps(found[s], Text(sibling))
      BY DEF SyncKeepsFloors
    <2>1. \A t \in Syncs : pc[t] # "write"
      BY DEF Quiet, Finished, Calls
    <2>2. sibling = central /\ central # NoFile /\ Keeps(found[s], central)
      BY <2>1 DEF ManifestInv, Checked, Copied, Passed
    <2>3. QED
      BY <2>2 DEF Text
  <1>2. QED
    BY <1>1, ManifestInvariant, PTL

\* sync_manifest_to_project and _sync_project: once all calls are through, an
\* undisturbed call that reported success has left a copy of the central
\* manifest, the write-back too if no sync went past its check.
THEOREM CopyIsACopy == Spec => []DoneMeansCopied
  <1>1. ManifestInv => DoneMeansCopied
    <2> SUFFICES ASSUME ManifestInv, Quiet, NEW c \in Syncs \cup WriteBacks, pc[c] = "done", ~disturbed[c],
                        c \in WriteBacks => \A s \in Syncs : pc[s] \in {"new", "refused"}
                 PROVE  sibling = central
      BY DEF DoneMeansCopied
    <2>1. \A t \in Syncs : pc[t] # "write"
      BY DEF Quiet, Finished, Calls
    <2>2. QED
      BY <2>1 DEF ManifestInv, Copied, CopiedBack
  <1>2. QED
    BY <1>1, ManifestInvariant, PTL
=============================================================================
