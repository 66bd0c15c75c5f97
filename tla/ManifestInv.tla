---------------------------- MODULE ManifestInv ----------------------------
(***************************************************************************)
(* The inductive invariant of ManifestSync: what holds between a process   *)
(* and the file when every edit is marked and no two Saves overlap.        *)
(***************************************************************************)
EXTENDS ManifestSync

\* SetEntryMode marks nothing, RenameFolder marks entries that it does not
\* touch and unmarks the new folder, and DeleteFolder unmarks the folders of
\* a Save that failed.
EditsMarked ==
  \A p \in Proc :
    /\ "chmod" \notin Ops[p] /\ "mvdir" \notin Ops[p]
    /\ ~("rmdir" \in Ops[p] /\ "fail" \in Ops[p])

Serial == EditsMarked /\ Races = {}

----------------------------------------------------------------------------
\* One busy thread in a process, one process in Save.
OneAtATime ==
  /\ \A p \in Proc : \A s, t \in Thread :
       pc[p][s] # "idle" /\ pc[p][t] # "idle" => s = t
  /\ \A p, q \in Proc : InSave(p) /\ InSave(q) => p = q

\* The entry under import: unmarked before it is appended, marked after.
ImportOf(p) ==
  /\ pc[p]["import"] # "idle" /\ ~job[p].in =>
       job[p].uid \notin marks[p].deleted
  /\ pc[p]["import"] = "append" => ~job[p].in
  /\ pc[p]["import"] = "place" =>
       job[p].own /\ asked[p][job[p].uid] \notin {Quiet, Absent}

Importing == \A p \in Proc : ImportOf(p)

\* Edits and marks go together.
OwedEntry(p, u) ==
  /\ asked[p][u] = Quiet => u \notin marks[p].dirty \cup marks[p].deleted
  /\ asked[p][u] = Absent => ~Has(p, u) /\ u \in marks[p].deleted
  /\ asked[p][u] \notin {Quiet, Absent} =>
       /\ mem[p].entries[u] = asked[p][u]
       /\ u \in marks[p].dirty \ marks[p].deleted

OwedFolder(p, d) ==
  /\ asked[p][d] = Quiet =>
       d \notin marks[p].dirtyFolders \cup marks[p].deletedFolders
  /\ asked[p][d] = Absent =>
       d \notin mem[p].folders /\ d \in marks[p].deletedFolders
  /\ asked[p][d] = Here => d \in mem[p].folders \cap marks[p].dirtyFolders

Stamping(p) == \E t \in Thread : pc[p][t] = "stamp"

Owed ==
  \A p \in Proc :
    IF Stamping(p) THEN asked[p] = Nothing
    ELSE /\ \A u \in Uid : OwedEntry(p, u)
         /\ \A d \in Dir : OwedFolder(p, d)

\* Where nothing was asked for, memory is what the file says.
SameAsFile(p) ==
  /\ \A u \in Uid :
       asked[p][u] = Quiet => mem[p].entries[u] = manifest.entries[u]
  /\ \A d \in Dir :
       asked[p][d] = Quiet => (d \in mem[p].folders <=> d \in manifest.folders)

UpToDate == \A p \in Proc : inSync[p] \/ InSave(p) => SameAsFile(p)

\* Where no Save fails, nothing is owed between two calls.
SavedOf(p) == "fail" \notin Ops[p] /\ pc[p] = Idle => asked[p] = Nothing

AllSaved == \A p \in Proc : SavedOf(p)

\* A process and the file: what it was asked for is marked and in memory, the
\* rest of its memory is the file's whenever it is about to write (Save,
\* mergeExternal, clearSyncState).
Linked == OneAtATime /\ Importing /\ Owed /\ UpToDate /\ AllSaved

----------------------------------------------------------------------------
(* One process that is not killed, whatever its two threads do at once.    *)

Alone == \E p \in Proc : Proc = {p} /\ "crash" \notin Ops[p]

\* The file is the one of the last Save, so that no Save merges.
Settled == \A p \in Proc : inSync[p] \/ Stamping(p)

\* What the entries in memory hold is in the depot, and an entry that was
\* asked to go is not in memory.
InStore ==
  \A p \in Proc, u \in Uid :
    Has(p, u) => mem[p].entries[u].id \in stored /\ asked[p][u] # Absent

\* An entry of the file that nobody asked to go is in memory, with the same
\* content.
Followed ==
  \A p \in Proc, u \in Uid :
    manifest.entries[u] # Absent /\ asked[p][u] # Absent =>
      Has(p, u) /\ mem[p].entries[u].id = manifest.entries[u].id

\* The name of an entry that is imported is new until the entry is appended.
NewName ==
  \A p \in Proc :
    /\ pc[p]["import"] = "append" => ~job[p].in
    /\ pc[p]["import"] # "idle" /\ ~job[p].in =>
         ~Has(p, job[p].uid) /\ manifest.entries[job[p].uid] = Absent

\* The depot has what the file and the memory name (addFile, releaseBlocks).
Stocked == Settled /\ InStore /\ Followed /\ NewName
=============================================================================
