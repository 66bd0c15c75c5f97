---------------------------- MODULE ManifestSync ----------------------------
(***************************************************************************)
(* The manifest of a vault (internal/vault: vault.go, folders.go, ops.go)  *)
(* under several processes.  Each process loads the manifest once, edits   *)
(* its copy, and saves: it looks whether the file changed, merges what the *)
(* others wrote, renames a new file into place, and forgets its marks.  A  *)
(* process has two threads, one that answers the user's calls and one that *)
(* imports files for the mount; s.mu and saveMu are all that orders them.  *)
(*                                                                         *)
(* asked is a history variable: what the users of a process asked for      *)
(* since its last save.                                                    *)
(***************************************************************************)

CONSTANTS
  Proc,     \* processes with the vault open
  Uid,      \* stable names of entries
  Dir,      \* virtual folders, the root excepted
  Root,     \* the root folder
  Name,     \* base names
  Mode,     \* permissions
  NewMode,  \* those of a new entry
  Content,  \* contents, named by their hash
  Absent,   \* no entry, no folder
  Quiet,    \* nothing was asked
  Here,     \* the value of a folder that exists
  Ops,      \* [Proc -> operations and faults of its users]
  Races     \* "saves": two processes may be inside Save at once;
            \* "threads": both threads of a process may be busy at once

ASSUME NameAssumption ==
  /\ Root \notin Dir /\ NewMode \in Mode
  /\ Uid \cap Dir = {}

Place == Dir \cup {Root}
Path  == Place \X Name
Entry == [path : Path, mode : Mode, id : Content]

ASSUME ValueAssumption ==
  /\ Absent \notin Entry /\ Quiet \notin Entry /\ Here \notin Entry
  /\ Absent # Quiet /\ Absent # Here /\ Quiet # Here

AllOps == {"add", "import", "rename", "move", "chmod", "remove",
           "mkdir", "rmdir", "mvdir", "fail", "crash"}

ASSUME OpsAssumption ==
  /\ Ops \in [Proc -> SUBSET AllOps]
  /\ Races \subseteq {"saves", "threads"}

VARIABLES
  manifest,  \* the file: entries and folders
  mem,       \* [Proc -> the same]: Man of each process
  inSync,    \* [Proc -> BOOLEAN]: lastSync and lastSize match the file
  marks,     \* [Proc -> dirty, deleted, dirtyFolders, deletedFolders]
  pc,        \* [Proc -> [Thread -> step]]
  mu,        \* [Proc -> the thread that holds s.mu, or "free"]
  job,       \* [Proc -> the ImportFile under way]
  stored,    \* contents in the depot
  asked      \* (history) [Proc -> [Item -> value, Absent or Quiet]]

vars == <<manifest, mem, inSync, marks, pc, mu, job, stored, asked>>

Thread == {"call", "import"}
Step   == {"idle", "append", "place", "save", "write", "stamp"}
Item   == Uid \cup Dir

Man   == [entries : [Uid -> Entry \cup {Absent}], folders : SUBSET Dir]
Empty == [entries |-> [u \in Uid |-> Absent], folders |-> {}]

Marks   == [dirty : SUBSET Uid, deleted : SUBSET Uid,
            dirtyFolders : SUBSET Dir, deletedFolders : SUBSET Dir]
NoMarks == [dirty |-> {}, deleted |-> {},
            dirtyFolders |-> {}, deletedFolders |-> {}]

\* in: the new entry was appended; own: the thread still points to the Entry
\* object that the manifest holds
Job   == [uid : Uid, path : Path, id : Content, in : BOOLEAN, own : BOOLEAN]
NoJob == [uid |-> Absent, path |-> <<Root, Absent>>, id |-> Absent,
          in |-> FALSE, own |-> FALSE]

Nothing == [i \in Item |-> Quiet]
Idle    == [t \in Thread |-> "idle"]

Init ==
  /\ manifest = Empty /\ mem = [p \in Proc |-> Empty]
  /\ inSync = [p \in Proc |-> TRUE] /\ marks = [p \in Proc |-> NoMarks]
  /\ pc = [p \in Proc |-> Idle] /\ mu = [p \in Proc |-> "free"]
  /\ job = [p \in Proc |-> NoJob]
  /\ stored = {} /\ asked = [p \in Proc |-> Nothing]

----------------------------------------------------------------------------
(* Entries and folders of a process.                                       *)

Has(p, u)        == mem[p].entries[u] # Absent
Present(p)       == {u \in Uid : Has(p, u)}
Occupied(p, at)  == \E u \in Present(p) : mem[p].entries[u].path = at
HasFolder(p, d)  == d \in mem[p].folders \cup {Root}
Inside(p, d)     == {u \in Present(p) : mem[p].entries[u].path[1] = d}

\* A uid that no process has ever seen, as far as anybody can still tell.
Fresh(u) ==
  /\ manifest.entries[u] = Absent
  /\ \A p \in Proc :
       /\ ~Has(p, u) /\ asked[p][u] = Quiet /\ job[p].uid # u
       /\ u \notin marks[p].dirty \cup marks[p].deleted

\* Two threads of a process are busy at once only in a race of threads.
CanStart(p, t) ==
  /\ pc[p][t] = "idle" /\ mu[p] = "free"
  /\ "threads" \in Races \/ \A s \in Thread : pc[p][s] = "idle"

\* The entries in the domain of es get its values, the folders become fs.
Edit(p, es, fs, mark) ==
  /\ mem' = [mem EXCEPT ![p] =
       [entries |-> [u \in Uid |-> IF u \in DOMAIN es THEN es[u]
                                                     ELSE mem[p].entries[u]],
        folders |-> fs]]
  /\ marks' = [marks EXCEPT ![p] = mark]

EditEntries(p, es, mark) == Edit(p, es, mem[p].folders, mark)

AskFor(p, wish) ==
  asked' = [asked EXCEPT ![p] =
              [i \in Item |-> IF i \in DOMAIN wish THEN wish[i] ELSE asked[p][i]]]

\* The call goes on to Save, with s.mu held.
SaveUnderMu(p, t) ==
  /\ pc' = [pc EXCEPT ![p][t] = "save"]
  /\ mu' = [mu EXCEPT ![p] = t]

MarkDirty(p, us) == [marks[p] EXCEPT !.dirty = @ \cup us]

----------------------------------------------------------------------------
(* Edits of entries.                                                       *)

New(u, at, c) == [x \in {u} |-> [path |-> at, mode |-> NewMode, id |-> c]]

\* addFile stores nothing when an entry in memory has the content.
Put(p, c) ==
  IF \E v \in Present(p) : mem[p].entries[v].id = c THEN stored
                                                     ELSE stored \cup {c}

\* Add of one file: the entry goes to the root, whatever is there; s.mu is
\* free again before the Save.
Add(p, u, n, c) ==
  /\ "add" \in Ops[p] /\ CanStart(p, "call") /\ Fresh(u)
  /\ EditEntries(p, New(u, <<Root, n>>, c), MarkDirty(p, {u}))
  /\ AskFor(p, New(u, <<Root, n>>, c))
  /\ stored' = Put(p, c)
  /\ pc' = [pc EXCEPT ![p]["call"] = "save"]
  /\ UNCHANGED <<manifest, inSync, mu, job>>

Moved(p, us, d) ==
  [u \in us |-> [mem[p].entries[u] EXCEPT !.path = <<d, @[2]>>]]

RenameEntry(p, u, to) ==
  /\ "rename" \in Ops[p] /\ CanStart(p, "call") /\ Has(p, u)
  /\ ~Occupied(p, to)
  /\ LET es == [x \in {u} |-> [mem[p].entries[u] EXCEPT !.path = to]]
     IN  EditEntries(p, es, MarkDirty(p, {u})) /\ AskFor(p, es)
  /\ SaveUnderMu(p, "call")
  /\ UNCHANGED <<manifest, inSync, job, stored>>

\* No look at what the new path holds.
MoveEntry(p, u, d) ==
  /\ "move" \in Ops[p] /\ CanStart(p, "call") /\ Has(p, u) /\ HasFolder(p, d)
  /\ EditEntries(p, Moved(p, {u}, d), MarkDirty(p, {u}))
  /\ AskFor(p, Moved(p, {u}, d))
  /\ SaveUnderMu(p, "call")
  /\ UNCHANGED <<manifest, inSync, job, stored>>

\* SetEntryMode does not mark the entry.
SetEntryMode(p, u, m) ==
  /\ "chmod" \in Ops[p] /\ CanStart(p, "call") /\ Has(p, u)
  /\ LET es == [x \in {u} |-> [mem[p].entries[u] EXCEPT !.mode = m]]
     IN  EditEntries(p, es, marks[p]) /\ AskFor(p, es)
  /\ SaveUnderMu(p, "call")
  /\ UNCHANGED <<manifest, inSync, job, stored>>

\* (mutant of Unowned: what the other entries hold is not looked at)
AllOf(p, us) == {mem[p].entries[u].id : u \in us}

\* releaseBlocks: contents of us that no other entry in memory has.
Unowned(p, us) ==
  {mem[p].entries[u].id : u \in us}
    \ {mem[p].entries[v].id : v \in Present(p) \ us}

RemoveLocked(p, us) ==
  /\ EditEntries(p, [u \in us |-> Absent],
                    [marks[p] EXCEPT !.deleted = @ \cup us])
  /\ AskFor(p, [u \in us |-> Absent])
  /\ stored' = stored \ Unowned(p, us)

Remove(p, us) ==
  /\ "remove" \in Ops[p] /\ CanStart(p, "call")
  /\ us # {} /\ us \subseteq Present(p)
  /\ RemoveLocked(p, us)
  /\ SaveUnderMu(p, "call")
  /\ UNCHANGED <<manifest, inSync, job>>

----------------------------------------------------------------------------
(* Edits of folders.                                                       *)

CreateFolder(p, d) ==
  /\ "mkdir" \in Ops[p] /\ CanStart(p, "call") /\ ~HasFolder(p, d)
  /\ Edit(p, [u \in {} |-> Absent], mem[p].folders \cup {d},
          [marks[p] EXCEPT !.dirtyFolders = @ \cup {d}])
  /\ AskFor(p, [f \in {d} |-> Here])
  /\ SaveUnderMu(p, "call")
  /\ UNCHANGED <<manifest, inSync, job, stored>>

\* setFolders notes the folders that go, and drops the dirty mark of every
\* folder of the old list and of the new one.
SetFolders(p, us, fs) ==
  LET old == mem[p].folders IN
  [MarkDirty(p, us) EXCEPT
     !.dirtyFolders   = @ \ (old \cup fs),
     !.deletedFolders = @ \cup (old \ fs)]

DeleteFolder(p, d) ==
  LET es == Moved(p, Inside(p, d), Root)
      fs == mem[p].folders \ {d}
  IN
  /\ "rmdir" \in Ops[p] /\ CanStart(p, "call") /\ d \in mem[p].folders
  /\ Edit(p, es, fs, SetFolders(p, Inside(p, d), fs))
  /\ AskFor(p, [i \in Inside(p, d) \cup {d} |->
                  IF i = d THEN Absent ELSE es[i]])
  /\ SaveUnderMu(p, "call")
  /\ UNCHANGED <<manifest, inSync, job, stored>>

\* RenameFolder marks every entry of the manifest, moved or not.
RenameFolder(p, d, e) ==
  LET es == Moved(p, Inside(p, d), e)
      fs == (mem[p].folders \ {d}) \cup {e}
  IN
  /\ "mvdir" \in Ops[p] /\ CanStart(p, "call")
  /\ d \in mem[p].folders /\ ~HasFolder(p, e)
  /\ Edit(p, es, fs, SetFolders(p, Present(p), fs))
  /\ AskFor(p, [i \in Inside(p, d) \cup {d, e} |->
                  CASE i = d -> Absent [] i = e -> Here [] OTHER -> es[i]])
  /\ SaveUnderMu(p, "call")
  /\ UNCHANGED <<manifest, inSync, job, stored>>

----------------------------------------------------------------------------
(* ImportFile, on a thread of its own: the entry that holds the path is    *)
(* removed (and that is saved) first; addFile appends the new one to the   *)
(* root under s.mu; its path is set later, without s.mu and without a mark.*)

BeginImport(p, u, to, c) ==
  /\ "import" \in Ops[p] /\ CanStart(p, "import") /\ Fresh(u)
  /\ job' = [job EXCEPT ![p] =
               [uid |-> u, path |-> to, id |-> c, in |-> FALSE, own |-> FALSE]]

ImportFile(p, u, to, c) ==
  /\ BeginImport(p, u, to, c) /\ ~Occupied(p, to)
  /\ pc' = [pc EXCEPT ![p]["import"] = "append"]
  /\ UNCHANGED <<manifest, mem, inSync, marks, mu, stored, asked>>

ImportOver(p, u, to, c, old) ==
  /\ BeginImport(p, u, to, c)
  /\ Has(p, old) /\ mem[p].entries[old].path = to
  /\ RemoveLocked(p, {old})
  /\ SaveUnderMu(p, "import")
  /\ UNCHANGED <<manifest, inSync>>

ImportAppends(p) ==
  LET u == job[p].uid
      e == New(u, <<Root, job[p].path[2]>>, job[p].id)
  IN
  /\ pc[p]["import"] = "append" /\ mu[p] = "free"
  /\ EditEntries(p, e, MarkDirty(p, {u})) /\ AskFor(p, e)
  /\ stored' = Put(p, job[p].id)
  /\ job' = [job EXCEPT ![p].in = TRUE, ![p].own = TRUE]
  /\ pc' = [pc EXCEPT ![p]["import"] = "place"]
  /\ UNCHANGED <<manifest, inSync, mu>>

\* addFile returns an error: the entry that was removed stays removed.
ImportFails(p) ==
  /\ "fail" \in Ops[p] /\ pc[p]["import"] = "append"
  /\ pc' = [pc EXCEPT ![p]["import"] = "idle"]
  /\ job' = [job EXCEPT ![p] = NoJob]
  /\ UNCHANGED <<manifest, mem, inSync, marks, mu, stored, asked>>

ImportPlaces(p) ==
  LET u  == job[p].uid
      es == [x \in {u} |-> [mem[p].entries[u] EXCEPT !.path = job[p].path]]
  IN
  /\ pc[p]["import"] = "place"
  /\ IF Has(p, u) THEN AskFor(p, es) ELSE UNCHANGED asked
  /\ IF Has(p, u) /\ job[p].own THEN EditEntries(p, es, marks[p])
                                ELSE UNCHANGED <<mem, marks>>
  /\ pc' = [pc EXCEPT ![p]["import"] = "save"]
  /\ UNCHANGED <<manifest, inSync, mu, job, stored>>

----------------------------------------------------------------------------
(* Save.                                                                   *)

InSave(p) == \E t \in Thread : pc[p][t] \in {"write", "stamp"}

\* Entries of the file that p removed since its last Save.
Dropped(p) == marks[p].deleted

\* (mutant of Kept: an entry that the file has not is an external removal)
KeptIfThere(p) ==
  {u \in Present(p) \cap marks[p].dirty : manifest.entries[u] # Absent}

\* Entries whose version in memory wins.
Kept(p) ==
  {u \in Present(p) \cap marks[p].dirty :
     manifest.entries[u] # Absent => u \notin Dropped(p)}

\* (mutant of MergedFolders: the marks of removed folders are not read)
UnionOfFolders(p) ==
  manifest.folders \cup (mem[p].folders \cap marks[p].dirtyFolders)

MergedFolders(p) ==
  (manifest.folders \ marks[p].deletedFolders)
    \cup (mem[p].folders \cap marks[p].dirtyFolders)

\* mergeExternal: the file has the last word on whatever is not marked.
Merged(p) ==
  [entries |-> [u \in Uid |->
      IF u \in Kept(p) THEN mem[p].entries[u]
      ELSE IF u \in Dropped(p) THEN Absent ELSE manifest.entries[u]],
   folders |-> MergedFolders(p)]

\* Save takes saveMu, looks at the file, and merges if it is not the one of
\* the last Save.  An entry taken from the file is a new object.
SaveMerges(p, t) ==
  /\ pc[p][t] = "save" /\ ~InSave(p)
  /\ "saves" \in Races \/ \A q \in Proc : ~InSave(q)
  /\ mem' = IF inSync[p] THEN mem ELSE [mem EXCEPT ![p] = Merged(p)]
  /\ job' = IF job[p].own /\ ~inSync[p] /\ job[p].uid \notin Kept(p)
            THEN [job EXCEPT ![p].own = FALSE] ELSE job
  /\ pc' = [pc EXCEPT ![p][t] = "write"]
  /\ UNCHANGED <<manifest, inSync, marks, mu, stored, asked>>

\* The new file is renamed into place: no other process is in sync any more.
SaveWrites(p, t) ==
  /\ pc[p][t] = "write"
  /\ manifest' = mem[p]
  /\ inSync' = [q \in Proc |-> FALSE]
  /\ pc' = [pc EXCEPT ![p][t] = "stamp"]
  /\ asked' = [asked EXCEPT ![p] = Nothing]
  /\ UNCHANGED <<mem, marks, mu, job, stored>>

Unlock(p, t) == mu' = [mu EXCEPT ![p] = IF @ = t THEN "free" ELSE @]

\* Save returns an error: the marks stay for the next Save.
SaveFails(p, t) ==
  /\ "fail" \in Ops[p] /\ pc[p][t] = "write"
  /\ pc' = [pc EXCEPT ![p][t] = "idle"] /\ Unlock(p, t)
  /\ job' = IF t = "import" THEN [job EXCEPT ![p] = NoJob] ELSE job
  /\ UNCHANGED <<manifest, mem, inSync, marks, stored, asked>>

\* (mutant of Resumes: the import starts over after its last Save)
ResumesAgain(p, t) == t = "import"

\* An import whose entry is not in yet has saved the removal of the old one.
Resumes(p, t) == t = "import" /\ ~job[p].in

\* (mutant of JobAfter: the job is forgotten when the old entry is removed)
JobDropped(p, t) == IF t = "import" THEN NoJob ELSE job[p]

JobAfter(p, t) == IF t = "import" /\ ~Resumes(p, t) THEN NoJob ELSE job[p]

\* clearSyncState
Cleared(p) == NoMarks

\* (mutant of Stamped: the time of our own file is not noted)
NotStamped(p) == FALSE

\* saveMuHeldSync: whatever file is there now counts as ours.
Stamped(p) == TRUE

SaveReturns(p, t) ==
  /\ pc[p][t] = "stamp"
  /\ inSync' = [inSync EXCEPT ![p] = Stamped(p)]
  /\ marks' = [marks EXCEPT ![p] = Cleared(p)]
  /\ Unlock(p, t)
  /\ pc' = [pc EXCEPT ![p][t] = IF Resumes(p, t) THEN "append" ELSE "idle"]
  /\ job' = [job EXCEPT ![p] = JobAfter(p, t)]
  /\ UNCHANGED <<manifest, mem, stored, asked>>

\* The process dies and another one loads the vault.
Restart(p) ==
  /\ "crash" \in Ops[p]
  /\ mem' = [mem EXCEPT ![p] = manifest]
  /\ inSync' = [inSync EXCEPT ![p] = TRUE]
  /\ marks' = [marks EXCEPT ![p] = NoMarks]
  /\ pc' = [pc EXCEPT ![p] = Idle] /\ mu' = [mu EXCEPT ![p] = "free"]
  /\ job' = [job EXCEPT ![p] = NoJob]
  /\ asked' = [asked EXCEPT ![p] = Nothing]
  /\ UNCHANGED <<manifest, stored>>

----------------------------------------------------------------------------
Call(p) ==
  \/ \E u \in Uid, n \in Name, c \in Content : Add(p, u, n, c)
  \/ \E u \in Uid, to \in Path : RenameEntry(p, u, to)
  \/ \E u \in Uid, d \in Place : MoveEntry(p, u, d)
  \/ \E u \in Uid, m \in Mode : SetEntryMode(p, u, m)
  \/ \E us \in SUBSET Uid : Remove(p, us)
  \/ \E d \in Dir : CreateFolder(p, d) \/ DeleteFolder(p, d)
  \/ \E d, e \in Dir : RenameFolder(p, d, e)

Import(p) ==
  \E u \in Uid, to \in Path, c \in Content :
    \/ ImportFile(p, u, to, c)
    \/ \E old \in Uid : ImportOver(p, u, to, c, old)

Save(p, t) ==
  SaveMerges(p, t) \/ SaveWrites(p, t) \/ SaveFails(p, t) \/ SaveReturns(p, t)

\* What a busy thread does next.
Proceed(p, t) ==
  \/ Save(p, t)
  \/ t = "import" /\ (ImportAppends(p) \/ ImportFails(p) \/ ImportPlaces(p))

Next ==
  \E p \in Proc :
    \/ Call(p) \/ Import(p) \/ Restart(p)
    \/ \E t \in Thread : Proceed(p, t)

Spec == Init /\ [][Next]_vars

\* Threads are scheduled, and sync.Mutex hands itself to whoever has waited
\* for long, so a thread that can proceed again and again does.
FairSpec ==
  Spec /\ \A p \in Proc, t \in Thread : SF_vars(Proceed(p, t))

----------------------------------------------------------------------------
TypeOK ==
  /\ manifest \in Man /\ mem \in [Proc -> Man]
  /\ inSync \in [Proc -> BOOLEAN] /\ marks \in [Proc -> Marks]
  /\ pc \in [Proc -> [Thread -> Step]]
  /\ mu \in [Proc -> Thread \cup {"free"}]
  /\ job \in [Proc -> Job \cup {NoJob}]
  /\ stored \subseteq Content
  /\ asked \in [Proc -> [Item -> Entry \cup {Here, Absent, Quiet}]]
  /\ \A p \in Proc :
       /\ \A u \in Uid : asked[p][u] # Here
       /\ \A d \in Dir : asked[p][d] \in {Here, Absent, Quiet}
  /\ \A p \in Proc : pc[p]["import"] # "idle" => job[p] \in Job

\* Every entry of the file that nobody has asked to remove has its content in
\* the depot (releaseBlocks removes the contents that no entry has).
Backed ==
  \A u \in Uid :
    manifest.entries[u] # Absent /\ (\A p \in Proc : asked[p][u] # Absent)
      => manifest.entries[u].id \in stored

\* The file is the book that the processes share: a Save writes all that its
\* process was asked for, and touches nothing else (Save, mergeExternal:
\* "ninguem perde mutacoes").
Book ==
  [i \in Item |-> IF i \in Uid THEN manifest.entries[i]
                  ELSE IF i \in manifest.folders THEN Here ELSE Absent]

Promise == INSTANCE ManifestPromise WITH book <- Book

SharedBook == Promise!Spec

\* Every call returns: s.mu and saveMu never block each other.
CallsReturn ==
  \A p \in Proc, t \in Thread : pc[p][t] # "idle" ~> pc[p][t] = "idle"
=============================================================================
